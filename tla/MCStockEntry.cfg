SPECIFICATION Spec
CONSTANTS
    Nada = Nada
    Altura = 9
    Vazio = Vazio
    SemArquivo = SemArquivo
    Arquivos <- AllFiles
    Senhas = {"certa", "errada"}
    MaxDia = 3
    SemCampo = SemCampo
    Papeis <- Papers
    Trocas <- Swaps
    MaxFotos = 2
    Bloco = 28
    LadoMaior <- LadoDe
    TetoTokens <- TetoDe
    Tabela <- Prices
    Micro = 1000000
    Fotos <- Sizes
    SemFoto = SemFoto
    Modelos <- Models
    Textos = {500}
    Saidas = {300}
    Taxas = {540, 612}
    MaxChamadas = 2
INVARIANTS TypeOK NormalisationKeeps CertificateVerdict HolderFound WrongOnlyInSilence CorrectionsHonest NeverUndercharged PhotoPriced
CHECK_DEADLOCK FALSE
