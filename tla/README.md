# Verification of imobo-ms-pkg

`imobo-ms-pkg` is the Go library the services of the IMOBO platform share.  This
directory holds TLA+ modules of its packages, the TLC configurations that check
them on small instances, and theorems that TLAPS proves for every instance.

## 1. The system and what is hard in it

| package | state it keeps or decides about | operations | modelled by |
|---|---|---|---|
| `tenantctx` (context.go) | `TenantContext` in a `context.Context`; the master root in the environment | promotion, visibility and portfolio predicates, entitlement | `TenantContext` |
| `tenantctx` (middleware.go) | one context per HTTP request, from a token and a resolver | `HTTPMiddleware`, `RequireService` | `TenantSession` |
| `tenantctx` (postgres.go) | a transaction on a pooled connection and its `app.*` settings | `WithTenantContext`, also inside its own callback | `TenantTx`, `ScopedWork`, `TenantTxRefines`, `NestedTx` |
| `aescrypto` | a keyring per process; ciphertexts in two formats, kept by others | `New`, `NewKeyring`, `NewFromEnv`, `Encrypt`, `Decrypt`, `KeyIDAtual`, `KeyIDDoBlob` | `Aescrypto`, `KeyRotation`, `SecretStore`, `KeyRotationRefines` |
| `moneycents` | none: int64 amounts of cents | arithmetic; texts, JSON, SQL | `Moneycents`, `CentsLedger`; `CentsText`, `CentsWire` |
| `phonebr` | none: texts, stored keys kept by others | `Classify`, `ChaveLocal`, `Chave`, `Variantes`, `Mesmo`, `Parecido` | `Phonebr`, `PhoneDedup` |
| `veiculobr` | none: texts read from vehicle documents | `Chassi`, `Placa`, `Renavam`, `NumeroCRV`, `CodigoSegurancaCRV`, `CPF`, `CNPJ`, `FormatoDaPlaca`, `PrecisaConferencia` | `CheckDigits`, `Veiculobr`, `FieldReading` |
| `certa1` | none: a .pfx file and its password; the `tls.Config` is kept by others | `Abrir`, `MontarTLS`, `Vencido`, the holder's CNPJ, BER rewriting | `PfxBer`, `Certa1`, `CertificateUse` |
| `claudeia` | a table of prices | `PrecoDe`, `Custo`, `CustoEstimado`, `EmCentavosBRL`, `TokensDeImagem` | `Claudeia`, `CostLedger` |

The packages do not call each other, but that a cost becomes `moneycents.Cents`.
They meet in the services: a request passes the middleware and `RequireService`,
its handler runs units of work with `WithTenantContext`, and what the handler
stores are amounts, ciphertexts and phone keys. The stock entry of a vehicle,
for which the last three packages exist, registers a certificate, sends
documents under it and charges the calls that read them; `StockEntry` puts their
models together. What surrounds a package (Postgres, pgx, the access table, the
identity service, PKCS#12 and ASN.1 libraries, the document reader, operators,
users) is modelled from how the package uses it and marked *external* in the
map.

What is hard, and what the properties are for:

- *Tenant isolation over a connection pool.*  The scope of a query is a setting
  of the connection it runs on.  Five `set_config`, the callback and the commit
  can each fail, the callback can panic or make another call, the connection can
  be lost, and the deferred rollback runs after all of them, when the connection
  may already belong to somebody else.
- *Authorization from data of different ages.*  A token was signed some time
  ago, the access table is read once per request, contracts change, and a
  master may be acting as a client.
- *Key rotation over several processes.*  Each keyring is as old as its process,
  and secrets written by one are read by another.
- *Integer edges.*  Overflow is detected by looking at signs or dividing back,
  the smallest integer is its own negation, and costs are rounded call by call.
- *Two conventions of writing.*  Separators of amounts, and prefixes of phones
  (trunk zero, carrier, country code, ninth digit), are told apart by lengths
  and positions.
- *Guesses about what was read.*  A correction by position is a guess, a check
  digit has blind spots, and what is sent to SERPRO cannot be taken back.
- *Attempts in order.*  A certificate that strict DER refuses is rewritten and
  its MAC made again with whatever password was typed, so that the error the user
  sees depends on which attempt failed.

PROJECT.json lists each hazard at its line with the properties that cover it.

## 2. The modules

**`TenantContext`** has the pure definitions of context.go and
`validateTenantContext`.  A slice of ids is its set of elements: the code asks
for membership and emptiness only.  `Permissions` and `DataScope` are left out,
as no predicate of the package reads them.  `Scope(c)` is not code: it is the
set of tenants a context is meant to give access to.

**`TenantTx`** is `WithTenantContext`, one action per point where the call can
be interleaved or fail: `Call` (extraction and validation), `Begin`/`BeginErr`,
`SetConfig`/`SetConfigErr` (once per setting), `FnRead`/`FnWrite` and the three
returns of the callback, `CommitOk`/`CommitErr`, and the deferred `Rollback`.
`DirectQuery` is the query on the pool the comment of the function warns about,
`ConnLost` a connection dropped under a call.  A statement the policy refuses
aborts the transaction, and a callback may still return nil after it.
`CommitErr` leaves open whether the server committed.  Cancellation of the
caller's context shows as any of the errors.  A lock conflict between two
transactions is not modelled, since rows are only added.

**`ScopedWork`** is what a caller may rely on: a call is refused, or it reads
within its scope, collects writes within its scope, and ends by publishing all
of them or none.  There are no connections or settings in it.
**`TenantTxRefines`** is `TenantTx` with `ScopedWork` as an instance, under a
refinement mapping.

**`NestedTx`** restricts `TenantTx` to calls of which some are made by the
callback of another.  The outer call keeps its connection and its callback waits
for the inner one; the package has no notion of it, and the two are separate
units of work: what the inner one commits stays when the outer one fails.

**`TenantSession`** is the middleware, the gate and the handler of requests,
while `Grant`, `Revoke`, `Contract`, `Cancel` and `Issue` change the world
around them.  A request carries any token ever issued and still its user's
latest one, or an unusual one (unparsable or nil ids).  `ResolveOk` is the moment
the access table is read.  `Read` is a whole unit of work, taken at
`ScopedWork`'s word: `TenantTx` is the module that justifies it.  `accesses`,
`entitled` and `due` are histories: the sets of tenants a request's user had access
to, one for each moment from its arrival until the table was read for it, and
the services its tenant has had since its token was signed.  The properties state
who may do what (`MasterUser`, `RootStaff`) from the identity service's own table
of users, not from what a token or a context says.

**`Aescrypto`** takes AES-GCM for what the code relies on: a ciphertext opens with
the key that sealed it and fails cleanly with another.  The 32-bit keyid is a
function that need not be injective.  Malformed ciphertexts are left out.
`partes` gives the pieces a secret falls into at its commas, trimmed and without
the empty ones; `separaChaves` puts together those of a list, as the package does
with the variable of the environment, so that the earlier secrets of a
configuration (`Config`) are those the operator wrote and not always those
`NewKeyring` gets.
**`KeyRotation`** is a fleet: `Boot` builds a keyring from the configuration of
the moment, `Crash` loses it, `Save`, `Load` and `Rewrite` use it, and an operator
publishes configurations.  `Rotate` is `Publish` under a discipline: a key
encrypts only when every running instance holds it (`Distributed`), and leaves
only when nobody encrypts with it and every secret announces the keyid of a key
that stays (`Rewritten`).  The package comment describes the second rule and
not the first.  `Spec` is the fleet under the discipline, `LooseSpec` the fleet
of an operator who publishes anything.  **`SecretStore`** is a store without keys;
**`KeyRotationRefines`** maps the fleet to it.

**`Moneycents`** has the arithmetic on integers of any width, with Go's
wrap-around and truncated division; **`CentsLedger`** runs an account through
sequences of it against unbounded integers.  **`CentsText`** has the formats and
parsers, over texts that are sequences of characters, and **`CentsWire`**
sends an amount through JSON numbers and strings, screens and a BIGINT column.

**`Texts`** is the loop that several parsers start with: what is left of a text
when only some characters are kept (`Keep`), and the loop that numbers are read with
(`FoldText`).  Both are recursive functions of the prefixes, which a proof can
unfold.

**`Phonebr`** has all functions of the package, over texts in which `Other`
stands for anything that is not a digit.  **`PhoneDedup`** is the board that
chave.go describes: it searches by `Variantes` and stores `ChaveLocal`.

**`CheckDigits`** has the sums of RENAVAM, CPF and CNPJ, which `veiculobr` and
`certa1` both calculate.  A character is its ASCII code less that of `'0'`, the
value it has in these sums, so that letters of the alphanumeric CNPJ need no
table.  The sums are written out, for the proofs.  **`Veiculobr`** has the functions of the package on texts of such
characters; a result keeps the value, the status and the corrections, not the
phrases.  **`FieldReading`** takes a field from the paper to SERPRO: a reader that
misreads, the package, a person who is shown what the package says must be seen
(and the two fields without check digit), and the sending.

**`PfxBer`** is the rewriting of a BER file, on ASN.1 trees whose contents are
either opaque or themselves the encoding of a tree.  The decisions that depend
on bytes are kept: whether a content reads as DER (its outermost header alone),
and whether it reads as BER to within two bytes (`Economia` counts what definite
lengths save).  An opaque content may happen to read as either.  `Nivel` makes the packets
height by height, contents included, and what the code computes by recursion is a
function of the packets up to a height `Altura`.  **`Certa1`** is
the opening in attempts with its errors, the search of the holder's CNPJ in the
CN and the SAN, and the expiry; `DecodeChain` is go-pkcs12 with the order of
checks the package relies on.  **`CertificateUse`** registers a file, retries
passwords and makes a `tls.Config` on some day.  It also says what a file is:
`Regular` has the trees PKCS#12 is made of, in DER or in BER, with octet and bit strings
whole or in chunks, `ComMAC` a MAC that
was made with the file's password, `Emitido` a certificate that holds its holder's
CNPJ, and no other, where ICP-Brasil puts the CNPJ of the holder (it may hold any
number elsewhere).

**`Claudeia`** has the tokens of a photo and the money of a call.  The code scales
a photo with float64 factors and a bisection; a scaled size is one of the set of
integers the product may be truncated to, and the bisection stops just under the
first scale at which a limit is passed.  **`CostLedger`** estimates calls before
they are made and charges them from the usage reported, with any part of the
prompt through the cache.

**`StockEntry`** runs the last three one after the other.  No package looks at
another's state, so interleaving them would only multiply the states.

In several modules a definition whose comment begins "A mutant" is a plausible
mistake in the definition after it.  Nothing uses it: PROJECT.json names the
property that tells the two apart.

## 3. The runs

| run | properties | bounds |
|---|---|---|
| `MCTenantTx` | `TypeOK`, `ReadsInScope`, `PoolSound`, `AuditFaithful`, `OutcomeHonest`, `NoCrossRequestEffect`, `ImplementsScopedWork` | 2 calls, 2 connections, 3 tenants, 5 contexts |
| `MCNestedTx` | `EveryCallReturns` | 3 calls of which one in the callback of another, 1 connection, 2 contexts |
| `MCTenantSession` | `TypeOK`, `ReadsJustified`, `MasterEarned`, `PortfolioStaff`, `ServiceContracted` | 1 request, until it ends; 4 users, 3 tenants, 1 service, 4 rows of access that move |
| `MCTenantSessionNoRoot` | `FailClosed` is violated | 2 users, no master root |
| `MCKeyRotation` | `TypeOK`, `Readable`, `RingOpens`, `OldCodeReads`, `ImplementsSecretStore`, `RotationEnds` | 2 instances, 2 secrets, 2 values, 15 configurations, mistakes included |
| `MCKeyRotationDoc` | `UnknownKeyMeansRemoved` is violated | 2 configurations |
| `MCCentsLedger` | `ExactAwayFromMin`, `PanicMeansOverflow`, `ShareConserves`, `PercentSplit` | every amount and argument of 6 bits, 10 basis points |
| `MCCentsLedgerOverflow` | `OverflowPanics` is violated | the same |
| `MCCentsWire` | `TypeOK`, `AmountKept`, `OnlyMinIntRefused`, `ReadsAsWritten` | 36 boundary amounts of 28 bits, every text of up to 5 of five characters |
| `MCCentsWireBytes` | `AmountKept` is violated | the same amounts, a driver that gives bytes |
| `MCPhoneDedup` | `OneCardPerLine`, `LinesKeptApart`, `MesmoFindsStored`, `WarnsOfOneDigit`, `SendableIsStable` | 4 lines, each in all its writings |
| `MCStockEntry` | `TypeOK`, `NormalisationKeeps`, `CertificateVerdict`, `HolderFound`, `WrongOnlyInSilence`, `CorrectionsHonest`, `NeverUndercharged`, `PhotoPriced` | certificates: 273 encodings, 37 namings of the holder in DER and in BER, 5 odd files, 2 passwords, 3 days; documents: 14 texts of 7 fields with every single misreading (two on a plate), 2 photos; costs: 13 sizes, 3 models and an unknown one, 2 rates, 2 calls |

*Why the bounds are enough.*  Two calls and two connections let one call meet
the connection the other has just used, abandoned or still holds, with a third
party's place taken by direct queries; the contexts have the three scopes that
differ (one client, everything, a client through a master) and one of each
refusal.  For liveness an outer call, the call in its callback and a third one
compete for one connection: the inner call can only be let go by its deadline, the
third by the others.  Requests share nothing but the world outside, which moves
by itself,
so one request suffices; for the same reason `OneHolder` keeps one user's tokens
at a time, and `Running` stops the world when the request has ended, since no property
looks at what changes later.  The service run has one service, as services are only compared.  Two
instances are enough for "one has restarted, the other has not", and three keys
for a rotation that follows another.  `CentsLedger` is exhaustive at its width,
and the arithmetic is the same at every width.  28 bits
keep every intermediate value within TLC's own 32; the boundaries are those of the
formats (cents, thousands, millions) and both ends of the width.  Phone lines were chosen to collide: a
landline that is a mobile number without its 9, and lines of area code 55.
No file of the run is higher than `Altura`, 9.
The encodings are every combination of indefinite lengths outside and inside the
contents, octet strings whole or in one or two chunks, and salts that happen to read as
ASN.1; three more have a bit string, whole or in chunks.  Misreadings are independent in position but for a plate, where pairs
of them are tried because its three pieces are corrected apart; the documents
include those whose check digits are blind.  The sizes include both limits of
each tier, one pixel past them, and some that exceed the second limit after the first is
met.

*Deadlock* is switched off in `MCTenantTx`, `MCNestedTx` and `MCStockEntry`
alone, whose calls, or whose one stock entry, end.

*Fairness.*  `NestedTx`: a call that can proceed does, a callback that waits for
no inner call returns, and `Begin` answers a call whose ctx has a deadline (pgx
gives up with it); nothing is assumed of arrivals, queries or failures.
`EveryCallReturns` asks inner calls alone to have one: without it, as many outer
calls as the pool has connections wait for ever, and nothing in the package
prevents that.  Strong fairness of `Begin` is not needed, as each
call takes a connection once and so leaves it free for good in the end.  `KeyRotation`: an instance is
restarted again and again (weak fairness of `Boot`, always enabled), and a secret
that can be rewritten infinitely often is (strong fairness, since crashes disable
it).  `RotationEnds` depends on the rewriting, which the package leaves to the
owners of the secrets: it says that keys can be retired if somebody does it.

## 4. What the runs found

Six disagreements between the code and what is written about it.  The first four
are violated properties, each with a run; the other two had to be named for a property
to hold:

1. With `MASTER_ROOT_TENANT_ID` absent, a user whom the access resolver calls
   master is master (middleware.go:210 and 228: the double defence only adds).
   context.go:42, context.go:66 and middleware.go:220 say that nobody is.  A test
   (middleware_test.go:262) expects the resolver to be honoured.
2. `ErrChaveDesconhecida` does not mean that a key was removed too early, as its
   comment says.  In a rolling restart an instance with the old configuration
   gets it for secrets of an instance with the new one.  Publishing the new key
   among the earlier ones first avoids it, and `MCKeyRotation` shows that this
   suffices.
3. `Add` of the smallest amount to itself returns 0 without a panic, against
   cents.go:310.  `ExactAwayFromMin` shows that the smallest amount is the only
   one with silent errors.
4. `Scan` of a BIGINT handed over as bytes, which sql.go:16 expects, reads cents
   as whole reais.
5. A passphrase with a comma is a key as it stands while it is the current one, and
   is split at the comma when it moves to the earlier keys, where it may become
   another key that is accepted.  What it sealed then does not open, though
   aescrypto.go:147 says that what the earlier keys sealed goes on opening, and 151
   takes for granted that a key is in base64, which `derivaChave` does not ask for.
   `Readable` holds because `ConfigKeys`, which the discipline looks at, are the keys of
   the split list; with those of the list as the operator wrote it (`c.anteriores` for
   `separaChaves(c.anteriores)`) `MCKeyRotation` finds it violated: a secret sealed
   under `kvirgula`, a publication of `k2` with `kvirgula` among the earlier ones, and
   a restart.
6. `berParaDER` makes an octet string of a bit string in chunks, and keeps the octet
   of unused bits of each chunk as content (pfxber.go:75-79, 112), where
   pfxber.go:18-20 says that such strings are merged with their content kept.
   `NormalisationKeeps` excepts these strings (`PontoCego`); without that disjunct
   `MCStockEntry` finds it violated by a file whose contents hold such a string.
   No test of the package has one.

Limits of the code that the properties had to name, and that a reader should
know:

- `WrongOnlyInSilence` names the misreadings no rule can see (`Silencioso`): a
  letter for a letter or a digit for a digit in a chassis or a plate, the fifth
  position of a plate, a RENAVAM that lost a digit or whose check digit is 0, a
  CPF whose first check digit is 0, a CNPJ whose check digits are both 0 or two
  characters of it that are 11 apart.
- `PrecisaConferencia` is true for corrected fields only.  Its comment
  (veiculobr.go:97) also names the fields that cannot be checked: `FieldReading`
  shows those to the person on the service's own account (`SemDV`).
- The corrections of a RENAVAM read short are numbered in what was read and not
  in the completed value (`falta` in `CorrectionsHonest`).
- Once a file has been normalised, any failure is `ErrSenhaIncorreta`, where
  certa1.go:37 calls a damaged one or one without a certificate
  `ErrArquivoInvalido`.  `CertificateVerdict` is stated for files as an authority
  makes them.
- The rewriting misjudges five shapes (`PontoCego`): a content in DER by its
  first header alone, one whose many small indefinite lengths make it more than
  two bytes shorter, a salt that reads as BER, a ciphertext in a single chunk, a bit string in
  chunks.
- A user whose every access was revoked still reads the tenant of the token, as long
  as the token lasts (middleware.go:214, and `MayRead`): the fallback that is meant for
  services without access data does not tell the two apart.  One who has any access
  left reads those tenants and no other, which `ReadsJustified` checks.
- json.go:31-32 warns that very large numbers may lose precision as Go's JSON parser
  uses float64.  The package does not: it reads the digits of a number as text
  (line 63 on), and `AmountKept` holds of every amount of the width.  Only scientific
  notation goes through float64, and so may a program on the other side.
- `certa1` keeps the digits of a CNPJ only, so that an alphanumeric one is never
  found; `MontarTLS` accepts a certificate without CNPJ, which `Abrir` refuses,
  and checks the expiry when the `tls.Config` is made and not when it is used.
- Halving a photo may cost up to one row of blocks more (`ShrinkingSaves`), as
  the reduction by float64 may land a row apart.
- A nested `WithTenantContext` takes a second connection and commits by itself.

## 5. What is proved

TLAPS checks the following for every value of the constants, under the
assumptions named in the modules (`IdsAssumption`, `NoCtxAssumption`,
`TxAssumption`, `NestedAssumption`, `SessionAssumption`, `CryptoAssumption`,
`RingAssumption`, `FleetAssumption`, `PricesAssumption`, `LedgerAssumption`,
`WidthAssumption`, `ArgumentsAssumption`, `LineAssumption`,
`ReadingAssumption`, `TreesAssumption`, `CertificateAssumption`).  They say that the special values are
not ordinary ones, that a signed token tells the truth about a real home tenant and
its user, what a configuration is and that a secret falls into secrets, that prices, limits and rates are
natural numbers, that 100 % in basis points fits the width, what a phone line is
(a valid area code and eight digits of which the first is 2 to 5, or nine of which
the first is 9), that a carrier is two digits other than the country code, the first
not zero, and that what is printed on a paper is a field that the package accepts as it is.

- `TenantTxProofs`: `TypeOK`, `ReadsInScope`, `PoolSound`, `OutcomeHonest`,
  `AuditFaithful`, and `NoCrossRequestEffect`.
  The inductive invariant `IInv` of `TenantTx` is needed because none of them is
  inductive: that reads are in scope rests on the settings of the callback
  (`SettingsApplied`), which rest on those made so far (`SettingsSoFar`), which
  rest on the connection being the call's own (`NoLeakedConn`, `HandleHeld`) and
  clean when taken (`IdleConnClean`); honesty of outcomes and audit rest on
  uncommitted rows being exactly what the holder wrote (`RowsSigned`).  One lemma
  per action, then temporal logic.  `ImplementsScopedWork`: each action of the call
  is mapped to an abstract action or to a stutter, under `IInv`.  Nesting (`NestedTx`)
  only adds guards to the actions of `TenantTx`, so that isolation, pool
  discipline, atomicity and audit hold of nested calls as well (`NestedIsolation`);
  what nesting adds, the wait for a second connection, is `MCNestedTx`'s subject.
- `TenantSessionProofs`: `TypeOK`, `MasterEarned`, `ReadsJustified`,
  `PortfolioStaff`, `ServiceContracted`.  None is inductive: a property relates what
  a request did to the tables of users, accesses and contracts, and between them are
  a token and a context.  The invariant says that what a token says of a home tenant
  is true (`SignedTrue`) and that its services were contracted since it was signed
  (`ServicesSigned`), that the access of the moment is noted while a request waits for
  it (`AccessNoted`), that a context repeats its token and sees the accesses of one
  noted moment (`CtxFromClaims`), that work done was within the context
  (`WorkOfContext`), and that the gate was passed with the service (`PastGate`).
- `KeyRotationProofs`: `Readable` and `ImplementsSecretStore` under the discipline.
  The invariant
  `KeysHeld` says that every key in use (encrypting now, about to, or under a
  stored secret) is in the published configuration and in every running ring, and
  that rings and ciphertexts are sound.  Without the first rule of the discipline
  it fails at `Boot`.  `TypeOK`, `RingOpens` and `OldCodeReads` are proved of
  `LooseSpec`, whatever the operator publishes, from `LooseInv` (rings without
  two keys of one keyid, ciphertexts that announce their own key, nothing in the
  new format before an earlier key is published); `Spec` implies `LooseSpec`.  That
  a split list is a list of secrets (`EarlierSecrets`) needs an induction over the
  list, `FlattenElements` of `TextProofs`.
- `CentsLedgerProofs`: `ExactAwayFromMin`, `PanicMeansOverflow`, `ShareConserves`
  and `PercentSplit` at every width, that of int64 included, for any amounts.
  They need no more than `TypeOK` of the state.  The arithmetic rests on `Wrapped`
  (an integer and what is kept of it differ by turns of the width), `Truncated`
  (Go's division), and from them `ProductExact`: a product that dividing back gives
  the other factor did not overflow, but for the smallest integer by -1.
- `TextProofs`: what `Keep` and `FoldText` do to texts of every length, which the
  next three rest on: prefixes, concatenation, texts of which nothing is dropped; and what
  sequences put together hold.
  The library's induction theorems take an operator and cannot be used here;
  `Induction`, `Least` and `Greatest` are proved instead of *sets* of naturals, and
  `TextInduction` of sets of texts, from the well-foundedness of `<`, and a recursive
  function is shown to exist before it is unfolded (`KeptExists`, `FoldedExists`).
- `CentsWireProofs`: `ReadsAsWritten`, `AmountKept`, `OnlyMinIntRefused` and
  `TypeOK` at every width and for every amount, where the run has 36 amounts of 28
  bits; what is typed is any set of texts of any length, where the run has those of
  five keys.  *Reading*: `parsePositiveInt64` is the number its digits write or an
  error (`Number`), a separator that is the last of its kind splits a body in one
  way, and so `FromString` returns what is written or refuses it, as too large only
  if it is; that it accepts every text a person could read is not claimed, and
  does not hold.  *Writing*: `%d` read back is the number it was made from, thousands marks
  disappear again when read, and so the texts of `String`, `FormatBR` and
  `MarshalJSON` read back as their amount (`PrintedRead`, `NumberRead`,
  `QuotedRead`), but for those of the smallest integer, which are refused.
  `AmountKept` is not inductive: a trip is between writing and reading for a
  state, and the invariant `WireInv` adds what the text in hand is then
  (`Travelling`).  The last two theorems suppose `Driver = "int64"`; with a driver
  that gives bytes `AmountKept` is false, as `MCCentsWireBytes` shows.
- `PhoneDedupProofs`: `OneCardPerLine`, `LinesKeptApart`, `MesmoFindsStored`,
  `WarnsOfOneDigit` and `SendableIsStable` for every set of lines and every
  carrier, where the run has four lines.  The invariant says what a card and a text are: the key
  of a card is one of the numbers of the card's one line, and no two cards are of
  one line (`BoardOK`); a text lately seen is empty or somebody's writing of some
  line, not always one of `Line`, as a mistyped text is another line's
  (`HeardOK`).  The rest is about
  the package's functions: each way of writing a line leaves certain digits
  when cleaned, each number of digits is classified by one branch of `Classify`, and
  so every writing of a line has the line's own key, variants and sameness.
  `SendableIsStable` is about texts that somebody writes for a line; it is false
  of a made-up text such as 5501234567.
- `StockEntryProofs`: `NeverUndercharged` for any prices, rates and sequence of
  calls, from a lemma on the rounding of one charge, and that a photo of any size
  is priced within both limits of its tier, whatever the limits (`EveryPhotoFits`).
  `PhotoPriced` for photos of every size, where the run has 13, at the limits of
  `Tier.limites` and `Bloco` (`PublishedLimits`).  A reduced photo keeps its
  proportions but for less than a pixel on each side, float64's last bit included
  (`Along`).  A bisection stops less than a row of blocks under the limit of tokens,
  or else at a scale where both sides enter a block at once (`BisectedTokens`,
  `Corner`), which can lose a row and a column.  That is enough for the two tiers
  (`StandardCheaper`).  For half a photo the corner needs more: to come to a row
  of tokens above it, the half would have one side a block past the corner and the other
  short of it, which the proportions of the two photos do not allow
  (`ShortGrows`, `LongGrows`, `HalfOfCorner`).  And, of `FieldReading`: `WrongOnlyInSilence` and `CorrectionsHonest` for any
  documents, any set of characters an extractor confuses and any number of photos,
  where the run has 14 texts.  Three arguments meet.  *What the package accepts*
  (`AcceptedOfAny`): for a text of any length and any characters, the value of an
  accepted field has its form, differs from the cleaned text exactly by the
  corrections, and is accepted again as it is.  *What an extractor leaves*
  (`Readings`): once cleaned, a reading of the field's own length is the printed
  text but for at most one character.  *What a check digit catches*
  (`RenavamCatches`, `CPFCatches`, `CNPJCatches`): one misread character is refused
  in every RENAVAM, CPF and CNPJ, but for the blind spots of section 4, since eleven
  divides no weight.  The invariant `ReadInv` ties the result to the reading it was
  made from (`Conferido`) and says that what is ready to be sent was seen by a
  person or was neither corrected nor without check digit.  A plate needs no
  reading: two plates of the right form differ in silence anywhere.  `ReadTypeOK`
  follows as well.

  *Certificates*, for files of any height, with any number of children, extensions
  and names: `NormalisationKeeps`, `CertificateVerdict`, `HolderFound`.  The
  invariant `CertIInv` says that what the screen shows is what `Abrir` gives for the
  file and the password registered now, and that what the service has is what
  `MontarTLS` gave on some day up to now; the properties follow, as the verdict depends on
  the file, the password and the day alone, and a certificate that has expired on a day
  has expired on every later one.  What those functions compute rests on two
  inductions over the height of packets, written as inductions over sets of naturals:
  that recursive functions of packets exist, after which each can be unfolded, and
  that rewriting gives `Canon`, kept in strict DER and fixed by a second rewriting
  (`PacketsTreated`).  A content that is rewritten is lower than the packet that
  holds it, which is why a height counts the trees in contents.  The proof follows
  the branches of `berParaDER`: strings, in chunks or not, are put together
  again; a ciphertext in two chunks or more is joined, one in a single chunk being the
  blind spot; a wrapper keeps its child.  A verdict is then read off the attempts:
  a file in DER meets a MAC that is right for one password (`ComMAC`), and a file in BER,
  rewritten, one made again for any password, so that only the contents refuse it.

  The specification of `StockEntry` implies those of `FieldReading` and `CostLedger`,
  so that what was proved of these holds in the composition (`PartsCompose`,
  `PartsComposePhotos`), and its `TypeOK` follows with `EntryInv` (`EntryTyped`).

In the proofs on costs and cents, multiplication of variables is kept to small
lemmas, which the SMT solver can do; in those on texts, a lemma's conclusion is
often an operator of its own (`Required`, `InTurn`, `ReadsAs`), which the provers
instantiate better than a quantified formula.

What the proofs about certificates suppose: `CertificateAssumption`, that files are
trees of PKCS#12 with the MAC of their own password and with certificates that were issued
as ICP-Brasil does, all of which come from outside the repository, and that no
file, password or packet is one of the values that stand for their absence.  Files that
are no ASN.1 at all, the empty one, files without a certificate, without an authSafe
or with contents that fall into a blind spot are included, and so are bit strings in
chunks, which are one.  TLC evaluates the assumption on all files
of the run, odd ones included.

Only model-checked: liveness (`EveryCallReturns`, `RotationEnds`), which is out of
the prover's reach.  Every other property of a passing run is stated by a theorem.

## 6. What is not modelled

- `FromReais` and JSON numbers in scientific notation: binary floating point.
- `FormatBRCurrency` (a prefix), `MicroDolar.String`, a NULL column in `Scan`,
  `Noop`, logging, the bodies of HTTP errors, the phrases of a rejection.
- Sharing of the resolver's slice of visible tenants with the context, listed as a
  hazard.
- Malformed ciphertexts, and the cipher; the derivation of PKCS#12 keys.
- The serial number, thumbprint and names that `Abrir` copies, and a `tls.Config`
  that is kept past the expiry: nothing in the package looks at it again.
- The overflow of int64 in `EmCentavosBRL`, at a cost of seventeen thousand million
  dollars.

## 7. Plan

Built so far, in order of importance: the transaction, its abstraction and
proofs, then nesting; the rotation, under and without discipline; the session;
money and its proofs; phones and the stock entry; the proofs of costs, of photos, of phones,
of the flow of documents, of the texts of amounts, of certificates and of the stock
entry as a whole.  Next:

1. `TenantSession` over `ScopedWork` by instance, so that the composition is
   stated and not only argued.
