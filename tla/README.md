# Verification of formql

formql compiles formulas and documents (comma-separated projections) over a
relational schema to one PostgreSQL `SELECT`. This directory holds TLA+ modules
that model parts of it, TLC configurations that check them on small instances,
and TLAPS proofs. Paths without a prefix are under `src/pkg/formql/`.

    tlc -workers 2 -config MCCatalogCache.cfg MCCatalogCache
    tlapm CatalogCacheProofs.tla

## 1. Inventory

| component | state it keeps | operations | what is hard | what makes it correct |
|---|---|---|---|---|
| Document lowering, `semantics/lower.go` | per lowering: join table, join order, warnings, used aliases, current table of a chain | `LowerDocumentWithOptions`, `LowerWithOptions`, `lowerExpr`, `addJoin`, `selectAlias` | items share joins, warnings and names; cycles and diamonds in the catalog; errors late in a document; an unbounded loop | one join per path, parents first, along the catalog; distinct names; warnings exactly where due; the query the text promises or none |
| PostgreSQL renderer, `backend/postgres/render.go` | none | `Render`, `RenderDocument` | clause order | every alias read is introduced above |
| Schema catalog, `schema/schema.go` | three indexes, built by `Validate` | lookups, `Unify`, `Compatible` | names that collide, order of arguments | lookups agree with the lists; a type does not depend on argument order |
| Catalog providers, `catalog/provider.go` | the cache map, stamped snapshots | `Load`, `Invalidate`, `Clear` | concurrent callers; nothing is locked across a load; age at the boundary; clones that share indexes | no answer older than one settled; right reference; age bounded |
| Live catalog, `livecatalog/postgres.go` | none (the database has it) | `BuildSnapshot`, `SnapshotFromIntrospection` | several queries outside a transaction; cross-schema names | relationships refer to tables of the snapshot |
| Language server, `lsp/server.go` | open documents; two pipes | one handler per method | the editor types on, files and tables change during a handler; pipes fill; the editor dies | one response per request in order; what is shown at rest is true; lives and ends with its editor |
| LSP symbols and schema file index, `lsp/symbols.go`, `lsp/schema_index.go` | scanner flags | `build`, `symbolAtPosition` | characters around a cursor are read without the parser; sections opened and closed on one line | a name is taken for what it is in the tree; every declared symbol is located |
| File metadata, `filemeta/filemeta.go` | none | `ParseSource`, `LoadSidecar` | comments that two readers end differently; map order; two sources of a table | a table that the file names; a conflict is refused |
| Lexer and parser, `frontend/` | position, current token, the call stack | `Parse`, `ParseDocument`, `nextToken` | precedence, byte 0 and comment ends; which token is to blame | the tree of the grammar or an error where the text leaves it; tokens say what is written |
| Builtins and type rules, `builtin/`, `functionResultType`, `renderCall` | none | three hand-kept tables | they drift apart | every accepted call renders |
| Completion, `tooling/completion.go` | none | `Complete` | depth limit; the chain before the cursor is read without the parser | every offer compiles; the chain is the one of the tree |
| Verification pipeline, `verify/`, `capi/` | none | `Verify`, C strings | failures without diagnostics | NULL means valid |
| Diagnostics, API facade, `formula.go` | none | records, forwarding | | |
| Command line, `src/cmd/formqlc` | none | one-shot commands, `lsp` | no deadline on the server's context | |
| Web backend, `src/cmd/formqlweb` | a provider shared by handlers | HTTP handlers | a file read twice at different times; deadlines | |
| PostgreSQL extension, `src/ext/formql` | none | introspection in C | duplicates the live catalog | the same catalog as the live one |
| VS Code client, `src/editors/vscode` | the running client | start, stop, restart | they interleave at their awaits | at most one client runs |
| WASM bridge and playground | user interface | | racing requests | |

How they interact: a host (command line, web backend, language server,
extension, WASM) takes a text and a reference; a catalog provider turns the
reference into a snapshot of a schema (from JSON or from a live database,
perhaps through the cache); the frontend parses the text (the metadata reader has gone through
its comments before, to find the table); lowering resolves it
against the snapshot to a plan; the renderer prints the plan; the
verification pipeline may have PostgreSQL's parser read it. The calls are
synchronous. Shared state exists in two places only: the cache of a provider
(goroutines of the web backend) and the pipes of the language server (two
processes). `PROJECT.json` lists the hazards of all components at their lines.

## 2. What is modelled, and how it corresponds to the code

| module | models |
|---|---|
| `DocumentSyntax` | what a lowering is given: catalog, parsed document, names |
| `DocumentPlan` | abstract specification: the query a document stands for, said at once |
| `DocumentLowering` | lowerer and renderer, one step per loop iteration |
| `CatalogCache` | `CachingProvider` over `MemoryCache`, concurrent callers |
| `LanguageServer` | server loop and handlers between an editor and a provider |
| `LiveCatalog` | `BuildSnapshot` over the views of a database that DDL changes; the extension's query |
| `TypeRules` | types of expressions, their errors, the table of builtins, the arguments the renderer writes |
| `VSCodeClient` | the extension's start, stop and restart over version 9.0.1 of the client library |
| `DocumentParser` | `Parse` and `ParseDocument`, token by token, against the grammar |
| `EditorSymbols` | extends it: what hover, definition and completion make of the characters of a text |
| `SourceCharacters` | the text of a file, as classes of characters |
| `Lexer` | `nextToken`, one action per turn of its loop |
| `FileMetadata` | leading comments, directives and sidecars: the table of a file |
| `SourceText` | composes the last two over one text |
| `*Proofs` | theorems about the module they extend; `DocumentLoweringProofs` has the refinement too |
| `MC*` | constants for TLC |

**DocumentLowering.** `joins`, `order`, `warnings` are `l.joins`, `l.order`,
`l.warnOrder`; `table` is `currentTable`; `suffix` the counter of
`uniqueAlias`; `fields` the plan; `query` what the renderer prints, as clauses.
`BeginReference`, `JoinHop`, `ResolveField` are `lowerRelationshipRef` (a
column of the base table is a chain of length zero); `Select*Alias`,
`DefaultAliasTaken`, `NextSuffix` are `selectAlias` and `uniqueAlias`; each error is an
action of its own. A name is the sequence of its `_`-separated tokens, so that
`a.b` and a column `a_b` collide as they do in the code. The hash in a join alias
is taken to be injective. An expression is its references in the order
`lowerExpr` reaches them; a type error may come before, between or after them.
The module is shown to implement `DocumentPlan`, which looks at no intermediate
state: joins are the paths in the order of their first mention, names the least
free suffixes, warnings the joins' in their order.

**CatalogCache.** A `Load` is the steps between which no lock is held: `Hit`
or `Miss` (`Get`), `ServeHit` or `Expired`, `EvictExpired` (`Delete` by key,
whatever is there by then), `UpstreamAnswers` or `UpstreamFails`,
`StampAnswer`, `Put`. `Invalidate` and `Clear` come from any idle caller.
`Tick` and `SchemaChange` may happen between any two steps. The unlocked
`entries == nil` test is a read of an empty map, before or after a racing call.
A name is the sequence of its pieces, of which a dot and a colon are two: `Key` joins namespace and table with a colon and
escapes nothing, `Denotes` takes what precedes the first dot of a table for its schema (`resolveRef`). The upstream's snapshot
carries a stamp of any past moment (`JSONProvider`, `StaticProvider`) or none (the live provider).
History: `floor`, what each key has settled to; `start`, the floor when a call
began; `loadedAt`, when the upstream's answer arrived.

**LanguageServer.** `docs` is `Server.docs`; a handler is `Receive...`, then
`Resolve` (the directive of the text, else the sidecar), then `Load`, then
`Write`; each of the last three has its failing form. `inbox` is the server's
stdin, `outbox` its stdout, of `OutboxCapacity` messages. What the compiler
says is a verdict `(code, text, table, catalog)`, which tells apart everything
the answer depends on. The editor and the file system are external: the editor
sends full texts, asks about open documents only, reads when there is something,
and may die at any step. History: `seen`, the editor's text when a message was
sent; `asked` and `answered`; `disturbed`, the documents whose sidecar or
catalog has changed since they were last looked at.

**LiveCatalog.** A query of `BuildSnapshot` is a step: `ReadTables`, `ReadRelationships`,
`ReadTargets` (`CrossSchemaTargets`), `ReadForeignTables` once per foreign schema;
`Serve` or `Reject` is `Validate` with the indexes it builds. Between any two,
`CreateTable`, `DropTable`, `AddForeignKey`, `DropForeignKey` change the database, and any
query may fail. A query is the join it writes, over three views of `information_schema`
that are external. A name is a value, a column the sequence of its `_`-separated words.
The extension asks once, so its catalog is a value of the database:
`ExtensionRelationships`, `ExtensionTables`; its rows name no schema of a table (`NoSchema`), so what is compared is what `SchemaFor`
makes of a table in either catalog. History: `sawTables`, `sawFks`, all that has
existed since the load began; `quiet`, no DDL since.

**TypeRules.** `lowerExpr` walks a tree bottom-up, so an expression is built on a stack:
`Literal`, `Column`, `Negate`, `Binary` and `Call` are its cases, each taking its operands from the stack.
`BinaryResultType`, `FunctionResultType`, `Unify`, `Compatible` and `AllowsType` are the functions
of these names. The copies that are kept by hand next to them are modelled one by one: `FunctionError` and `BinaryError`
(`semanticFunctionError`, which looks for the reason again), `Specs` (`builtin.go`), `Rendered` and `Written`
(the functions that `renderCall` knows and the arguments it writes). A node is its type; a column's is the catalog's. What
PostgreSQL makes of the rendered SQL is not modelled: the catalog merges `timestamp` with `date` and takes uuid, json and arrays for
strings (`livecatalog/postgres.go:348-360`, src/README.md:171-172), so an accepted formula may well be refused there.

**VSCodeClient.** `client` and `warningShown` are the variables of `extension.js`. A task is a call of `activate`,
`restartClient` or `deactivate`; an action takes it from one await to the next. The library is the one that
`package-lock.json` pins, 9.0.1, and external. There `start()` returns a Promise, so what the extension pushes to `context.subscriptions`
stops nothing, and `client.onReady` does not exist, so `startClient` throws right after the start: its task ends while the client is `starting`,
and the only await that waits is that of a stop. `stop()` refuses a client that does not run and leaves its server (`StopClient`, second
branch); a stop under way may be rejected too (`StopRejects`), and its server may be killed later or not (`ServerKilled`). Since activation ends
with that error, VS Code need not call `deactivate`: the model allows either. What the user configures is one value, or `Unset`.
History: `overlapped`, a task began while another was pending; `abandoned`, the clients whose stop was rejected; `refused`, one was since the last start.

**DocumentParser.** The Go stack of the recursive descent is `stack`, of trees that lack children; `label` and `level`
say in which function and at which statement the parser is; `tokens` are those it has asked for, the last one
`p.current`, so a text is drawn while it is read and every prefix is a state. Each branch of `parseExpression`,
`parseTerm`, `parseFactor`, `parseIdentifierLike`, `parseRelationshipPath` and of the loop over items is an action, each error one with its code and
the token it is reported at. Where the parser closes a call it replaces whatever error `eat` returns, that of the lexer on the
token behind the parenthesis too (`ClosesCall`, `LexerFailed`). `Derivations` is the grammar as a definition of its own: all trees of a span, by level
(`Ways` says what one level makes of shorter spans and of tighter levels); it knows nothing of the parser's steps.
`EditorSymbols` lays the tokens out with nothing, blanks or a comment between any two, and has `SymbolAt`
(`symbolAtPosition`) and `CompletionChain` (`completionPrefix`) find runs of adjacent characters, as the code does.

**SourceText.** `Lexer`'s `pos` and `Ch` are `l.pos` and `l.ch`; behind the text there is the byte 0, as in the code.
`FileMetadata` has the loop of `leadingComments`, the merge of directives one by one, and the entries of a sidecar stored in any
order; a key that is not there is "unset", an empty value is `NoValue`. A directive, `@formql key=value key=value` and a blank, is one character, malformed when
something else follows it in its comment; `Parameters` has what it gives, of one key the last (`GivenBy`, `parseParams`). JSON is broken or an object. The code
remembers nothing of a file, so it is resolved once. History: `skipped`, the comments the lexer has passed.

## 3. Runs

| run | question | bounds |
|---|---|---|
| `document_lowering` | are joins, names, warnings and the query right for every document, and does lowering end? | up to 3 items of 9 kinds, plus each of 5 failing items alone, after and before each good one; catalog with a diamond and a cycle; depth limit 3 |
| `cache_safety` | what can concurrent loads, invalidations and schema changes do to an answer? | 2 callers, 2 references with one table name, clock to 2, TTL 1, one schema change, any stamp |
| `cache_liveness` | does every `Load` return, with an answer for the reference it asked for? | 2 callers, 3 references that dots and colons make alike, clock to 2, TTL 1 |
| `lsp_safety` | are responses complete, ordered and about the right text; is what is shown true? | 2 documents, 3 texts, 3 messages, 1 change of the world, stdout of 1 message, live mode |
| `lsp_liveness` | is every request answered, does the server end with its editor? | 1 document, 2 texts, 3 messages, malformed params allowed, schema-file mode |
| `live_catalog` | what does a load serve, with the schema at rest and with DDL between its queries; does the extension agree? | 2 schemas with 3 table names each, 5 foreign keys, every database over them, 2 DDL statements |
| `two_column_keys` | is every relationship a foreign key? (violated) | one key of two columns, no DDL |
| `type_rules` | do type rules, error codes, builtin table and renderer agree, and do null and order change a verdict? | every expression that keeps 3 nodes at a time, columns of every type, one name that is no builtin |
| `vscode_client` | what do overlapping restarts, changed settings and deactivation leave? | 2 settings and none, at most 4 restarts (a deactivation counts), 2 of them by changed settings |
| `overlapping_restarts` | does a restart replace the server? (violated) | the same with 2 restarts |
| `document_parser` | is the tree the grammar's, the error at the fault, a name to the editor what it is in the tree? | every text of up to 6 tokens of 15 kinds, as a formula and as a document |
| `source_text` | do the two readers agree on comments, is a file's table the one it names, do tokens say what is written? | 7 characters of comments, 4 of tokens, two directives of 7 (some with several parameters), sidecars over 2 spellings of each of 2 keys |

Why these bounds are enough to be interesting: three items are what it takes
for a generated suffix to meet an explicit alias on either side of it, and for
two items to share a prefix joined by a third; a chain of three hops walks the
diamond and the cycle, one of four passes the limit. Two callers are what a
lost update, a late `Put` and a deletion of another caller's entry need; one
schema change tells old from new; the clock reaches both sides of the TTL. Three
messages are open, change, ask and open, change, close; one place in the pipe
makes the server wait. Two DDL statements are what it takes to drop a
target and put another table of its name elsewhere between two queries. Three nodes are what IF takes;
since a parent sees no more of a node than its type, the expressions are of any height. Four restarts
let two of them overlap the stop of a third and one follow. Six tokens are what it takes for an operator on either side of another,
inside a parenthesis or an argument list, for two items with an alias, and for a path with a call behind it; of the tokens that
the parser treats alike the run has one. Seven characters are a comment with a directive in it and the beginning of the next;
four a number with two points, a literal with an escaped quote, an operator of two characters in front of a third.

`CHECK_DEADLOCK FALSE` is used where the system ends: a lowering that is done,
a server that has stopped or a client whose message bound is used up, a walk that met a type error, an extension whose restarts are used up, a text
that has been read or refused. The cache runs check deadlock.

**Fairness.** Lowering is one goroutine that waits for nothing: weak fairness
of `Next`. A `Load` of the cache is scheduled by Go, blocks on locks that are
held for bounded work, and its upstream answers or fails, since the web backend's
handlers set a five-second deadline: weak fairness of each caller's `Load` steps;
callers need not call, the clock need not tick. The language server runs weakly fairly,
its editor reads while it lives; a provider is assumed to answer. The schema-file
mode guarantees that, so the liveness run is in that mode; the live mode has no
deadline (`src/cmd/formqlc/main.go:386`) and nothing is claimed for it.

**What the runs show.** `NoTimeTravel` is the guarantee that survives the
unlocked window: an invalidation is final unless a load already held an answer,
in which case the older answer is stored afterwards and stays for its TTL (for
ever when TTL <= 0). `DiagnosticsSettle` excepts documents whose sidecar or
catalog changed later: the server watches neither.
`StopsOnlyWhenTold` is about editors whose params decode: an undecodable notification
ends the server, an undecodable request is answered. `RequestsAreAnswered` has an editor that reads and a server's stdin without
a limit: two full pipes that hold each other up are not covered.

`AnswersItsRef` excepts keys that a name with a colon makes: `sales:orders` without a namespace and `orders` in `sales` share one.
`NoTimeTravel` does not forbid the loss of a fresh entry to the deletion of an expired one, which costs a query only.

`QuietLoadIsExact`: a load succeeds when the base table is in the schema asked for or in any schema that a foreign key
of it refers to: `Validate` looks for the name only (`schema/schema.go:138`), and the query then reads the other schema's
table. The proof found that; an instance with fewer foreign keys had not.

`ServedJoinsAreReal` and `QuietLoadIsExact` are about databases that are
`Unambiguous`: PostgreSQL lets constraints of two tables of a schema share a
name, tables of two schemas too, and one column have two foreign keys; then rows
meet that do not belong together, a foreign schema's table replaces the local one in
the index, and one of two relationships is lost. `Unambiguous` is about all tables and keys seen during a load, so DDL that moves a table's name
from one schema to another in the middle of it is excluded too.
`ExtensionAgrees` excepts schemas with foreign keys that leave them and constraints of other schemas that share a name: there the
two hosts disagree.

`NullStandsForAnything` and `OrderDoesNotMatter` leave out columns of unknown type, for which the
code promises less: operators and functions accept them, a comparison with a known type refuses them, and `Unify`
returns at the first one, so that `COALESCE` over the same arguments is accepted in one order and refused in another.
`OneServerAtATime` is about tasks that do not overlap, and about clients that the library
has not refused to stop; `overlapping_restarts` shows why it has to be.

`ErrorsPointAtTheFault`: a character that is no token, behind a call, is blamed on the call's parenthesis (`LexerErrorDropped`); the hint to insert an operator is given behind an alias too, where none helps.
`SymbolsFollowTheTree` leaves out paths written with gaps and calls with a comment in front of the parenthesis, which the parser accepts and
hover and completion, reading adjacent characters, take for something else (docs/architecture.md:110
speaks of the symbol at the position), and `TRUE(`, a call to the parser and a constant to the editor.

`SameLeadingComments` and `TableIsTheOneNamed` are about texts whose lines end in a newline and that have neither a form
feed nor a byte 0 between comments: the metadata reader ends a line comment at a carriage return alone, where the lexer reads on
(a text whose lines end so is one comment to it); it passes any Unicode space, the lexer four; and it reads on
behind a 0. `TableIsTheOneNamed` also says that a second sidecar is not looked at, even when the first names no table.
Where a sidecar spells one key in two ways, which value stays depends on the order in which Go walks a map: the property admits
each of the tables so named, and two requests about such a file may differ.
`TokensReadAsWritten` shows that no literal can end in a backslash.

**Findings.** `two_column_keys`: the join of the views does not match the positions of a key's columns,
so a foreign key of two columns is served as four relationships, two of them wrong
(docs/architecture.md:75: "direct foreign-key relationships").
`overlapping_restarts`: `stopClient` clears `client`
before it awaits the stop, so a restart in that time starts a server at once, the first restart starts another,
and the first server is stopped by no later restart (`src/editors/vscode/package.json:43`, "Restart Language Server").

More differences are plain from one statement and have no run. Three of them the models have, and the properties except them openly.
For `F() #` the parser says that a ")" was expected where a ")" stands, and not that `#` is no token, since it replaces the error of reading the next
token too (`frontend/parser.go:370`; the hint of `frontend/lexer.go:234` is lost; `LexerErrorDropped`). Two directives that give
one parameter two values are refused (`filemeta/filemeta.go:42`), one directive that does is taken and its last value wins (`filemeta/filemeta.go:166`;
`IsLastOf`). `client.onReady` does not exist in the pinned library (`extension.js:103`), so activation ends with an error, and a restart while
the client starts ends with another one, without a client and with the old server out of reach (`refused`, `abandoned`). The others: `target_indexed` looks in the schema
of the referencing table only, so a join into another schema is warned about although its target has an index
(`livecatalog/postgres.go:281`, docs/architecture.md:61; `QuietLoadIsExact` says it of targets within the schema);
AGENT_HANDOFF.md:171 gives `customer_email` as the default alias of `customer_rel.email`, where `defaultAlias` keeps the
relationship's name whole; and relationship names get `__rel` appended, where docs/architecture.md:78 says `_id` is stripped.

## 4. Theorems

All hold for every value of the constants that satisfies the modules' named
assumptions (`DocumentSyntax`: the catalog's shape, documents are nonempty
sequences of items; `CatalogCache`: integers, and references are records of
namespace and table, whose names are made of pieces, dot and colon among them; `LiveCatalog`: finitely many foreign keys, which compare columns of their tables, a column's name is a sequence of words;
`LanguageServer`: there is a document, and "closed" is no text; `VSCodeClient`: "unset" is no setting and "no client" no index;
`TypeRules`: a function's name, written in upper case, is no operator;
`SourceCharacters`, `FileMetadata`, `SourceText`: a directive gives a sequence of keys and values, none the "unset" of a key that has none yet; sidecar keys normalize to keys;
texts are sequences of characters;
`DocumentParser`: the tokens are of the lexer's types, the end of input among them, and a text has a bound, any one).
Induction is used through sets: a set of numbers without a least element is empty, so that what holds of zero and
passes to the next number holds up to any bound (`LeastNumber`, `CountUp`, stated where they are needed). What a fold computes is proved so.

`DocumentLoweringProofs`
- `TypeCorrect`. `TypeOK` is not inductive alone: `TypeInv` adds where in an
  item and in a chain the lowerer stands (`Position`).
- `JoinsOrdered`, `JoinsAlongCatalog`. The invariant `JoinInv` adds that the prefix of the
  chain walked so far is joined and ends on `table` (`WalkedPathJoined`), and that the references
  kept so far are readable (`ReferencesReadable`). Without the first, the next hop could
  have no parent.
- `DistinctAliases`, by `AliasInv`, which counts a field per item done.
- `WellScopedQuery`. `QueryRendersPlan` says that a rendered query is the rendering of the
  plan, `PlanWellScoped` that `JoinInv` makes every such rendering well scoped.
- `ExactWarnings`, by `WarnedOnceEach`: no warning is there twice, each is due to a join of the plan, and each that is due
  to one is there; one join adds its own only.
- `KeepsPromise`: `DocumentLowering` implements `DocumentPlan`. The lowering does nothing visible until its last step; `PlanInv` says what
  it has by then. `BehindResolves`: the references and items passed mean something, to the very joins and tables the lowerer
  holds (`Stops` says where a chain leads). `AsWritten`: the plan's fields are the items' references. `NamesChosen`: the names given so far are those
  of the items so far, the suffix tried next the least that may be free. `JoinsMentioned`: the join list is the list of first
  mentions so far (`Rank` counts the mentions in front), and `WarningsInOrder` that the warnings are those of its joins in turn.
  At the end nothing is left to pass; in an error the item at hand means nothing. Ranks and suffixes are settled by counting, sorted lists and
  flattened warnings by saying what `FlattenSeq` makes of one sequence more (`FlattenAppend`).

`CatalogCacheProofs`, over `TypeInv`
- `CacheTypeCorrect`.
- `LoadsDoNotTravelInTime`. `TimeInv` bounds what each place may hold: what is cached under a key, or about to be
  stored, is no older than the key's floor; a hit under way no older than its caller's start;
  and starts, floors and revisions never run ahead of one another.
- `LoadsAnswerTheirRef`. Where no name holds a colon there is one way to split a key (`OneWayToSplit`), so unambiguous keys tell apart what
  references denote (`KeyDenotes`); `RefInv` says that an entry under such a key is about what the key denotes.
- `HitsAreYoung`. `AgeInv`: what is cached or held is stamped no later than it arrived.

`LiveCatalogProofs`
- `LiveCatalogTypeCorrect`. `TypeInv` adds which queries each phase has behind it (`Phase`).
- `ServesRealJoins`. `SeenInv` says of each intermediate result what existed when it was
  read: batches hold tables that have been seen and, as long as what has been seen is
  unambiguous, relationships are foreign keys that have been seen, and the index finds tables that have.
  What has been seen only grows, so a later state that is unambiguous had unambiguous ones before it;
  that carries the invariant over DDL.
- `QuietLoadsAreExact`. `UndisturbedInv`: as long as there was no DDL and no failure, each intermediate result is the answer of its
  query in the database as it is (`AnswersOfTheDatabase`). On an unambiguous database the three views join back to the foreign keys
  (`RelationshipsOfKeys`), no two of which give one name (`OneNameAColumn`, `OneKeyAName`), so counting relationships counts keys.
- `HostsAgree`, from the same invariant: keys that stay in the schema meet the same rows in both queries.

`LanguageServerProofs`
- `LanguageServerTypeCorrect`. `Shape` adds what editors send (`WellSent`: an opened document has one text, and only what asks has
  an id) and which messages each label of the loop may be handling (`Under`).
- `RequestsAnsweredInOrder`. The invariant speaks of the pipe: a request there has the id behind that of the last request before it,
  or behind that of the last one taken (`LastId`); the message in hand is the next to be answered. Four lemmas on
  sequences say that this survives taking the head and sending one more.
- `QuestionsAnsweredOnTheirText`. Likewise with edits: a question in the pipe was asked on the text that the last edit
  before it leaves, or, without one, on the text that the server has now (`LastEdit`).
- `CarefulEditorsKeepTheirServer`.
- `DiagnosticsCatchUp`. `ShownInv` follows a document to what is shown of it: the last message about it, wherever that is (on its way to the
  server, in the handler with the sidecar read or not, on its way back), is about the editor's text, and after it nothing disturbed it.
  When the pipes are empty there is no place left but the screen.

`VSCodeClientProofs`
- `VSCodeClientTypeCorrect`. What a pending stop stops is no longer the variable's client and is down or going down.
- `RestartsSettle`. The variable's client was made with the present settings (`Agrees`): a change of the settings
  begins a restart that lets go of it in the same turn. Without a client, some pending restart will start one, a stop was rejected,
  or there are no settings.
- `NeverTwoServers`. Without overlaps a live client that is not abandoned is the variable's or that of the one pending stop, and the variable is
  empty while a stop is pending (`Alone`).

`TypeRulesProofs`. The invariant `RulesInv` says that the last node is what its rule makes of its operands' types (`ByTheRules`).
- `TypesAreTypes`.
- `AcceptedIsRendered`: what a rule accepts has as many arguments as `renderCall` writes, function by function (`AcceptedIsWritten`).
- `ErrorsAreTrue`, from `FollowsSpecs`, which compares the three tables name by name.
- `NullIsNeutral`, `AnyOrder`. `UnifyMeans` says what `Unify` tells of any number of types: the one type that all have which have any, or that
  two differ. `GivesWay` relates a result with a null to those with a type in its place.

`DocumentParserProofs`
- `ParserTypeCorrect`. `TypeInv` adds what the tokens read look like (`TextOK`), where each label can stand (`PlaceOK`), that the frames
  that wait are in the order of the descent (`StackOK`), and that the items done end where the next begins (`ItemsOK`).
- `ParserFollowsTheGrammar`. The grammar is a function defined by itself, on spans and levels; it exists because each use is of a
  smaller `Weight` (`GrammarExists`). That it gives a text at most one tree (`NoTwoTrees`) is shown by what can follow: of two
  trees that begin at one token the shorter one goes on with a token that the longer has inside, and what a level goes on
  with is never what that level may end in front of (`TreesGoOn`, `ListsGoOn`, `Onward`). That the parser finds the tree is the invariant `Sound`, about
  every text that begins with the tokens read: each waiting frame is a tree with a hole that the next
  fills (`Hang`, `Waits`, `Hole`), `node` is a tree of what lies between the innermost frame and the current token, of
  the level of the loop the parser is in (`InFactorAt`, `InLoopsAt`), and `items` are the trees of a list up to where the
  current item began (`Begun`, `ParsedUpto`). At the end of input nothing waits, and the text is the tokens read.
  The invariant is about all texts that begin so, since a hole is filled by tokens that have not been read.
- `ErrorsNameTheFault`, which needs the parser's stack from both sides. *What is before the fault can be completed.* `Lacks` says what is missing where
  the parser stopped (an operand, a name or nothing) and `Completed` adds it, and a parenthesis for each that is open. `Sound`, being about every text that begins
  with the tokens read, is about this one too, where what is missing is a tree in the innermost hole; then each frame in turn, from the top of the stack down, becomes a tree
  in the hole below it (`FrameFilled`, `StackFilled`). `Balanced` says that the parentheses open in the text are the frames that wait
  for one, so this is the completion that `Viable` asks for (`FrontViable`). *Nothing goes on with the fault.* `Settled` says what the parser has
  already tried at the current token: no operator of the levels it has left, no dot, no call. In a text of the grammar each token may follow the
  one before it and each opening parenthesis begins a factor (`SpanProper`, `ParsedIsText`, `DocumentsGoOn`). Where a tree is to begin, the token refused
  begins none (`NothingFits`, `NoFactor`). Behind a tree, it goes on with none (`NothingGoesOn`); the text would have a tree from the same token on, the shorter of two
  such trees goes on with a token of the longer (`TreeGoesOn`), so the two end together, and the token behind is what the frame, the formula or the item
  waits for, not the one refused (`NoParen`, `NoCall`, `NoFormula`, `NoAlias`, `NoSeparator`). *The hint helps*: an expression with an operator behind it can go on wherever the
  expression stands (`ExpressionGoesOn`), and behind an alias nothing but a comma or the end can (`NoHintBehindAlias`). When the lexer refuses, the statement of the
  parser that asked for the token is the one that stopped (`FaultRead`), with the lexer's error or, behind a call, with its own (`Stopped`, `Dropped`).
- `EditorFollowsTheTree`. On both sides of an item, an argument or an operand stands something that is no part of a name (`Clear`), except
  for the AS behind an item, which cannot touch a name in front of it. So, by the weight of its span, every tree is made of trees that stand
  clear (`StandingMade`), and the characters around a name go no further than the name, those of a path no further than the path (`RunIs`);
  the names in front of one are counted off from the left (`ChainOfPath`).

`SourceTextProofs`, for texts of any length
- `TokensSayWhatIsWritten`. `LexerInv` adds where the lexer is (behind its last token, in front of a 0 at the end). That a token says what is
  written is then said once, of the step that returns it, for each of its four kinds (`NumberAsWritten`, `WordAsWritten`, `OperatorAsWritten`,
  `StringAsWritten`). The last goes along the literal: the value of its first characters, quoted again, is these characters, where a backslash that is dropped
  counts with its quote. `FlattenMeans` says of a sequence put together from parts where each part is.
- `ReadersSkipTheSame`. `LeadingInv` says of the comments the lexer has skipped what `Leads` says of the reader's, with the lexer's blanks, line ends and closings.
  In a conventional text both open the next comment at one place, of one kind (`PairAt`); the lexer may go on behind the newline or the carriage return that the
  reader stops at, and what lies between is space to both (`Meets`). So the lists are the same as far as both go (`AlignedGrows`), and where the one
  ends, so does the other (`SameComments`).
- `FilesNameTheirTable`. The list of comments, when it is complete, is determined by the text (`Whole`): each comment opens at the first place behind
  the one before that is no space, and behind the last none opens. `MetadataInv` says that the comments collected are the
  beginning of it (`Leads`), that what has been merged is what the directives so far give, none of which was malformed or contradicted another
  (`Merged`), and that the answer is one that such a list allows (`PossibleFrom`). With `ReadersSkipTheSame`, paired comments have the same characters in
  them (`SameInside`; a carriage return at the end of a line is space), so they give the same directives (`SameGiven`), of each of which the
  last value of a key counts (`LastGiven`), and an answer that the reader's list allows is one that the lexer's comments name.

**Only model-checked.** Liveness (`LoweringEnds`, `LoadsReturn`,
`RequestsAreAnswered`, `GoesWithTheEditor`) is out of the prover's reach: TLC checks it under the fairness
of section 3, up to the bounds of its runs. Every invariant and every action property of a passing run is proved.

## 5. Not modelled

- The scanner of schema files (`lsp/schema_index.go`): one pass over lines with flags, in one goroutine and without a reader that
  goes on meanwhile. A section opened and closed on one line leaves its flag set; a test file shows that as well as a model.
- The verification pipeline and the C bridge (`verify/`, `capi/`): one call after the other; the last is PostgreSQL's parser. The
  NULL that stands for success and for a failure without diagnostics is visible at `capi/main.go:57`.
- What completion offers, and what hover says about a symbol: lists made from the catalog, without state.
- The API facade, diagnostics, flag parsing, the WASM bridge and the playground: forwarding, records, user interface.
- The catalog files of the web backend, read at start by one endpoint and anew by the other.
- Cloning of catalogs: the clone shares the index maps with the cached one, which nobody writes after `Validate`.
- Whether PostgreSQL accepts the SQL that is rendered, and what it computes.
- A language server that ends on its own under a running VS Code client, and the library's own restarts of it.
- Spelling of SQL, wording and positions of diagnostics, JSON framing.
