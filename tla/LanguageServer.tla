--------------------------- MODULE LanguageServer ---------------------------
(***************************************************************************)
(* The language server, pkg/formql/lsp/server.go, between an editor and a  *)
(* catalog provider.                                                       *)
(*                                                                         *)
(* The server is one loop: it reads a message, handles it to the end and   *)
(* reads the next.  While it handles one, the editor types on, sidecar     *)
(* files are written and tables come and go, so a handler is four steps:   *)
(* it receives, resolves the base table (one read of the sidecar), loads   *)
(* the catalog, and writes.  Framing and positions are left out; what the  *)
(* compiler says is the verdict on a text, a table and a catalog.          *)
(*                                                                         *)
(* The editor is external (vscode-languageclient): it sends full texts,    *)
(* asks about open documents only, reads whenever something is there, and  *)
(* sends nothing but "exit" after "shutdown".                              *)
(***************************************************************************)
EXTENDS Integers, Sequences, SequencesExt

CONSTANTS
  URIs, FileURIs,     \* documents, and those among them that have a path
  Texts, EmptyText,   \* contents of documents
  Tables,             \* table names
  Directive,          \* the table a text's leading comments name
  NoTable,            \* no table is named
  Invalid,            \* the directives, or the sidecar, do not parse
  Live,               \* the provider introspects a database
  Careless,           \* the editor may send params that do not decode
  OutboxCapacity,     \* bound: messages that fit in the server's stdout pipe
  MaxSent,            \* bound on the messages of the editor
  MaxUpsets           \* bound on changes of sidecars and catalog

Closed == "closed"
NoId == 0

ASSUME DocumentsAssumption ==
  /\ URIs # {} /\ FileURIs \subseteq URIs
  /\ Closed \notin Texts
  /\ EmptyText \in Texts
  /\ Directive \in [Texts -> Tables \cup {NoTable, Invalid}]
  /\ Directive[EmptyText] = NoTable
  /\ {NoTable, Invalid} \cap Tables = {}
ASSUME BoundsAssumption ==
  OutboxCapacity \in Nat \ {0} /\ MaxSent \in Nat /\ MaxUpsets \in Nat
ASSUME ModesAssumption == Live \in BOOLEAN /\ Careless \in BOOLEAN

VARIABLES
  inbox, outbox,      \* the pipes to and from the server
  docs,               \* Server.docs: the open documents' texts
  pc,                 \* where the server is in its loop
  message,            \* the message it handles
  table,              \* the base table it has resolved
  out,                \* what it is about to write
  sidecar,            \* the table each file's sidecar names
  catalog,            \* the tables the provider knows
  editor,             \* the open documents' texts in the editor
  shown,              \* the diagnostics it shows for each document
  client,             \* the editor process: "up", "shutting" down, or "gone"
  sent, upsets,       \* counters of the bounds
  asked, answered,    \* history: requests sent, ids of the responses written
  disturbed           \* history: documents whose sidecar or catalog has changed
                      \* since their diagnostics were last worked out

editorVars == <<editor, shown, client, sent, asked>>
worldVars == <<sidecar, catalog, upsets>>
vars == <<inbox, outbox, docs, pc, message, table, out, worldVars, editorVars,
          answered, disturbed>>

Questions == {"completion", "definition", "hover"}
Requests == Questions \cup {"initialize", "shutdown", "unsupported"}
Notifications == {"didOpen", "didChange", "didClose", "ignored", "exit"}

(***************************************************************************)
(* seen is history: the document's text in the editor when it was sent.    *)
(***************************************************************************)
Messages ==
  [kind : Requests \cup Notifications, id : 0..MaxSent, uri : URIs, decodes : BOOLEAN,
   texts : Seq(Texts), seen : Texts]

(***************************************************************************)
(* What the server says of a document: why there is nothing to say, or     *)
(* what the compiler makes of the text on that table of that catalog.      *)
(***************************************************************************)
Verdict(code, text, t, known) ==
  [code |-> code, text |-> text, table |-> t, catalog |-> known]
Cleared == Verdict("cleared", EmptyText, NoTable, {})
Unplaced(text) == Verdict("base_table_metadata_missing", text, NoTable, {})
Unresolved(text, t) == Verdict("base_table_unresolved", text, t, {})
Compiled(text, t, known) == Verdict("compiled", text, t, known)
Plain == Verdict("plain", EmptyText, NoTable, {})

Verdicts ==
  [code : {"cleared", "base_table_metadata_missing", "base_table_unresolved", "compiled",
           "plain"},
   text : Texts, table : Tables \cup {NoTable}, catalog : SUBSET Tables]

SomeURI == CHOOSE u \in URIs : TRUE   \* for messages about no document

Response(id, verdict) == [id |-> id, uri |-> SomeURI, verdict |-> verdict]
Diagnostics(uri, verdict) == [id |-> NoId, uri |-> uri, verdict |-> verdict]
Outgoing == [id : 0..MaxSent, uri : URIs, verdict : Verdicts]
Silence == Diagnostics(SomeURI, Cleared)

Message(kind, id, uri, decodes, texts, seen) ==
  [kind |-> kind, id |-> id, uri |-> uri, decodes |-> decodes, texts |-> texts, seen |-> seen]
Note(kind, uri, texts, seen) == Message(kind, NoId, uri, TRUE, texts, seen)
AboutNothing(kind, id, decodes) == Message(kind, id, SomeURI, decodes, << >>, EmptyText)
NoMessage == AboutNothing("ignored", NoId, TRUE)

Init ==
  /\ inbox = << >> /\ outbox = << >>
  /\ docs = [u \in URIs |-> Closed]
  /\ pc = "reading"
  /\ message = NoMessage
  /\ table = NoTable
  /\ out = Silence
  /\ sidecar \in [FileURIs -> Tables \cup {NoTable, Invalid}]
  /\ catalog \in SUBSET Tables
  /\ editor = [u \in URIs |-> Closed]
  /\ shown = [u \in URIs |-> Cleared]
  /\ client = "up"
  /\ sent = 0 /\ upsets = 0
  /\ asked = 0 /\ answered = << >>
  /\ disturbed = {}

-----------------------------------------------------------------------------
(***************************************************************************)
(* The editor.                                                             *)
(***************************************************************************)
Send(m) ==
  /\ sent < MaxSent
  /\ sent' = sent + 1
  /\ inbox' = Append(inbox, m)
  /\ asked' = IF m.kind \in Requests THEN asked + 1 ELSE asked

serverVars == <<outbox, docs, pc, message, table, out, answered, disturbed>>

OpenDocument == \E u \in URIs, t \in Texts :
  /\ client = "up" /\ editor[u] = Closed
  /\ editor' = [editor EXCEPT ![u] = t]
  /\ Send(Note("didOpen", u, <<t>>, t))
  /\ UNCHANGED <<shown, client, serverVars, worldVars>>

\* A didChange carries the texts of no, one or several edits, the last one last.
EditDocument == \E u \in URIs, texts \in {<<t>> : t \in Texts} \cup (Texts \X Texts) \cup {<< >>} :
  /\ client = "up" /\ editor[u] # Closed
  /\ editor' = IF texts = << >> THEN editor ELSE [editor EXCEPT ![u] = Last(texts)]
  /\ Send(Note("didChange", u, texts, editor'[u]))
  /\ UNCHANGED <<shown, client, serverVars, worldVars>>

CloseDocument == \E u \in URIs :
  /\ client = "up" /\ editor[u] # Closed
  /\ editor' = [editor EXCEPT ![u] = Closed]
  /\ Send(Note("didClose", u, << >>, editor[u]))
  /\ UNCHANGED <<shown, client, serverVars, worldVars>>

Ask == \E kind \in Questions, u \in URIs :
  /\ client = "up" /\ editor[u] # Closed
  /\ Send(Message(kind, asked + 1, u, TRUE, << >>, editor[u]))
  /\ UNCHANGED <<editor, shown, client, serverVars, worldVars>>

\* Requests about no document, and notifications the server ignores.
SendPlain == \E kind \in {"initialize", "unsupported", "shutdown", "ignored"} :
  /\ client = "up"
  /\ Send(AboutNothing(kind, IF kind = "ignored" THEN NoId ELSE asked + 1, TRUE))
  /\ client' = IF kind = "shutdown" THEN "shutting" ELSE client
  /\ UNCHANGED <<editor, shown, serverVars, worldVars>>

Exit ==
  /\ client = "shutting"
  /\ Send(AboutNothing("exit", NoId, TRUE))
  /\ UNCHANGED <<editor, shown, client, serverVars, worldVars>>

SendUndecodable == \E kind \in Questions \cup {"didOpen", "didChange", "didClose"} :
  /\ Careless /\ client = "up"
  /\ Send(AboutNothing(kind, IF kind \in Requests THEN asked + 1 ELSE NoId, FALSE))
  /\ UNCHANGED <<editor, shown, client, serverVars, worldVars>>

EditorDies ==
  /\ client # "gone"
  /\ client' = "gone"
  /\ UNCHANGED <<inbox, editor, shown, sent, asked, serverVars, worldVars>>

Read ==
  /\ client # "gone" /\ outbox # << >>
  /\ outbox' = Tail(outbox)
  /\ shown' = IF Head(outbox).id = NoId
                THEN [shown EXCEPT ![Head(outbox).uri] = Head(outbox).verdict] ELSE shown
  /\ UNCHANGED <<inbox, docs, pc, message, table, out, worldVars, editor, client, sent,
                 asked, answered, disturbed>>

-----------------------------------------------------------------------------
(***************************************************************************)
(* The world: a sidecar is written or removed; in live mode a table is     *)
(* created or dropped, or the database does not answer (no table at all).  *)
(***************************************************************************)
SidecarChanges == \E u \in FileURIs, t \in Tables \cup {NoTable, Invalid} :
  /\ upsets < MaxUpsets
  /\ upsets' = upsets + 1
  /\ sidecar' = [sidecar EXCEPT ![u] = t]
  /\ disturbed' = disturbed \cup {u}
  /\ UNCHANGED <<inbox, outbox, docs, pc, message, table, out, catalog, editorVars, answered>>

CatalogChanges == \E known \in SUBSET Tables :
  /\ Live /\ upsets < MaxUpsets
  /\ upsets' = upsets + 1
  /\ catalog' = known
  /\ disturbed' = URIs
  /\ UNCHANGED <<inbox, outbox, docs, pc, message, table, out, sidecar, editorVars, answered>>

-----------------------------------------------------------------------------
(***************************************************************************)
(* The server.  Receive takes the next message of the given kinds off      *)
(* stdin; Compose leaves what is to be written for Write.                  *)
(***************************************************************************)
Receive(kinds) ==
  /\ pc = "reading" /\ inbox # << >> /\ Head(inbox).kind \in kinds
  /\ inbox' = Tail(inbox)
  /\ UNCHANGED <<outbox, table, worldVars, editorVars, answered, disturbed>>

Compose(o) == out' = o /\ pc' = "writing"

Handle(m, label) == message' = m /\ pc' = label /\ UNCHANGED out

Skip == message' = NoMessage /\ pc' = "reading" /\ UNCHANGED <<docs, out>>

\* initialize, shutdown and methods it does not know; only what has an id is answered.
ReceivePlain ==
  /\ Receive({"initialize", "shutdown", "unsupported", "ignored"})
  /\ IF Head(inbox).id = NoId THEN Skip
       ELSE message' = Head(inbox) /\ Compose(Response(Head(inbox).id, Plain)) /\ UNCHANGED docs

ReceiveExit ==
  /\ Receive({"exit"})
  /\ Handle(Head(inbox), "stopped") /\ UNCHANGED docs

DidOpen ==
  /\ Receive({"didOpen"}) /\ Head(inbox).decodes
  /\ docs' = [docs EXCEPT ![Head(inbox).uri] = Head(Head(inbox).texts)]
  /\ Handle(Head(inbox), "resolving")

\* Mutant of DidChange: the first of several edits is taken for the text.
DidChangeToFirst ==
  /\ Receive({"didChange"}) /\ Head(inbox).decodes
  /\ IF Head(inbox).texts = << >> THEN Skip
       ELSE /\ docs' = [docs EXCEPT ![Head(inbox).uri] = Head(Head(inbox).texts)]
            /\ Handle(Head(inbox), "resolving")

DidChange ==
  /\ Receive({"didChange"}) /\ Head(inbox).decodes
  /\ IF Head(inbox).texts = << >> THEN Skip
       ELSE /\ docs' = [docs EXCEPT ![Head(inbox).uri] = Last(Head(inbox).texts)]
            /\ Handle(Head(inbox), "resolving")

\* Mutant of DidClose: the document's diagnostics are left on the screen.
DidCloseSilently ==
  /\ Receive({"didClose"}) /\ Head(inbox).decodes
  /\ docs' = [docs EXCEPT ![Head(inbox).uri] = Closed]
  /\ message' = NoMessage /\ pc' = "reading" /\ UNCHANGED out

DidClose ==
  /\ Receive({"didClose"}) /\ Head(inbox).decodes
  /\ docs' = [docs EXCEPT ![Head(inbox).uri] = Closed]
  /\ message' = Head(inbox)
  /\ Compose(Diagnostics(Head(inbox).uri, Cleared))

ReceiveQuestion ==
  /\ Receive(Questions) /\ Head(inbox).decodes
  /\ Handle(Head(inbox), "resolving") /\ UNCHANGED docs

\* Params that do not decode are an answer to a request and the end after a notification.
RejectRequest ==
  /\ Receive(Questions) /\ ~Head(inbox).decodes
  /\ message' = Head(inbox)
  /\ Compose(Response(Head(inbox).id, Plain))
  /\ UNCHANGED docs

RejectNotification ==
  /\ Receive({"didOpen", "didChange", "didClose"}) /\ ~Head(inbox).decodes
  /\ Handle(Head(inbox), "stopped") /\ UNCHANGED docs

\* Mutant of EndOfInput: the end of stdin is waited out.
NoEndOfInput == FALSE /\ UNCHANGED vars

EndOfInput ==
  /\ pc = "reading" /\ inbox = << >> /\ client = "gone"
  /\ pc' = "stopped"
  /\ UNCHANGED <<inbox, outbox, docs, message, table, out, worldVars, editorVars,
                 answered, disturbed>>

-----------------------------------------------------------------------------
(***************************************************************************)
(* The text a handler works on: a document never opened reads as empty.    *)
(***************************************************************************)
Text == IF docs[message.uri] = Closed THEN EmptyText ELSE docs[message.uri]

(***************************************************************************)
(* resolveFileBaseTable: the text's directives, then the sidecar of a file *)
(***************************************************************************)
BaseTable(uri, text) ==
  IF Directive[text] # NoTable THEN Directive[text]
  ELSE IF uri \in FileURIs THEN sidecar[uri] ELSE NoTable

\* What a handler writes: an answer to a question, or the document's diagnostics.
About(m, verdict) ==
  IF m.kind \in Questions THEN Response(m.id, verdict) ELSE Diagnostics(m.uri, verdict)

\* The document is looked at afresh: changes after this point are not accounted for.
LookAfresh ==
  disturbed' = IF message.kind \in Questions THEN disturbed ELSE disturbed \ {message.uri}

\* Mutant of Resolve: the error of a malformed directive or sidecar is not looked at.
ResolveIgnoringErrors ==
  /\ pc = "resolving" /\ BaseTable(message.uri, Text) # NoTable
  /\ table' = BaseTable(message.uri, Text)
  /\ pc' = "loading"
  /\ LookAfresh
  /\ UNCHANGED <<inbox, outbox, docs, message, out, worldVars, editorVars, answered>>

Resolve ==
  /\ pc = "resolving" /\ BaseTable(message.uri, Text) \in Tables
  /\ table' = BaseTable(message.uri, Text)
  /\ pc' = "loading"
  /\ LookAfresh
  /\ UNCHANGED <<inbox, outbox, docs, message, out, worldVars, editorVars, answered>>

\* Mutant of ResolveFails: a hover on a document without a table gets no answer.
ResolveFailsSilently ==
  /\ pc = "resolving" /\ BaseTable(message.uri, Text) \notin Tables
  /\ IF message.kind = "hover" THEN pc' = "reading" /\ UNCHANGED out
                               ELSE Compose(About(message, Unplaced(Text)))
  /\ LookAfresh
  /\ UNCHANGED <<inbox, outbox, docs, message, table, worldVars, editorVars, answered>>

ResolveFails ==
  /\ pc = "resolving" /\ BaseTable(message.uri, Text) \notin Tables
  /\ Compose(About(message, Unplaced(Text)))
  /\ LookAfresh
  /\ UNCHANGED <<inbox, outbox, docs, message, table, worldVars, editorVars, answered>>

Load ==
  /\ pc = "loading" /\ table \in catalog
  /\ Compose(About(message, Compiled(Text, table, catalog)))
  /\ UNCHANGED <<inbox, outbox, docs, message, table, worldVars, editorVars, answered, disturbed>>

\* Mutant of LoadFails: the error goes up to the loop.
LoadFailsFatally ==
  /\ pc = "loading" /\ table \notin catalog
  /\ pc' = "stopped"
  /\ UNCHANGED <<inbox, outbox, docs, message, table, out, worldVars, editorVars, answered, disturbed>>

LoadFails ==
  /\ pc = "loading" /\ table \notin catalog
  /\ Compose(About(message, Unresolved(Text, table)))
  /\ UNCHANGED <<inbox, outbox, docs, message, table, worldVars, editorVars, answered, disturbed>>

Write ==
  /\ pc = "writing" /\ client # "gone" /\ Len(outbox) < OutboxCapacity
  /\ outbox' = Append(outbox, out)
  /\ answered' = IF out.id = NoId THEN answered ELSE Append(answered, out.id)
  /\ pc' = "reading" /\ message' = NoMessage /\ table' = NoTable /\ out' = Silence
  /\ UNCHANGED <<inbox, docs, worldVars, editorVars, disturbed>>

WriteFails ==
  /\ pc = "writing" /\ client = "gone"
  /\ pc' = "stopped"
  /\ UNCHANGED <<inbox, outbox, docs, message, table, out, worldVars, editorVars,
                 answered, disturbed>>

Editor ==
  \/ OpenDocument \/ EditDocument \/ CloseDocument \/ Ask \/ SendPlain \/ SendUndecodable
  \/ Exit \/ EditorDies \/ Read
World == SidecarChanges \/ CatalogChanges
Server ==
  \/ ReceivePlain \/ ReceiveExit \/ DidOpen \/ DidChange \/ DidClose \/ ReceiveQuestion
  \/ RejectRequest \/ RejectNotification \/ EndOfInput
  \/ Resolve \/ ResolveFails \/ Load \/ LoadFails \/ Write \/ WriteFails

Next == Editor \/ World \/ Server

Spec == Init /\ [][Next]_vars

(***************************************************************************)
(* The server is never blocked but on its pipes, and an editor that lives  *)
(* reads what is there.  A provider that answers every Load is part of     *)
(* this: the server sets no deadline.  Nothing obliges the editor to send, *)
(* to exit or to die, nor the world to change.                             *)
(***************************************************************************)
FairSpec == Spec /\ WF_vars(Server) /\ WF_vars(Read)

-----------------------------------------------------------------------------
(***************************************************************************)
(* Types, the capacity of the pipe, and only what asked has an id.         *)
(***************************************************************************)
TypeOK ==
  /\ inbox \in Seq(Messages)
  /\ outbox \in Seq(Outgoing) /\ Len(outbox) <= OutboxCapacity
  /\ docs \in [URIs -> Texts \cup {Closed}]
  /\ pc \in {"reading", "resolving", "loading", "writing", "stopped"}
  /\ message \in Messages
  /\ table \in Tables \cup {NoTable}
  /\ out \in Outgoing
  /\ sidecar \in [FileURIs -> Tables \cup {NoTable, Invalid}]
  /\ catalog \in SUBSET Tables
  /\ editor \in [URIs -> Texts \cup {Closed}]
  /\ shown \in [URIs -> Verdicts]
  /\ client \in {"up", "shutting", "gone"}
  /\ sent \in 0..MaxSent /\ upsets \in 0..MaxUpsets
  /\ asked \in 0..sent /\ answered \in Seq(1..MaxSent)
  /\ disturbed \in SUBSET URIs

(***************************************************************************)
(* Every request is answered once, in the order of asking, whatever path   *)
(* its handler takes; and nothing is owed when the server waits for input. *)
(***************************************************************************)
AnswersInOrder ==
  /\ \A i \in DOMAIN answered : answered[i] = i
  /\ pc = "reading" /\ inbox = << >> => Len(answered) = asked

(***************************************************************************)
(* An answer is about the text the editor had when it asked, though it has *)
(* typed on since.                                                         *)
(***************************************************************************)
AnswersSeeTheirText ==
  pc = "writing" /\ message.kind \in Questions /\ message.decodes =>
    out.verdict.text = message.seen

(***************************************************************************)
(* At rest the editor shows each document what is true of its latest text, *)
(* sidecar and catalog, or nothing once it is closed.  Documents whose     *)
(* sidecar or catalog changed later are excepted: the server watches       *)
(* neither.                                                                *)
(***************************************************************************)
TrueVerdict(u) ==
  LET t == BaseTable(u, editor[u])
  IN CASE t \notin Tables -> Unplaced(editor[u])
       [] t \in Tables \ catalog -> Unresolved(editor[u], t)
       [] OTHER -> Compiled(editor[u], t, catalog)

AtRest == pc = "reading" /\ inbox = << >> /\ outbox = << >> /\ client # "gone"

DiagnosticsSettle ==
  AtRest => \A u \in URIs :
    IF editor[u] = Closed THEN shown[u] = Cleared
                          ELSE u \in disturbed \/ shown[u] = TrueVerdict(u)

(***************************************************************************)
(* No document, sidecar or catalog ends the server of a careful editor:    *)
(* only its exit or its death does.                                        *)
(***************************************************************************)
StopsOnlyWhenTold ==
  pc = "stopped" /\ ~Careless => client = "gone" \/ message.kind = "exit"

(***************************************************************************)
(* Every request is answered, or the server has come to its end.           *)
(***************************************************************************)
RequestsAreAnswered ==
  \A i \in 1..MaxSent : asked >= i ~> Len(answered) >= i \/ pc = "stopped"

(***************************************************************************)
(* The server does not outlive its editor.                                 *)
(***************************************************************************)
GoesWithTheEditor == client = "gone" ~> pc = "stopped"
=============================================================================
