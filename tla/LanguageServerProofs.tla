------------------------ MODULE LanguageServerProofs ------------------------
(***************************************************************************)
(* Theorems about the language server, for any number of documents, texts  *)
(* and messages, any capacity of the pipe, careful and careless editors.   *)
(*                                                                         *)
(* Two of them are about what is under way in the pipe: the requests there *)
(* are numbered on from the last one answered, and a question there is     *)
(* about the text that the edits before it leave.  Both are said of the    *)
(* last message of a kind before a place in the pipe.  The last theorem    *)
(* follows the news of a document through both pipes to the screen.        *)
(***************************************************************************)
EXTENDS LanguageServer, SequenceTheorems, TLAPS

(***************************************************************************)
(* What editors send: an opened document has a text, what asks has an id,  *)
(* and the params of a careful editor decode.                              *)
(***************************************************************************)
WellSent(m) ==
  /\ m.kind = "didOpen" /\ m.decodes => Len(m.texts) = 1
  /\ m.kind \in Requests <=> m.id # NoId
  /\ ~Careless => m.decodes

Under(label) ==
  CASE label = "reading" -> {"ignored"}
    [] label \in {"resolving", "loading"} -> Questions \cup {"didOpen", "didChange"}
    [] label = "writing" -> Requests \cup {"didOpen", "didChange", "didClose"}
    [] OTHER -> Requests \cup Notifications

Shape ==
  /\ \A i \in DOMAIN inbox : WellSent(inbox[i])
  /\ message.kind \in Under(pc)
  /\ pc \in {"resolving", "loading"} => message.decodes

TypeInv == TypeOK /\ Shape

-----------------------------------------------------------------------------
(***************************************************************************)
(* The id of the last request before place n of the queue q, or that of    *)
(* the last one taken from it.                                             *)
(***************************************************************************)
LastId(id, q, n, taken) ==
  /\ (\A j \in 1..n - 1 : q[j].kind \notin Requests) => id = taken
  /\ \A j \in 1..n - 1 :
       q[j].kind \in Requests /\ (\A k \in j + 1..n - 1 : q[k].kind \notin Requests)
         => id = q[j].id

Taken == IF message.kind \in Requests THEN message.id ELSE Len(answered)

IdInv ==
  /\ \A i \in DOMAIN answered : answered[i] = i
  /\ message.kind \in Requests => message.id = Len(answered) + 1
  /\ pc = "writing" => out.id = IF message.kind \in Requests THEN message.id ELSE NoId
  /\ LastId(asked, inbox, Len(inbox) + 1, Taken)
  /\ \A i \in DOMAIN inbox :
       inbox[i].kind \in Requests => LastId(inbox[i].id - 1, inbox, i, Taken)

(***************************************************************************)
(* The text of u that the last edit before place n leaves, or the one that *)
(* the server has.                                                         *)
(***************************************************************************)
EditOf(m, u) ==
  /\ m.uri = u /\ m.decodes
  /\ m.kind \in {"didOpen", "didClose"} \/ (m.kind = "didChange" /\ m.texts # << >>)
After(m) == IF m.kind = "didClose" THEN Closed ELSE Last(m.texts)

LastEdit(text, q, n, u, known) ==
  /\ (\A j \in 1..n - 1 : ~EditOf(q[j], u)) => text = known
  /\ \A j \in 1..n - 1 :
       EditOf(q[j], u) /\ (\A k \in j + 1..n - 1 : ~EditOf(q[k], u)) => text = After(q[j])

Asks(m) == m.kind \in Questions /\ m.decodes

TextInv ==
  /\ \A u \in URIs : LastEdit(editor[u], inbox, Len(inbox) + 1, u, docs[u])
  /\ \A i \in DOMAIN inbox :
       Asks(inbox[i]) => LastEdit(inbox[i].seen, inbox, i, inbox[i].uri, docs[inbox[i].uri])
  /\ pc \in {"resolving", "loading"} /\ Asks(message) => docs[message.uri] = message.seen
  /\ AnswersSeeTheirText

-----------------------------------------------------------------------------
(***************************************************************************)
(* Taking the head of the queue, and sending one message more.             *)
(***************************************************************************)
LEMMA LastIdTail ==
  ASSUME NEW S, NEW q \in Seq(S), q # << >>, NEW n \in 2..Len(q) + 1, NEW id, NEW taken,
         LastId(id, q, n, taken)
  PROVE  LastId(id, Tail(q), n - 1, IF Head(q).kind \in Requests THEN Head(q).id ELSE taken)
<1> DEFINE t == Tail(q)
<1>1. Len(q) \in Nat \ {0} /\ \A j \in 1..n - 2 : t[j] = q[j + 1]
  OBVIOUS
<1>2. Head(q) = q[1]
  OBVIOUS
<1> HIDE DEF t
<1>3. ASSUME \A j \in 1..n - 2 : t[j].kind \notin Requests
      PROVE  id = IF q[1].kind \in Requests THEN q[1].id ELSE taken
  <2>1. \A j \in 2..n - 1 : q[j].kind \notin Requests
    <3> TAKE j \in 2..n - 1
    <3>1. j - 1 \in 1..n - 2 /\ t[j - 1] = q[j]
      BY <1>1
    <3>2. QED
      BY <3>1, <1>3
  <2>2. QED
    BY <2>1, <1>1 DEF LastId
<1>4. ASSUME NEW j \in 1..n - 2, t[j].kind \in Requests,
             \A k \in j + 1..n - 2 : t[k].kind \notin Requests
      PROVE  id = t[j].id
  <2>1. \A k \in j + 2..n - 1 : q[k].kind \notin Requests
    <3> TAKE k \in j + 2..n - 1
    <3>1. k - 1 \in j + 1..n - 2 /\ t[k - 1] = q[k]
      BY <1>1
    <3>2. QED
      BY <3>1, <1>4
  <2>2. j + 1 \in 1..n - 1 /\ t[j] = q[j + 1]
    BY <1>1
  <2>3. QED
    BY <2>1, <2>2, <1>4 DEF LastId
<1>5. n - 1 - 1 = n - 2
  BY <1>1
<1>6. QED
  BY <1>2, <1>3, <1>4, <1>5 DEF LastId, t

LEMMA LastEditTail ==
  ASSUME NEW S, NEW q \in Seq(S), q # << >>, NEW n \in 2..Len(q) + 1, NEW text, NEW u, NEW known,
         LastEdit(text, q, n, u, known)
  PROVE  LastEdit(text, Tail(q), n - 1, u, IF EditOf(Head(q), u) THEN After(Head(q)) ELSE known)
<1> DEFINE t == Tail(q)
<1>1. Len(q) \in Nat \ {0} /\ \A j \in 1..n - 2 : t[j] = q[j + 1]
  OBVIOUS
<1>2. Head(q) = q[1]
  OBVIOUS
<1> HIDE DEF t
<1>3. ASSUME \A j \in 1..n - 2 : ~EditOf(t[j], u)
      PROVE  text = IF EditOf(q[1], u) THEN After(q[1]) ELSE known
  <2>1. \A j \in 2..n - 1 : ~EditOf(q[j], u)
    <3> TAKE j \in 2..n - 1
    <3>1. j - 1 \in 1..n - 2 /\ t[j - 1] = q[j]
      BY <1>1
    <3>2. QED
      BY <3>1, <1>3
  <2>2. QED
    BY <2>1, <1>1 DEF LastEdit
<1>4. ASSUME NEW j \in 1..n - 2, EditOf(t[j], u),
             \A k \in j + 1..n - 2 : ~EditOf(t[k], u)
      PROVE  text = After(t[j])
  <2>1. \A k \in j + 2..n - 1 : ~EditOf(q[k], u)
    <3> TAKE k \in j + 2..n - 1
    <3>1. k - 1 \in j + 1..n - 2 /\ t[k - 1] = q[k]
      BY <1>1
    <3>2. QED
      BY <3>1, <1>4
  <2>2. j + 1 \in 1..n - 1 /\ t[j] = q[j + 1]
    BY <1>1
  <2>3. QED
    BY <2>1, <2>2, <1>4 DEF LastEdit
<1>5. n - 1 - 1 = n - 2
  BY <1>1
<1>6. QED
  BY <1>2, <1>3, <1>4, <1>5 DEF LastEdit, t

LEMMA LastIdSent ==
  ASSUME NEW S, NEW q \in Seq(S), NEW m, NEW id, NEW taken,
         NEW n \in 1..Len(q) + 1, LastId(id, q, n, taken)
  PROVE  LastId(id, Append(q, m), n, taken)
<1> DEFINE a == Append(q, m)
<1>1. Len(q) \in Nat /\ \A j \in 1..n - 1 : a[j] = q[j]
  OBVIOUS
<1> HIDE DEF a
<1>2. LastId(id, a, n, taken)
  <2>1. ASSUME NEW j \in 1..n - 1, NEW k \in j + 1..n - 1
        PROVE  a[k] = q[k]
    BY <1>1
  <2>2. QED
    BY <1>1, <2>1 DEF LastId
<1>3. QED
  BY <1>2 DEF a

LEMMA LastIdLatest ==
  ASSUME NEW S, NEW q \in Seq(S), NEW m, NEW id, NEW taken, LastId(id, q, Len(q) + 1, taken)
  PROVE  LastId(IF m.kind \in Requests THEN m.id ELSE id, Append(q, m), Len(Append(q, m)) + 1, taken)
<1> DEFINE a == Append(q, m)
           N == Len(q)
<1>1. N \in Nat /\ Len(a) = N + 1 /\ a[N + 1] = m /\ \A j \in 1..N : a[j] = q[j]
  OBVIOUS
<1> HIDE DEF a, N
<1>2. CASE m.kind \in Requests
  <2>1. N + 1 \in 1..N + 1 /\ a[N + 1].kind \in Requests
    BY <1>1, <1>2
  <2>2. ASSUME NEW j \in 1..N + 1, a[j].kind \in Requests,
               \A k \in j + 1..N + 1 : ~(a[k].kind \in Requests)
        PROVE  j = N + 1
    BY <2>1, <2>2, <1>1
  <2>3. LastId(m.id, a, N + 2, taken)
    BY <2>1, <2>2, <1>1 DEF LastId
  <2>4. QED
    BY <2>3, <1>1, <1>2 DEF a
<1>3. CASE ~(m.kind \in Requests)
  <2>1. LastId(id, q, N + 1, taken)
    BY DEF N
  <2>2. ASSUME \A j \in 1..N + 1 : ~(a[j].kind \in Requests)
        PROVE  id = taken
    BY <2>1, <2>2, <1>1 DEF LastId
  <2>3. ASSUME NEW j \in 1..N + 1, a[j].kind \in Requests,
               \A k \in j + 1..N + 1 : ~(a[k].kind \in Requests)
        PROVE  id = a[j].id
    <3>1. j \in 1..N
      BY <2>3, <1>1, <1>3
    <3>2. \A k \in j + 1..N : ~(q[k].kind \in Requests)
      BY <2>3, <1>1
    <3>3. QED
      BY <2>1, <2>3, <3>1, <3>2, <1>1 DEF LastId
  <2>4. LastId(id, a, N + 2, taken)
    BY <2>2, <2>3, <1>1 DEF LastId
  <2>5. QED
    BY <2>4, <1>1, <1>3 DEF a
<1>4. QED
  BY <1>2, <1>3

LEMMA LastEditSent ==
  ASSUME NEW S, NEW q \in Seq(S), NEW m, NEW text, NEW u, NEW known,
         NEW n \in 1..Len(q) + 1, LastEdit(text, q, n, u, known)
  PROVE  LastEdit(text, Append(q, m), n, u, known)
<1> DEFINE a == Append(q, m)
<1>1. Len(q) \in Nat /\ \A j \in 1..n - 1 : a[j] = q[j]
  OBVIOUS
<1> HIDE DEF a
<1>2. LastEdit(text, a, n, u, known)
  <2>1. ASSUME NEW j \in 1..n - 1, NEW k \in j + 1..n - 1
        PROVE  a[k] = q[k]
    BY <1>1
  <2>2. QED
    BY <1>1, <2>1 DEF LastEdit
<1>3. QED
  BY <1>2 DEF a

LEMMA LastEditLatest ==
  ASSUME NEW S, NEW q \in Seq(S), NEW m, NEW text, NEW u, NEW known, LastEdit(text, q, Len(q) + 1, u, known)
  PROVE  LastEdit(IF EditOf(m, u) THEN After(m) ELSE text, Append(q, m), Len(Append(q, m)) + 1, u, known)
<1> DEFINE a == Append(q, m)
           N == Len(q)
<1>1. N \in Nat /\ Len(a) = N + 1 /\ a[N + 1] = m /\ \A j \in 1..N : a[j] = q[j]
  OBVIOUS
<1> HIDE DEF a, N
<1>2. CASE EditOf(m, u)
  <2>1. N + 1 \in 1..N + 1 /\ EditOf(a[N + 1], u)
    BY <1>1, <1>2
  <2>2. ASSUME NEW j \in 1..N + 1, EditOf(a[j], u),
               \A k \in j + 1..N + 1 : ~(EditOf(a[k], u))
        PROVE  j = N + 1
    BY <2>1, <2>2, <1>1
  <2>3. LastEdit(After(m), a, N + 2, u, known)
    BY <2>1, <2>2, <1>1 DEF LastEdit
  <2>4. QED
    BY <2>3, <1>1, <1>2 DEF a
<1>3. CASE ~(EditOf(m, u))
  <2>1. LastEdit(text, q, N + 1, u, known)
    BY DEF N
  <2>2. ASSUME \A j \in 1..N + 1 : ~(EditOf(a[j], u))
        PROVE  text = known
    BY <2>1, <2>2, <1>1 DEF LastEdit
  <2>3. ASSUME NEW j \in 1..N + 1, EditOf(a[j], u),
               \A k \in j + 1..N + 1 : ~(EditOf(a[k], u))
        PROVE  text = After(a[j])
    <3>1. j \in 1..N
      BY <2>3, <1>1, <1>3
    <3>2. \A k \in j + 1..N : ~(EditOf(q[k], u))
      BY <2>3, <1>1
    <3>3. QED
      BY <2>1, <2>3, <3>1, <3>2, <1>1 DEF LastEdit
  <2>4. LastEdit(text, a, N + 2, u, known)
    BY <2>2, <2>3, <1>1 DEF LastEdit
  <2>5. QED
    BY <2>4, <1>1, <1>3 DEF a
<1>4. QED
  BY <1>2, <1>3

-----------------------------------------------------------------------------
(***************************************************************************)
(* Types.                                                                  *)
(***************************************************************************)
LEMMA Kinds ==
  /\ Questions \subseteq Requests /\ Requests \cap Notifications = {}
  /\ {"didOpen", "didChange", "didClose", "ignored", "exit"} = Notifications
  /\ Requests = {"completion", "definition", "hover", "initialize", "shutdown", "unsupported"}
BY DEF Questions, Requests, Notifications

LEMMA SomeURIType == SomeURI \in URIs
BY DocumentsAssumption DEF SomeURI, DocumentsAssumption

LEMMA VerdictTypes ==
  /\ Cleared \in Verdicts /\ Plain \in Verdicts
  /\ \A text \in Texts : Unplaced(text) \in Verdicts
  /\ \A text \in Texts, t \in Tables : Unresolved(text, t) \in Verdicts
  /\ \A text \in Texts, t \in Tables, known \in SUBSET Tables :
       Compiled(text, t, known) \in Verdicts
BY DocumentsAssumption
   DEF DocumentsAssumption, Cleared, Plain, Unplaced, Unresolved, Compiled, Verdict, Verdicts

LEMMA OutgoingTypes ==
  ASSUME NEW v \in Verdicts
  PROVE  /\ \A id \in 0..MaxSent : Response(id, v) \in Outgoing /\ Response(id, v).id = id
         /\ \A u \in URIs : Diagnostics(u, v) \in Outgoing /\ Diagnostics(u, v).id = NoId
         /\ \A id \in 0..MaxSent : Response(id, v).verdict = v
BY SomeURIType, BoundsAssumption DEF BoundsAssumption, Response, Diagnostics, Outgoing, NoId

LEMMA MessageTypes ==
  ASSUME NEW kind \in Requests \cup Notifications, NEW id \in 0..MaxSent, NEW u \in URIs,
         NEW decodes \in BOOLEAN, NEW texts \in Seq(Texts), NEW seen \in Texts
  PROVE  Message(kind, id, u, decodes, texts, seen) \in Messages
BY DEF Message, Messages

LEMMA NoMessageType ==
  /\ NoMessage \in Messages /\ WellSent(NoMessage)
  /\ NoMessage.kind = "ignored" /\ NoMessage.id = NoId
<1>1. "ignored" \in Requests \cup Notifications /\ NoId \in 0..MaxSent /\ << >> \in Seq(Texts)
  BY Kinds, BoundsAssumption DEF BoundsAssumption, NoId
<1>2. EmptyText \in Texts
  BY DocumentsAssumption DEF DocumentsAssumption
<1>3. NoMessage \in Messages
  BY <1>1, <1>2, SomeURIType, MessageTypes DEF NoMessage, AboutNothing
<1>4. NoMessage.kind = "ignored" /\ NoMessage.id = NoId /\ NoMessage.decodes = TRUE
  BY DEF NoMessage, AboutNothing, Message
<1>5. QED
  BY <1>3, <1>4, Kinds DEF WellSent

LEMMA SendTypes ==
  ASSUME TypeInv, NEW m \in Messages, WellSent(m), Send(m)
  PROVE  /\ inbox' \in Seq(Messages) /\ sent' \in 0..MaxSent /\ asked' \in 0..sent'
         /\ \A i \in DOMAIN inbox' : WellSent(inbox'[i])
<1>1. inbox \in Seq(Messages) /\ sent \in 0..MaxSent /\ asked \in 0..sent /\ MaxSent \in Nat
  BY BoundsAssumption DEF TypeInv, TypeOK, BoundsAssumption
<1>2. inbox' = Append(inbox, m) /\ sent' = sent + 1 /\ sent < MaxSent /\ asked' \in {asked, asked + 1}
  BY DEF Send
<1>3. inbox' \in Seq(Messages) /\ sent' \in 0..MaxSent /\ asked' \in 0..sent'
  BY <1>1, <1>2
<1>4. ASSUME NEW i \in DOMAIN inbox'
      PROVE  WellSent(inbox'[i])
  <2>1. inbox'[i] = m \/ (i \in DOMAIN inbox /\ inbox'[i] = inbox[i])
    BY <1>1, <1>2
  <2>2. QED
    BY <2>1 DEF TypeInv, Shape
<1>5. QED
  BY <1>3, <1>4

LEMMA ReceiveTypes ==
  ASSUME TypeInv, inbox # << >>, inbox' = Tail(inbox)
  PROVE  /\ inbox' \in Seq(Messages) /\ Head(inbox) \in Messages /\ WellSent(Head(inbox))
         /\ \A i \in DOMAIN inbox' : WellSent(inbox'[i])
         /\ Head(inbox) = inbox[1] /\ 1 \in DOMAIN inbox
<1>1. inbox \in Seq(Messages)
  BY DEF TypeInv, TypeOK
<1>2. inbox' \in Seq(Messages) /\ Head(inbox) \in Messages /\ Head(inbox) = inbox[1] /\ 1 \in DOMAIN inbox
  BY <1>1
<1>3. ASSUME NEW i \in DOMAIN inbox'
      PROVE  WellSent(inbox'[i])
  <2>1. i + 1 \in DOMAIN inbox /\ inbox'[i] = inbox[i + 1]
    BY <1>1
  <2>2. QED
    BY <2>1 DEF TypeInv, Shape
<1>4. QED
  BY <1>2, <1>3 DEF TypeInv, Shape

-----------------------------------------------------------------------------
(***************************************************************************)
(* What all actions of the editor that send have in common.                *)
(***************************************************************************)
Sends(m) ==
  /\ m \in Messages /\ WellSent(m) /\ Send(m)
  /\ m.kind \in Requests => m.id = asked + 1
  /\ Asks(m) => m.seen = editor[m.uri]
  /\ editor' \in [URIs -> Texts \cup {Closed}]
  /\ \A u \in URIs : editor'[u] = IF EditOf(m, u) THEN After(m) ELSE editor[u]
  /\ client # "gone" /\ client' \in {"up", "shutting"}
  /\ UNCHANGED <<shown, serverVars, worldVars>>

LEMMA EditorSends ==
  ASSUME TypeInv, Editor
  PROVE  (\E m : Sends(m)) \/ EditorDies \/ Read
<1>1. /\ asked + 1 \in Nat /\ asked \in Nat /\ sent \in Nat /\ MaxSent \in Nat
      /\ asked <= sent /\ editor \in [URIs -> Texts \cup {Closed}] /\ client \in {"up", "shutting", "gone"}
  BY BoundsAssumption DEF TypeInv, TypeOK, BoundsAssumption
<1>2. 0 \in 0..MaxSent /\ (sent < MaxSent => asked + 1 \in 1..MaxSent)
  BY <1>1
<1>3. EmptyText \in Texts /\ << >> \in Seq(Texts) /\ Closed \notin Texts
  BY DocumentsAssumption DEF DocumentsAssumption
<1>4. CASE OpenDocument
  <2>1. PICK u \in URIs, t \in Texts :
          /\ client = "up" /\ editor' = [editor EXCEPT ![u] = t]
          /\ Send(Note("didOpen", u, <<t>>, t))
          /\ UNCHANGED <<shown, client, serverVars, worldVars>>
    BY <1>4 DEF OpenDocument
  <2> DEFINE m == Note("didOpen", u, <<t>>, t)
  <2>2. m = Message("didOpen", NoId, u, TRUE, <<t>>, t)
    BY DEF Note, AboutNothing
  <2> HIDE DEF m
  <2>20. /\ m.kind = "didOpen" /\ m.id = NoId /\ m.uri = u
         /\ m.decodes = TRUE /\ m.texts = <<t>> /\ m.seen = t
    BY <2>2 DEF Message
  <2>3. m \in Messages
    <3>1. "didOpen" \in Requests \cup Notifications /\ NoId \in 0..MaxSent /\ <<t>> \in Seq(Texts)
      BY Kinds, <1>2, <2>1 DEF NoId
    <3>2. QED
      BY <2>2, <3>1, MessageTypes
  <2>4. WellSent(m) /\ m.kind \notin Requests /\ ~Asks(m)
    BY <2>20, Kinds DEF WellSent, Asks, NoId
  <2>5. After(m) = t /\ \A v : EditOf(m, v) <=> v = u
    <3>1. <<t>> # << >> /\ Last(<<t>>) = t
      BY DEF Last
    <3>2. QED
      BY <3>1, <2>20 DEF After, EditOf
  <2>6. editor' \in [URIs -> Texts \cup {Closed}]
    BY <2>1, <1>1
  <2>7. \A v \in URIs : editor'[v] = IF EditOf(m, v) THEN After(m) ELSE editor[v]
    BY <2>1, <2>5, <1>1
  <2>8. Send(m)
    BY <2>1 DEF m
  <2>9. QED
    BY <2>1, <2>3, <2>4, <2>6, <2>7, <2>8 DEF Sends
<1>5. CASE EditDocument
  <2>1. PICK u \in URIs, texts \in {<<t>> : t \in Texts} \cup (Texts \X Texts) \cup {<< >>} :
          /\ client = "up" /\ editor[u] # Closed
          /\ editor' = IF texts = << >> THEN editor ELSE [editor EXCEPT ![u] = Last(texts)]
          /\ Send(Note("didChange", u, texts, editor'[u]))
          /\ UNCHANGED <<shown, client, serverVars, worldVars>>
    BY <1>5 DEF EditDocument
  <2> DEFINE m == Note("didChange", u, texts, editor'[u])
  <2>2. texts \in Seq(Texts) /\ (texts # << >> => Last(texts) \in Texts)
    <3>1. CASE texts = << >>
      BY <3>1
    <3>2. CASE \E t \in Texts : texts = <<t>>
      BY <3>2 DEF Last
    <3>3. CASE texts \in Texts \X Texts
      <4>1. PICK t1 \in Texts, t2 \in Texts : texts = <<t1, t2>>
        BY <3>3
      <4>2. QED
        BY <4>1 DEF Last
    <3>4. QED
      BY <3>1, <3>2, <3>3
  <2>3. editor' \in [URIs -> Texts \cup {Closed}] /\ editor'[u] \in Texts
    BY <2>1, <2>2, <1>1
  <2>4. m = Message("didChange", NoId, u, TRUE, texts, editor'[u])
    BY DEF Note, AboutNothing
  <2> HIDE DEF m
  <2>20. /\ m.kind = "didChange" /\ m.id = NoId /\ m.uri = u
         /\ m.decodes = TRUE /\ m.texts = texts /\ m.seen = editor'[u]
    BY <2>4 DEF Message
  <2>5. m \in Messages
    <3>1. "didChange" \in Requests \cup Notifications /\ NoId \in 0..MaxSent
      BY Kinds, <1>2, <2>1 DEF NoId
    <3>2. QED
      BY <2>2, <2>3, <2>4, <3>1, MessageTypes
  <2>6. WellSent(m) /\ m.kind \notin Requests /\ ~Asks(m)
    BY <2>20, Kinds DEF WellSent, Asks, NoId
  <2>7. After(m) = Last(texts) /\ \A v : EditOf(m, v) <=> (v = u /\ texts # << >>)
    BY <2>20 DEF After, EditOf
  <2>8. \A v \in URIs : editor'[v] = IF EditOf(m, v) THEN After(m) ELSE editor[v]
    BY <2>1, <2>7, <1>1
  <2>9. Send(m)
    BY <2>1 DEF m
  <2>10. QED
    BY <2>1, <2>3, <2>5, <2>6, <2>8, <2>9 DEF Sends
<1>6. CASE CloseDocument
  <2>1. PICK u \in URIs :
          /\ client = "up" /\ editor[u] # Closed
          /\ editor' = [editor EXCEPT ![u] = Closed]
          /\ Send(Note("didClose", u, << >>, editor[u]))
          /\ UNCHANGED <<shown, client, serverVars, worldVars>>
    BY <1>6 DEF CloseDocument
  <2> DEFINE m == Note("didClose", u, << >>, editor[u])
  <2>2. m = Message("didClose", NoId, u, TRUE, << >>, editor[u])
    BY DEF Note, AboutNothing
  <2> HIDE DEF m
  <2>20. /\ m.kind = "didClose" /\ m.id = NoId /\ m.uri = u
         /\ m.decodes = TRUE /\ m.texts = << >> /\ m.seen = editor[u]
    BY <2>2 DEF Message
  <2>3. m \in Messages
    <3>1. "didClose" \in Requests \cup Notifications /\ NoId \in 0..MaxSent /\ editor[u] \in Texts
      BY Kinds, <1>1, <1>2, <2>1 DEF NoId
    <3>2. QED
      BY <2>2, <1>3, <3>1, MessageTypes
  <2>4. WellSent(m) /\ m.kind \notin Requests /\ ~Asks(m)
    BY <2>20, Kinds DEF WellSent, Asks, NoId
  <2>5. After(m) = Closed /\ \A v : EditOf(m, v) <=> v = u
    BY <2>20 DEF After, EditOf
  <2>6. editor' \in [URIs -> Texts \cup {Closed}]
    BY <2>1, <1>1
  <2>7. \A v \in URIs : editor'[v] = IF EditOf(m, v) THEN After(m) ELSE editor[v]
    BY <2>1, <2>5, <1>1
  <2>8. Send(m)
    BY <2>1 DEF m
  <2>9. QED
    BY <2>1, <2>3, <2>4, <2>6, <2>7, <2>8 DEF Sends
<1>7. CASE Ask
  <2>1. PICK kind \in Questions, u \in URIs :
          /\ client = "up" /\ editor[u] # Closed
          /\ Send(Message(kind, asked + 1, u, TRUE, << >>, editor[u]))
          /\ UNCHANGED <<editor, shown, client, serverVars, worldVars>>
    BY <1>7 DEF Ask
  <2> DEFINE m == Message(kind, asked + 1, u, TRUE, << >>, editor[u])
  <2>2. m = Message(kind, asked + 1, u, TRUE, << >>, editor[u])
    BY DEF Note, AboutNothing
  <2> HIDE DEF m
  <2>20. /\ m.kind = kind /\ m.id = asked + 1 /\ m.uri = u
         /\ m.decodes = TRUE /\ m.texts = << >> /\ m.seen = editor[u]
    BY <2>2 DEF Message
  <2>3. m \in Messages
    <3>1. kind \in Requests \cup Notifications /\ asked + 1 \in 0..MaxSent /\ editor[u] \in Texts
      BY Kinds, <1>1, <1>2, <2>1 DEF Send
    <3>2. QED
      BY <2>2, <1>3, <3>1, MessageTypes
  <2>4. kind \in Requests /\ kind \notin Notifications
    BY Kinds
  <2>5. WellSent(m) /\ m.id = asked + 1 /\ m.seen = editor[m.uri]
    BY <2>20, <2>4, <1>1, Kinds DEF WellSent, NoId
  <2>6. \A v : ~EditOf(m, v)
    BY <2>20, <2>4, Kinds DEF EditOf
  <2>7. Send(m)
    BY <2>1 DEF m
  <2>8. QED
    BY <1>1, <2>1, <2>3, <2>5, <2>6, <2>7 DEF Sends
<1>8. CASE SendPlain
  <2>1. PICK kind \in {"initialize", "unsupported", "shutdown", "ignored"} :
          /\ client = "up"
          /\ Send(AboutNothing(kind, IF kind = "ignored" THEN NoId ELSE asked + 1, TRUE))
          /\ client' = IF kind = "shutdown" THEN "shutting" ELSE client
          /\ UNCHANGED <<editor, shown, serverVars, worldVars>>
    BY <1>8 DEF SendPlain
  <2> DEFINE i == IF kind = "ignored" THEN NoId ELSE asked + 1
             m == AboutNothing(kind, i, TRUE)
  <2>2. m = Message(kind, i, SomeURI, TRUE, << >>, EmptyText)
    BY DEF Note, AboutNothing
  <2> HIDE DEF m
  <2>20. /\ m.kind = kind /\ m.id = i /\ m.uri = SomeURI
         /\ m.decodes = TRUE /\ m.texts = << >> /\ m.seen = EmptyText
    BY <2>2 DEF Message
  <2>3. m \in Messages
    <3>1. kind \in Requests \cup Notifications /\ i \in 0..MaxSent
      BY Kinds, <1>2, <2>1 DEF NoId, Send
    <3>2. QED
      BY <2>2, <1>3, <3>1, SomeURIType, MessageTypes
  <2>4. WellSent(m) /\ (m.kind \in Requests => m.id = asked + 1)
    BY <2>20, <1>1, Kinds DEF WellSent, NoId
  <2>5. ~Asks(m) /\ \A v : ~EditOf(m, v)
    BY <2>20, Kinds DEF EditOf, Asks, Questions
  <2>6. Send(m)
    BY <2>1 DEF m, i
  <2>7. QED
    BY <1>1, <2>1, <2>3, <2>4, <2>5, <2>6 DEF Sends
<1>9. CASE SendUndecodable
  <2>1. PICK kind \in Questions \cup {"didOpen", "didChange", "didClose"} :
          /\ Careless /\ client = "up"
          /\ Send(AboutNothing(kind, IF kind \in Requests THEN asked + 1 ELSE NoId, FALSE))
          /\ UNCHANGED <<editor, shown, client, serverVars, worldVars>>
    BY <1>9 DEF SendUndecodable
  <2> DEFINE i == IF kind \in Requests THEN asked + 1 ELSE NoId
             m == AboutNothing(kind, i, FALSE)
  <2>2. m = Message(kind, i, SomeURI, FALSE, << >>, EmptyText)
    BY DEF Note, AboutNothing
  <2> HIDE DEF m
  <2>20. /\ m.kind = kind /\ m.id = i /\ m.uri = SomeURI
         /\ m.decodes = FALSE /\ m.texts = << >> /\ m.seen = EmptyText
    BY <2>2 DEF Message
  <2>3. m \in Messages
    <3>1. kind \in Requests \cup Notifications /\ i \in 0..MaxSent
      BY Kinds, <1>2, <2>1 DEF NoId, Send
    <3>2. QED
      BY <2>2, <1>3, <3>1, SomeURIType, MessageTypes
  <2>4. WellSent(m) /\ (m.kind \in Requests => m.id = asked + 1)
    BY <2>1, <2>20, <1>1, Kinds DEF WellSent, NoId
  <2>5. ~Asks(m) /\ \A v : ~EditOf(m, v)
    BY <2>20 DEF EditOf, Asks
  <2>6. Send(m)
    BY <2>1 DEF m, i
  <2>7. QED
    BY <1>1, <2>1, <2>3, <2>4, <2>5, <2>6 DEF Sends
<1>10. CASE Exit
  <2> DEFINE m == AboutNothing("exit", NoId, TRUE)
  <2>1. m = Message("exit", NoId, SomeURI, TRUE, << >>, EmptyText)
    BY DEF Note, AboutNothing
  <2> HIDE DEF m
  <2>20. /\ m.kind = "exit" /\ m.id = NoId /\ m.uri = SomeURI
         /\ m.decodes = TRUE /\ m.texts = << >> /\ m.seen = EmptyText
    BY <2>1 DEF Message
  <2>2. m \in Messages
    <3>1. "exit" \in Requests \cup Notifications /\ NoId \in 0..MaxSent
      BY Kinds, <1>2, <1>10 DEF NoId, Exit
    <3>2. QED
      BY <2>1, <1>3, <3>1, SomeURIType, MessageTypes
  <2>3. WellSent(m) /\ m.kind \notin Requests /\ ~Asks(m) /\ \A v : ~EditOf(m, v)
    BY <2>20, Kinds DEF WellSent, NoId, EditOf, Asks
  <2>4. Send(m) /\ client = "shutting" /\ UNCHANGED <<editor, shown, client, serverVars, worldVars>>
    BY <1>10 DEF m, Exit
  <2>5. QED
    BY <1>1, <2>2, <2>3, <2>4 DEF Sends
<1>11. QED
  BY <1>4, <1>5, <1>6, <1>7, <1>8, <1>9, <1>10 DEF Editor

(***************************************************************************)
(* What all steps that take a message off stdin have in common.            *)
(***************************************************************************)
Receives(m) ==
  /\ pc = "reading" /\ inbox # << >> /\ inbox' = Tail(inbox)
  /\ UNCHANGED <<outbox, table, worldVars, editorVars, answered, disturbed>>
  /\ docs' \in [URIs -> Texts \cup {Closed}]
  /\ \A u \in URIs : docs'[u] = IF EditOf(m, u) THEN After(m) ELSE docs[u]
  /\ message' \in {m, NoMessage}
  /\ m.kind \in Requests => message' = m
  /\ message'.kind \in Under(pc')
  /\ pc' \in {"reading", "resolving", "writing", "stopped"}
  /\ pc' = "resolving" => message'.decodes
  /\ out' \in Outgoing
  /\ pc' = "writing" =>
       /\ out'.id = IF message'.kind \in Requests THEN message'.id ELSE NoId
       /\ ~Asks(message')
  /\ pc' = "stopped" => message'.kind = "exit" \/ ~m.decodes

Reception ==
  \/ ReceivePlain \/ ReceiveExit \/ DidOpen \/ DidChange \/ DidClose \/ ReceiveQuestion
  \/ RejectRequest \/ RejectNotification

LEMMA ServerReceives ==
  ASSUME TypeInv, Reception
  PROVE  Receives(Head(inbox))
<1> DEFINE m == Head(inbox)
<1>1. /\ pc = "reading" /\ inbox # << >> /\ inbox' = Tail(inbox)
      /\ UNCHANGED <<outbox, table, worldVars, editorVars, answered, disturbed>>
  BY DEF Reception, ReceivePlain, ReceiveExit, DidOpen, DidChange, DidClose, ReceiveQuestion,
         RejectRequest, RejectNotification, Receive
<1>2. /\ m.kind \in Requests \cup Notifications /\ m.id \in 0..MaxSent /\ m.uri \in URIs
      /\ m.texts \in Seq(Texts) /\ m.decodes \in BOOLEAN /\ WellSent(m)
  BY <1>1, ReceiveTypes DEF Messages
<1>3. docs \in [URIs -> Texts \cup {Closed}] /\ out \in Outgoing
  BY DEF TypeInv, TypeOK
<1>4. /\ Response(m.id, Plain) \in Outgoing /\ Response(m.id, Plain).id = m.id
      /\ Diagnostics(m.uri, Cleared) \in Outgoing /\ Diagnostics(m.uri, Cleared).id = NoId
  BY <1>2, VerdictTypes, OutgoingTypes
<1> HIDE DEF m
<1>5. CASE ReceivePlain
  <2>1. /\ m.kind \in {"initialize", "shutdown", "unsupported", "ignored"} /\ docs' = docs
        /\ IF m.id = NoId THEN message' = NoMessage /\ pc' = "reading" /\ out' = out
           ELSE message' = m /\ pc' = "writing" /\ out' = Response(m.id, Plain)
    BY <1>5 DEF ReceivePlain, Receive, Skip, Compose, m
  <2>2. ~Asks(m) /\ \A u : ~EditOf(m, u)
    BY <2>1 DEF Asks, EditOf, Questions
  <2>3. m.kind \in Requests <=> m.id # NoId
    BY <1>2 DEF WellSent
  <2>4. CASE m.id = NoId
    BY <2>1, <2>2, <2>3, <2>4, <1>1, <1>3, NoMessageType DEF Receives, Under, m
  <2>5. CASE m.id # NoId
    BY <2>1, <2>2, <2>3, <2>5, <1>1, <1>3, <1>4 DEF Receives, Under, m
  <2>6. QED
    BY <2>4, <2>5
<1>6. CASE ReceiveExit
  <2>1. m.kind = "exit" /\ docs' = docs /\ message' = m /\ pc' = "stopped" /\ out' = out
    BY <1>6 DEF ReceiveExit, Receive, Handle, m
  <2>2. ~Asks(m) /\ \A u : ~EditOf(m, u)
    BY <2>1, Kinds DEF Asks, EditOf
  <2>3. QED
    BY <2>1, <2>2, <1>1, <1>2, <1>3 DEF Receives, Under, m
<1>7. CASE DidOpen
  <2>1. /\ m.kind = "didOpen" /\ m.decodes /\ docs' = [docs EXCEPT ![m.uri] = Head(m.texts)]
        /\ message' = m /\ pc' = "resolving" /\ out' = out
    BY <1>7 DEF DidOpen, Receive, Handle, m
  <2>2. Len(m.texts) = 1
    BY <2>1, <1>2 DEF WellSent
  <2>3. Head(m.texts) \in Texts /\ Head(m.texts) = Last(m.texts)
    BY <2>2, <1>2 DEF Last
  <2>4. After(m) = Head(m.texts) /\ \A u : EditOf(m, u) <=> u = m.uri
    BY <2>1, <2>3 DEF After, EditOf
  <2>5. docs' \in [URIs -> Texts \cup {Closed}]
    BY <2>1, <2>3, <1>2, <1>3
  <2>6. \A u \in URIs : docs'[u] = IF EditOf(m, u) THEN After(m) ELSE docs[u]
    BY <2>1, <2>4, <1>3
  <2>7. m.kind \notin Requests
    BY <2>1, Kinds
  <2>8. QED
    BY <2>1, <2>5, <2>6, <2>7, <1>1, <1>3 DEF Receives, Under, m
<1>8. CASE DidChange
  <2>1. /\ m.kind = "didChange" /\ m.decodes
        /\ IF m.texts = << >> THEN message' = NoMessage /\ pc' = "reading" /\ docs' = docs /\ out' = out
           ELSE /\ docs' = [docs EXCEPT ![m.uri] = Last(m.texts)]
                /\ message' = m /\ pc' = "resolving" /\ out' = out
    BY <1>8 DEF DidChange, Receive, Handle, Skip, m
  <2>2. After(m) = Last(m.texts) /\ \A u : EditOf(m, u) <=> (u = m.uri /\ m.texts # << >>)
    BY <2>1 DEF After, EditOf
  <2>3. m.texts # << >> => Last(m.texts) \in Texts
    BY <1>2 DEF Last
  <2>4. docs' \in [URIs -> Texts \cup {Closed}]
    BY <2>1, <2>3, <1>2, <1>3
  <2>5. \A u \in URIs : docs'[u] = IF EditOf(m, u) THEN After(m) ELSE docs[u]
    BY <2>1, <2>2, <1>3
  <2>6. m.kind \notin Requests
    BY <2>1, Kinds
  <2>7. CASE m.texts = << >>
    BY <2>1, <2>4, <2>5, <2>6, <2>7, <1>1, <1>3, NoMessageType DEF Receives, Under, m
  <2>8. CASE m.texts # << >>
    BY <2>1, <2>4, <2>5, <2>6, <2>8, <1>1, <1>3 DEF Receives, Under, m
  <2>9. QED
    BY <2>7, <2>8
<1>9. CASE DidClose
  <2>1. /\ m.kind = "didClose" /\ m.decodes /\ docs' = [docs EXCEPT ![m.uri] = Closed]
        /\ message' = m /\ pc' = "writing" /\ out' = Diagnostics(m.uri, Cleared)
    BY <1>9 DEF DidClose, Receive, Compose, m
  <2>2. After(m) = Closed /\ \A u : EditOf(m, u) <=> u = m.uri
    BY <2>1 DEF After, EditOf
  <2>3. docs' \in [URIs -> Texts \cup {Closed}]
    BY <2>1, <1>2, <1>3
  <2>4. \A u \in URIs : docs'[u] = IF EditOf(m, u) THEN After(m) ELSE docs[u]
    BY <2>1, <2>2, <1>3
  <2>5. m.kind \notin Requests /\ ~Asks(m)
    BY <2>1, Kinds DEF Asks
  <2>6. QED
    BY <2>1, <2>3, <2>4, <2>5, <1>1, <1>4 DEF Receives, Under, m
<1>10. CASE ReceiveQuestion
  <2>1. /\ m.kind \in Questions /\ m.decodes /\ docs' = docs
        /\ message' = m /\ pc' = "resolving" /\ out' = out
    BY <1>10 DEF ReceiveQuestion, Receive, Handle, m
  <2>2. \A u : ~EditOf(m, u)
    BY <2>1, Kinds DEF EditOf
  <2>3. QED
    BY <2>1, <2>2, <1>1, <1>3 DEF Receives, Under, m
<1>11. CASE RejectRequest
  <2>1. /\ m.kind \in Questions /\ ~m.decodes /\ docs' = docs
        /\ message' = m /\ pc' = "writing" /\ out' = Response(m.id, Plain)
    BY <1>11 DEF RejectRequest, Receive, Compose, m
  <2>2. ~Asks(m) /\ (\A u : ~EditOf(m, u)) /\ m.kind \in Requests
    BY <2>1, Kinds DEF Asks, EditOf
  <2>3. QED
    BY <2>1, <2>2, <1>1, <1>3, <1>4 DEF Receives, Under, m
<1>12. CASE RejectNotification
  <2>1. /\ m.kind \in {"didOpen", "didChange", "didClose"} /\ ~m.decodes /\ docs' = docs
        /\ message' = m /\ pc' = "stopped" /\ out' = out
    BY <1>12 DEF RejectNotification, Receive, Handle, m
  <2>2. \A u : ~EditOf(m, u)
    BY <2>1 DEF EditOf
  <2>3. QED
    BY <2>1, <2>2, <1>1, <1>2, <1>3 DEF Receives, Under, m
<1>13. QED
  BY <1>5, <1>6, <1>7, <1>8, <1>9, <1>10, <1>11, <1>12 DEF Reception

(***************************************************************************)
(* What all steps that leave an answer to be written have in common.       *)
(***************************************************************************)
Composes ==
  /\ pc \in {"resolving", "loading"} /\ pc' = "writing"
  /\ out' \in Outgoing
  /\ out'.id = IF message.kind \in Requests THEN message.id ELSE NoId
  /\ message.kind \in Questions => out'.verdict.text = Text
  /\ disturbed' \in SUBSET URIs
  /\ UNCHANGED <<inbox, outbox, docs, message, table, worldVars, editorVars, answered>>

LEMMA TextType == ASSUME TypeInv PROVE Text \in Texts
<1>1. message.uri \in URIs /\ docs \in [URIs -> Texts \cup {Closed}]
  BY DEF TypeInv, TypeOK, Messages
<1>2. QED
  BY <1>1, DocumentsAssumption DEF Text, DocumentsAssumption

LEMMA AboutTypes ==
  ASSUME TypeInv, pc \in {"resolving", "loading"}, NEW v \in Verdicts
  PROVE  /\ About(message, v) \in Outgoing
         /\ About(message, v).id = IF message.kind \in Requests THEN message.id ELSE NoId
         /\ message.kind \in Questions => About(message, v).verdict = v
<1>1. message.id \in 0..MaxSent /\ message.uri \in URIs
  BY DEF TypeInv, TypeOK, Messages
<1>2. message.kind \in Questions \cup {"didOpen", "didChange"}
  BY DEF TypeInv, Shape, Under
<1>3. message.kind \in Requests <=> message.kind \in Questions
  BY <1>2, Kinds
<1>4. QED
  BY <1>1, <1>3, OutgoingTypes DEF About

LEMMA ServerComposes ==
  ASSUME TypeInv, ResolveFails \/ Load \/ LoadFails
  PROVE  Composes
<1>1. Text \in Texts
  BY TextType
<1>2. /\ table \in Tables \cup {NoTable} /\ catalog \in SUBSET Tables /\ disturbed \in SUBSET URIs
  BY DEF TypeInv, TypeOK
<1>3. CASE ResolveFails
  <2>1. /\ pc = "resolving" /\ pc' = "writing" /\ out' = About(message, Unplaced(Text))
        /\ disturbed' \in SUBSET URIs
        /\ UNCHANGED <<inbox, outbox, docs, message, table, worldVars, editorVars, answered>>
    BY <1>3, <1>2 DEF ResolveFails, Compose, LookAfresh
  <2>2. Unplaced(Text) \in Verdicts /\ Unplaced(Text).text = Text
    BY <1>1, VerdictTypes DEF Unplaced, Verdict
  <2>3. QED
    BY <2>1, <2>2, AboutTypes DEF Composes
<1>4. CASE Load
  <2>1. /\ pc = "loading" /\ pc' = "writing" /\ out' = About(message, Compiled(Text, table, catalog))
        /\ table \in catalog /\ disturbed' = disturbed
        /\ UNCHANGED <<inbox, outbox, docs, message, table, worldVars, editorVars, answered>>
    BY <1>4 DEF Load, Compose
  <2>2. Compiled(Text, table, catalog) \in Verdicts
    BY <1>1, <1>2, <2>1, VerdictTypes
  <2>3. Compiled(Text, table, catalog).text = Text
    BY DEF Compiled, Verdict
  <2>4. QED
    BY <2>1, <2>2, <2>3, <1>2, AboutTypes DEF Composes
<1>5. CASE LoadFails
  <2>1. /\ pc = "loading" /\ pc' = "writing" /\ out' = About(message, Unresolved(Text, table))
        /\ disturbed' = disturbed
        /\ UNCHANGED <<inbox, outbox, docs, message, table, worldVars, editorVars, answered>>
    BY <1>5 DEF LoadFails, Compose
  <2>2. Unresolved(Text, table) \in Verdicts
    BY <1>1, <1>2, DocumentsAssumption
       DEF DocumentsAssumption, Unresolved, Verdict, Verdicts
  <2>3. Unresolved(Text, table).text = Text
    BY DEF Unresolved, Verdict
  <2>4. QED
    BY <2>1, <2>2, <2>3, <1>2, AboutTypes DEF Composes
<1>6. QED
  BY <1>3, <1>4, <1>5

(***************************************************************************)
(* The steps of the system, by what they do to the pipes and the message.  *)
(***************************************************************************)
LEMMA Steps ==
  ASSUME TypeInv, [Next]_vars
  PROVE  \/ UNCHANGED vars
         \/ \E m : Sends(m)
         \/ EditorDies \/ Read \/ SidecarChanges \/ CatalogChanges
         \/ Receives(Head(inbox)) \/ EndOfInput \/ Resolve \/ Composes \/ Write \/ WriteFails
<1>1. CASE Editor
  BY <1>1, EditorSends
<1>2. CASE Reception
  BY <1>2, ServerReceives
<1>3. CASE ResolveFails \/ Load \/ LoadFails
  BY <1>3, ServerComposes
<1>4. QED
  BY <1>1, <1>2, <1>3 DEF Next, World, Server, Reception

-----------------------------------------------------------------------------
(***************************************************************************)
(* Type correctness.                                                       *)
(***************************************************************************)
LEMMA UnderLabels ==
  /\ "ignored" \in Under("reading") /\ Under("reading") = {"ignored"}
  /\ Under("resolving") = Questions \cup {"didOpen", "didChange"}
  /\ Under("loading") = Under("resolving") /\ Under("resolving") \subseteq Under("writing")
  /\ Under("stopped") = Requests \cup Notifications
BY Kinds DEF Under

LEMMA TypeInit == ASSUME Init PROVE TypeInv
<1>1. NoMessage \in Messages /\ NoMessage.kind = "ignored"
  BY NoMessageType
<1>2. Silence \in Outgoing
  BY SomeURIType, VerdictTypes, OutgoingTypes DEF Silence
<1>3. TypeOK
  <2>1. inbox \in Seq(Messages) /\ outbox \in Seq(Outgoing) /\ Len(outbox) <= OutboxCapacity
    BY BoundsAssumption DEF Init, BoundsAssumption
  <2>2. docs \in [URIs -> Texts \cup {Closed}] /\ editor \in [URIs -> Texts \cup {Closed}]
    BY DEF Init
  <2>3. shown \in [URIs -> Verdicts]
    BY VerdictTypes DEF Init
  <2>4. sent \in 0..MaxSent /\ upsets \in 0..MaxUpsets /\ asked \in 0..sent /\ answered \in Seq(1..MaxSent)
    BY BoundsAssumption DEF Init, BoundsAssumption
  <2>5. QED
    BY <1>1, <1>2, <2>1, <2>2, <2>3, <2>4 DEF Init, TypeOK
<1>4. Shape
  BY <1>1, UnderLabels DEF Init, Shape
<1>5. QED
  BY <1>3, <1>4 DEF TypeInv

LEMMA TypeStep == ASSUME TypeInv, [Next]_vars PROVE TypeInv'
<1>1. TypeOK /\ Shape
  BY DEF TypeInv
<1>2. CASE UNCHANGED vars
  BY <1>1, <1>2 DEF TypeInv, TypeOK, Shape, vars, worldVars, editorVars
<1>3. CASE \E m : Sends(m)
  <2>1. PICK m : Sends(m)
    BY <1>3
  <2>2. /\ inbox' \in Seq(Messages) /\ sent' \in 0..MaxSent /\ asked' \in 0..sent'
        /\ \A i \in DOMAIN inbox' : WellSent(inbox'[i])
    BY <2>1, SendTypes DEF Sends
  <2>3. TypeOK'
    BY <1>1, <2>1, <2>2 DEF TypeOK, Sends, serverVars, worldVars
  <2>4. Shape'
    BY <1>1, <2>1, <2>2 DEF Shape, Sends, serverVars
  <2>5. QED
    BY <2>3, <2>4 DEF TypeInv
<1>4. CASE EditorDies
  BY <1>1, <1>4 DEF TypeInv, TypeOK, Shape, EditorDies, serverVars, worldVars
<1>5. CASE Read
  <2>1. outbox' \in Seq(Outgoing) /\ Len(outbox') <= Len(outbox) /\ Head(outbox) \in Outgoing
    BY <1>1, <1>5 DEF TypeOK, Read
  <2>2. OutboxCapacity \in Nat /\ Len(outbox) \in Nat /\ Len(outbox') \in Nat
    BY <1>1, <2>1, BoundsAssumption DEF TypeOK, BoundsAssumption
  <2>3. Len(outbox') <= OutboxCapacity
    BY <1>1, <2>1, <2>2 DEF TypeOK
  <2>4. Head(outbox).verdict \in Verdicts /\ Head(outbox).uri \in URIs
    BY <2>1 DEF Outgoing
  <2>5. shown' \in [URIs -> Verdicts]
    BY <1>1, <1>5, <2>4 DEF TypeOK, Read
  <2>6. TypeOK'
    BY <1>1, <1>5, <2>1, <2>3, <2>5 DEF TypeOK, Read, worldVars
  <2>7. Shape'
    BY <1>1, <1>5 DEF Shape, Read
  <2>8. QED
    BY <2>6, <2>7 DEF TypeInv
<1>6. CASE SidecarChanges
  <2>1. PICK u \in FileURIs, t \in Tables \cup {NoTable, Invalid} :
          /\ upsets < MaxUpsets /\ upsets' = upsets + 1
          /\ sidecar' = [sidecar EXCEPT ![u] = t] /\ disturbed' = disturbed \cup {u}
          /\ UNCHANGED <<inbox, outbox, docs, pc, message, table, out, catalog, editorVars, answered>>
    BY <1>6 DEF SidecarChanges
  <2>2. upsets' \in 0..MaxUpsets
    BY <1>1, <2>1, BoundsAssumption DEF TypeOK, BoundsAssumption
  <2>3. sidecar' \in [FileURIs -> Tables \cup {NoTable, Invalid}] /\ disturbed' \in SUBSET URIs
    BY <1>1, <2>1, DocumentsAssumption DEF TypeOK, DocumentsAssumption
  <2>4. TypeOK'
    BY <1>1, <2>1, <2>2, <2>3 DEF TypeOK, editorVars
  <2>5. Shape'
    BY <1>1, <2>1 DEF Shape
  <2>6. QED
    BY <2>4, <2>5 DEF TypeInv
<1>7. CASE CatalogChanges
  <2>1. PICK known \in SUBSET Tables :
          /\ upsets < MaxUpsets /\ upsets' = upsets + 1
          /\ catalog' = known /\ disturbed' = URIs
          /\ UNCHANGED <<inbox, outbox, docs, pc, message, table, out, sidecar, editorVars, answered>>
    BY <1>7 DEF CatalogChanges
  <2>2. upsets' \in 0..MaxUpsets
    BY <1>1, <2>1, BoundsAssumption DEF TypeOK, BoundsAssumption
  <2>3. TypeOK'
    BY <1>1, <2>1, <2>2 DEF TypeOK, editorVars
  <2>4. Shape'
    BY <1>1, <2>1 DEF Shape
  <2>5. QED
    BY <2>3, <2>4 DEF TypeInv
<1>8. CASE Receives(Head(inbox))
  <2>1. /\ inbox' \in Seq(Messages) /\ Head(inbox) \in Messages
        /\ \A i \in DOMAIN inbox' : WellSent(inbox'[i])
    BY <1>8, ReceiveTypes DEF Receives
  <2>2. message' \in Messages
    BY <1>8, <2>1, NoMessageType DEF Receives
  <2>3. TypeOK'
    BY <1>1, <1>8, <2>1, <2>2 DEF TypeOK, Receives, worldVars, editorVars
  <2>4. Shape'
    BY <1>8, <2>1 DEF Shape, Receives
  <2>5. QED
    BY <2>3, <2>4 DEF TypeInv
<1>9. CASE EndOfInput
  <2>1. TypeOK'
    BY <1>1, <1>9 DEF TypeOK, EndOfInput, worldVars, editorVars
  <2>2. message.kind \in Under("stopped")
    BY <1>1, UnderLabels DEF TypeOK, Messages
  <2>3. Shape'
    BY <1>1, <1>9, <2>2 DEF Shape, EndOfInput
  <2>4. QED
    BY <2>1, <2>3 DEF TypeInv
<1>10. CASE Resolve
  <2>1. table' \in Tables /\ disturbed' \in SUBSET URIs
    BY <1>1, <1>10 DEF Resolve, LookAfresh, TypeOK
  <2>2. TypeOK'
    BY <1>1, <1>10, <2>1 DEF TypeOK, Resolve, worldVars, editorVars
  <2>3. pc = "resolving" /\ pc' = "loading" /\ message' = message /\ inbox' = inbox
    BY <1>10 DEF Resolve
  <2>4. Shape'
    BY <1>1, <2>3, UnderLabels DEF Shape
  <2>5. QED
    BY <2>2, <2>4 DEF TypeInv
<1>11. CASE Composes
  <2>1. TypeOK'
    BY <1>1, <1>11 DEF TypeOK, Composes, worldVars, editorVars
  <2>2. message.kind \in Under("writing")
    BY <1>1, <1>11, UnderLabels DEF Shape, Composes
  <2>3. Shape'
    BY <1>1, <1>11, <2>2 DEF Shape, Composes
  <2>4. QED
    BY <2>1, <2>3 DEF TypeInv
<1>12. CASE Write
  <2>1. outbox' \in Seq(Outgoing) /\ Len(outbox') <= OutboxCapacity
    BY <1>1, <1>12, BoundsAssumption DEF TypeOK, Write, BoundsAssumption
  <2>2. out.id \in 0..MaxSent
    BY <1>1 DEF TypeOK, Outgoing
  <2>3. out.id # NoId => out.id \in 1..MaxSent
    BY <2>2, BoundsAssumption DEF NoId, BoundsAssumption
  <2>4. answered' \in Seq(1..MaxSent)
    <3>1. answered \in Seq(1..MaxSent)
      BY <1>1 DEF TypeOK
    <3>2. answered' = IF out.id = NoId THEN answered ELSE Append(answered, out.id)
      BY <1>12 DEF Write
    <3> DEFINE S == 1..MaxSent
    <3> HIDE DEF S
    <3>3. answered \in Seq(S) /\ (out.id # NoId => out.id \in S)
      BY <2>3, <3>1 DEF S
    <3>4. answered' \in Seq(S)
      BY <3>2, <3>3
    <3>5. QED
      BY <3>4 DEF S
  <2>5. message' = NoMessage /\ message' \in Messages /\ message'.kind = "ignored" /\ Silence \in Outgoing
    BY <1>12, NoMessageType, SomeURIType, VerdictTypes, OutgoingTypes DEF Write, Silence
  <2>6. TypeOK'
    BY <1>1, <1>12, <2>1, <2>4, <2>5 DEF TypeOK, Write, worldVars, editorVars
  <2>7. Shape'
    BY <1>1, <1>12, <2>5, UnderLabels DEF Shape, Write
  <2>8. QED
    BY <2>6, <2>7 DEF TypeInv
<1>13. CASE WriteFails
  <2>1. TypeOK'
    BY <1>1, <1>13 DEF TypeOK, WriteFails, worldVars, editorVars
  <2>2. message.kind \in Under("stopped")
    BY <1>1, UnderLabels DEF TypeOK, Messages
  <2>3. Shape'
    BY <1>1, <1>13, <2>2 DEF Shape, WriteFails
  <2>4. QED
    BY <2>1, <2>3 DEF TypeInv
<1>14. QED
  BY <1>2, <1>3, <1>4, <1>5, <1>6, <1>7, <1>8, <1>9, <1>10, <1>11, <1>12, <1>13, Steps

LEMMA TypeAlways == Spec => []TypeInv
<1>1. Init => TypeInv
  BY TypeInit
<1>2. TypeInv /\ [Next]_vars => TypeInv'
  BY TypeStep
<1>3. QED
  BY <1>1, <1>2, PTL DEF Spec

(***************************************************************************)
(* The pipe never holds more than its capacity, every message the server   *)
(* handles is one that editors send, and only what asked has an id.        *)
(***************************************************************************)
THEOREM LanguageServerTypeCorrect == Spec => []TypeOK
<1>1. TypeInv => TypeOK
  BY DEF TypeInv
<1>2. QED
  BY <1>1, TypeAlways, PTL

-----------------------------------------------------------------------------
(***************************************************************************)
(* Stopping.                                                               *)
(***************************************************************************)
LEMMA StopStep == ASSUME TypeInv, StopsOnlyWhenTold, [Next]_vars PROVE StopsOnlyWhenTold'
<1>1. CASE UNCHANGED vars
  BY <1>1 DEF StopsOnlyWhenTold, vars, editorVars
<1>2. CASE \E m : Sends(m)
  BY <1>2 DEF StopsOnlyWhenTold, Sends, serverVars
<1>3. CASE EditorDies
  BY <1>3 DEF StopsOnlyWhenTold, EditorDies, serverVars
<1>4. CASE Read \/ SidecarChanges \/ CatalogChanges
  BY <1>4 DEF StopsOnlyWhenTold, Read, SidecarChanges, CatalogChanges, editorVars
<1>5. CASE Receives(Head(inbox))
  <2>1. ~Careless => Head(inbox).decodes
    BY <1>5, ReceiveTypes DEF Receives, WellSent
  <2>2. QED
    BY <1>5, <2>1 DEF StopsOnlyWhenTold, Receives
<1>6. CASE EndOfInput \/ WriteFails
  BY <1>6 DEF StopsOnlyWhenTold, EndOfInput, WriteFails, editorVars
<1>7. CASE Resolve
  BY <1>7 DEF StopsOnlyWhenTold, Resolve
<1>8. CASE Composes \/ Write
  BY <1>8 DEF StopsOnlyWhenTold, Composes, Write
<1>9. QED
  BY <1>1, <1>2, <1>3, <1>4, <1>5, <1>6, <1>7, <1>8, Steps

(***************************************************************************)
(* No document, no sidecar and no catalog ends the server of an editor     *)
(* whose params decode: only the exit it sends or its death does.          *)
(***************************************************************************)
THEOREM CarefulEditorsKeepTheirServer == Spec => []StopsOnlyWhenTold
<1>1. Init => StopsOnlyWhenTold
  BY DEF Init, StopsOnlyWhenTold
<1>2. TypeInv /\ StopsOnlyWhenTold /\ [Next]_vars => StopsOnlyWhenTold'
  BY StopStep
<1>3. QED
  BY <1>1, <1>2, TypeAlways, PTL DEF Spec

-----------------------------------------------------------------------------
(***************************************************************************)
(* The order of the answers.                                               *)
(***************************************************************************)
LEMMA IdInit == ASSUME Init PROVE IdInv
<1>1. inbox = << >> /\ answered = << >> /\ asked = 0 /\ pc = "reading" /\ message.kind \notin Requests
  BY NoMessageType, Kinds DEF Init
<1>2. Len(inbox) + 1 = 1 /\ Taken = 0
  BY <1>1 DEF Taken
<1>3. LastId(asked, inbox, 1, Taken)
  BY <1>1, <1>2 DEF LastId
<1>4. DOMAIN inbox = {} /\ DOMAIN answered = {}
  BY <1>1
<1>5. QED
  BY <1>1, <1>2, <1>3, <1>4 DEF IdInv

\* Steps that neither send, take, nor answer.
LEMMA IdKept ==
  ASSUME IdInv, UNCHANGED <<inbox, message, answered, asked>>,
         pc' = "writing" => out'.id = IF message.kind \in Requests THEN message.id ELSE NoId
  PROVE  IdInv'
<1>1. Taken' = Taken
  BY DEF Taken
<1>2. LastId(asked, inbox, Len(inbox) + 1, Taken)'
  BY <1>1 DEF IdInv, LastId
<1>3. \A i \in DOMAIN inbox' : inbox'[i].kind \in Requests => LastId(inbox'[i].id - 1, inbox', i, Taken')
  BY <1>1 DEF IdInv
<1>4. QED
  BY <1>2, <1>3 DEF IdInv

LEMMA IdSent == ASSUME TypeInv, IdInv, NEW m, Sends(m) PROVE IdInv'
<1>1. /\ inbox \in Seq(Messages) /\ inbox' = Append(inbox, m) /\ asked \in Nat
      /\ asked' = IF m.kind \in Requests THEN asked + 1 ELSE asked
      /\ m.kind \in Requests => m.id = asked + 1
      /\ UNCHANGED <<message, answered, pc, out>>
  BY DEF TypeInv, TypeOK, Sends, Send, serverVars
<1>2. Taken' = Taken
  BY <1>1 DEF Taken
<1>3. LastId(asked, inbox, Len(inbox) + 1, Taken)
  BY DEF IdInv
<1>4. LastId(asked', inbox', Len(inbox') + 1, Taken')
  <2>1. LastId(IF m.kind \in Requests THEN m.id ELSE asked, Append(inbox, m),
               Len(Append(inbox, m)) + 1, Taken)
    BY <1>1, <1>3, LastIdLatest
  <2>2. asked' = IF m.kind \in Requests THEN m.id ELSE asked
    BY <1>1
  <2>3. QED
    BY <2>1, <2>2, <1>1, <1>2
<1>5. ASSUME NEW i \in DOMAIN inbox', inbox'[i].kind \in Requests
      PROVE  LastId(inbox'[i].id - 1, inbox', i, Taken')
  <2>1. CASE i \in DOMAIN inbox
    <3>1. inbox'[i] = inbox[i] /\ i \in 1..Len(inbox) + 1
      BY <1>1, <2>1
    <3>2. LastId(inbox[i].id - 1, inbox, i, Taken)
      BY <1>5, <2>1, <3>1 DEF IdInv
    <3>3. LastId(inbox[i].id - 1, Append(inbox, m), i, Taken)
      BY <1>1, <3>1, <3>2, LastIdSent
    <3>4. QED
      BY <1>1, <1>2, <3>1, <3>3
  <2>2. CASE i \notin DOMAIN inbox
    <3>1. i = Len(inbox) + 1 /\ inbox'[i] = m /\ i \in 1..Len(inbox) + 1
      BY <1>1, <2>2
    <3>2. m.id - 1 = asked
      BY <1>1, <1>5, <3>1
    <3>3. LastId(asked, Append(inbox, m), i, Taken)
      BY <1>1, <1>3, <3>1, LastIdSent
    <3>4. QED
      BY <1>1, <1>2, <3>1, <3>2, <3>3
  <2>3. QED
    BY <2>1, <2>2
<1>6. QED
  BY <1>1, <1>4, <1>5 DEF IdInv

LEMMA IdReceived == ASSUME TypeInv, IdInv, Receives(Head(inbox)) PROVE IdInv'
<1> DEFINE m == Head(inbox)
<1>1. /\ inbox \in Seq(Messages) /\ inbox # << >> /\ inbox' = Tail(inbox)
      /\ pc = "reading" /\ UNCHANGED <<answered, asked>>
      /\ message' \in {m, NoMessage} /\ (m.kind \in Requests => message' = m)
  BY DEF TypeInv, TypeOK, Receives, editorVars
<1>2. m = inbox[1] /\ 1 \in DOMAIN inbox /\ m.id \in Nat /\ Len(answered) \in Nat
  BY ReceiveTypes, BoundsAssumption, <1>1
     DEF Messages, BoundsAssumption, TypeInv, TypeOK
<1>3. Taken = Len(answered)
  <2>1. message.kind \notin Requests
    BY <1>1, UnderLabels, Kinds DEF TypeInv, Shape
  <2>2. QED
    BY <2>1 DEF Taken
<1>4. m.kind \in Requests => m.id = Len(answered) + 1
  <2>1. ASSUME m.kind \in Requests
        PROVE  m.id - 1 = Taken
    <3>1. LastId(m.id - 1, inbox, 1, Taken)
      BY <1>2, <2>1 DEF IdInv
    <3>2. QED
      BY <3>1 DEF LastId
  <2>2. QED
    BY <2>1, <1>2, <1>3
<1>5. NoMessage.kind \notin Requests
  BY NoMessageType, Kinds
<1>6. Taken' = IF m.kind \in Requests THEN m.id ELSE Taken
  BY <1>1, <1>3, <1>5 DEF Taken
<1>7. message'.kind \in Requests => message'.id = Len(answered') + 1
  BY <1>1, <1>4, <1>5
<1>8. LastId(asked', inbox', Len(inbox') + 1, Taken')
  <2>1. Len(inbox) + 1 \in 2..Len(inbox) + 1 /\ Len(inbox) + 1 - 1 = Len(inbox') + 1
    BY <1>1
  <2>2. LastId(asked, inbox, Len(inbox) + 1, Taken)
    BY DEF IdInv
  <2>3. LastId(asked, Tail(inbox), Len(inbox) + 1 - 1, IF m.kind \in Requests THEN m.id ELSE Taken)
    BY <1>1, <2>1, <2>2, LastIdTail
  <2>4. QED
    BY <1>1, <1>6, <2>1, <2>3
<1>9. ASSUME NEW i \in DOMAIN inbox', inbox'[i].kind \in Requests
      PROVE  LastId(inbox'[i].id - 1, inbox', i, Taken')
  <2>1. /\ i + 1 \in DOMAIN inbox /\ inbox'[i] = inbox[i + 1]
        /\ i + 1 \in 2..Len(inbox) + 1 /\ i + 1 - 1 = i
    BY <1>1
  <2>2. LastId(inbox[i + 1].id - 1, inbox, i + 1, Taken)
    BY <1>9, <2>1 DEF IdInv
  <2>3. LastId(inbox[i + 1].id - 1, Tail(inbox), i + 1 - 1, IF m.kind \in Requests THEN m.id ELSE Taken)
    BY <1>1, <2>1, <2>2, LastIdTail
  <2>4. QED
    BY <1>1, <1>6, <2>1, <2>3
<1>10. pc' = "writing" => out'.id = IF message'.kind \in Requests THEN message'.id ELSE NoId
  BY DEF Receives
<1>11. \A i \in DOMAIN answered' : answered'[i] = i
  BY <1>1 DEF IdInv
<1>12. QED
  BY <1>7, <1>8, <1>9, <1>10, <1>11 DEF IdInv

LEMMA IdAnswered == ASSUME TypeInv, IdInv, Write PROVE IdInv'
<1>1. /\ answered \in Seq(1..MaxSent) /\ pc = "writing" /\ pc' = "reading"
      /\ answered' = IF out.id = NoId THEN answered ELSE Append(answered, out.id)
      /\ message' = NoMessage /\ UNCHANGED <<inbox, asked>>
  BY DEF TypeInv, TypeOK, Write, editorVars
<1>2. out.id = IF message.kind \in Requests THEN Len(answered) + 1 ELSE NoId
  BY <1>1 DEF IdInv
<1>3. Len(answered) + 1 # NoId
  BY <1>1 DEF NoId
<1>4. message'.kind \notin Requests
  BY <1>1, NoMessageType, Kinds
<1>5. Taken' = Taken
  <2>1. Taken' = Len(answered')
    BY <1>4 DEF Taken
  <2>2. CASE message.kind \in Requests
    <3>1. answered' = Append(answered, out.id) /\ Taken = Len(answered) + 1
      BY <1>1, <1>2, <1>3, <2>2 DEF Taken, IdInv
    <3>2. QED
      BY <1>1, <2>1, <3>1
  <2>3. CASE message.kind \notin Requests
    BY <1>1, <1>2, <2>1, <2>3 DEF Taken
  <2>4. QED
    BY <2>2, <2>3
<1>6. ASSUME NEW i \in DOMAIN answered'
      PROVE  answered'[i] = i
  <2>1. CASE out.id = NoId
    BY <1>1, <1>6, <2>1 DEF IdInv
  <2>2. CASE out.id # NoId
    <3>1. answered' = Append(answered, Len(answered) + 1)
      BY <1>1, <1>2, <2>2
    <3>2. \/ i \in DOMAIN answered /\ answered'[i] = answered[i]
          \/ i = Len(answered) + 1 /\ answered'[i] = Len(answered) + 1
      BY <1>1, <3>1
    <3>3. QED
      BY <3>2 DEF IdInv
  <2>3. QED
    BY <2>1, <2>2
<1>7. LastId(asked', inbox', Len(inbox') + 1, Taken')
  BY <1>1, <1>5 DEF IdInv
<1>8. \A i \in DOMAIN inbox' : inbox'[i].kind \in Requests => LastId(inbox'[i].id - 1, inbox', i, Taken')
  BY <1>1, <1>5 DEF IdInv
<1>9. QED
  BY <1>1, <1>4, <1>6, <1>7, <1>8 DEF IdInv

LEMMA IdStep == ASSUME TypeInv, IdInv, [Next]_vars PROVE IdInv'
<1>1. CASE UNCHANGED vars
  BY <1>1, IdKept DEF IdInv, vars, editorVars
<1>2. CASE \E m : Sends(m)
  BY <1>2, IdSent
<1>3. CASE EditorDies \/ Read \/ SidecarChanges \/ CatalogChanges
  <2>1. UNCHANGED <<inbox, message, answered, asked, pc, out>>
    BY <1>3 DEF EditorDies, Read, SidecarChanges, CatalogChanges, serverVars, editorVars
  <2>2. QED
    BY <2>1, IdKept DEF IdInv
<1>4. CASE Receives(Head(inbox))
  BY <1>4, IdReceived
<1>5. CASE EndOfInput \/ Resolve \/ WriteFails
  <2>1. UNCHANGED <<inbox, message, answered, asked>> /\ pc' # "writing"
    BY <1>5 DEF EndOfInput, Resolve, WriteFails, editorVars
  <2>2. QED
    BY <2>1, IdKept
<1>6. CASE Composes
  <2>1. /\ UNCHANGED <<inbox, message, answered, asked>>
        /\ out'.id = IF message.kind \in Requests THEN message.id ELSE NoId
    BY <1>6 DEF Composes, editorVars
  <2>2. QED
    BY <2>1, IdKept
<1>7. CASE Write
  BY <1>7, IdAnswered
<1>8. QED
  BY <1>1, <1>2, <1>3, <1>4, <1>5, <1>6, <1>7, Steps

LEMMA IdsTell == TypeInv /\ IdInv => AnswersInOrder
<1> SUFFICES ASSUME TypeInv, IdInv, pc = "reading", inbox = << >> PROVE Len(answered) = asked
  BY DEF IdInv, AnswersInOrder
<1>1. message.kind \notin Requests
  BY UnderLabels, Kinds DEF TypeInv, Shape
<1>2. LastId(asked, inbox, 1, Len(answered))
  BY <1>1 DEF IdInv, Taken
<1>3. QED
  BY <1>2 DEF LastId

(***************************************************************************)
(* Every request is answered once, in the order of asking, and nothing is  *)
(* owed when the server waits for input: whatever the requests, the edits  *)
(* between them, the errors of the handlers and the pace of the editor.    *)
(***************************************************************************)
THEOREM RequestsAnsweredInOrder == Spec => []AnswersInOrder
<1>1. Init => IdInv
  BY IdInit
<1>2. TypeInv /\ IdInv /\ [Next]_vars => IdInv'
  BY IdStep
<1>3. QED
  BY <1>1, <1>2, IdsTell, TypeAlways, PTL DEF Spec

-----------------------------------------------------------------------------
(***************************************************************************)
(* The text that a question is about.                                      *)
(***************************************************************************)
LEMMA TextInit == ASSUME Init PROVE TextInv
<1>1. /\ inbox = << >> /\ pc = "reading" /\ docs = editor /\ Len(inbox) + 1 = 1 /\ DOMAIN inbox = {}
  BY DEF Init
<1>2. \A u \in URIs : LastEdit(editor[u], inbox, 1, u, docs[u])
  BY <1>1 DEF LastEdit
<1>3. QED
  BY <1>1, <1>2 DEF TextInv, AnswersSeeTheirText

\* Steps that neither send nor take, and keep the texts.
LEMMA TextKept ==
  ASSUME TextInv, UNCHANGED <<inbox, docs, editor>>,
         pc' \in {"resolving", "loading"} /\ Asks(message') => docs[message'.uri] = message'.seen,
         AnswersSeeTheirText'
  PROVE  TextInv'
<1>1. \A u \in URIs : LastEdit(editor'[u], inbox', Len(inbox') + 1, u, docs'[u])
  BY DEF TextInv
<1>2. \A i \in DOMAIN inbox' :
        Asks(inbox'[i]) => LastEdit(inbox'[i].seen, inbox', i, inbox'[i].uri, docs'[inbox'[i].uri])
  BY DEF TextInv
<1>3. QED
  BY <1>1, <1>2 DEF TextInv

LEMMA TextSent == ASSUME TypeInv, TextInv, NEW m, Sends(m) PROVE TextInv'
<1>1. /\ inbox \in Seq(Messages) /\ inbox' = Append(inbox, m) /\ m \in Messages
      /\ \A u \in URIs : editor'[u] = IF EditOf(m, u) THEN After(m) ELSE editor[u]
      /\ Asks(m) => m.seen = editor[m.uri]
      /\ UNCHANGED <<message, docs, pc, out>>
  BY DEF TypeInv, TypeOK, Sends, Send, serverVars
<1>2. ASSUME NEW u \in URIs
      PROVE  LastEdit(editor'[u], inbox', Len(inbox') + 1, u, docs'[u])
  <2>1. LastEdit(editor[u], inbox, Len(inbox) + 1, u, docs[u])
    BY DEF TextInv
  <2>2. LastEdit(IF EditOf(m, u) THEN After(m) ELSE editor[u], Append(inbox, m),
                 Len(Append(inbox, m)) + 1, u, docs[u])
    BY <1>1, <2>1, LastEditLatest
  <2>3. editor'[u] = IF EditOf(m, u) THEN After(m) ELSE editor[u]
    BY <1>1
  <2>4. QED
    BY <1>1, <2>2, <2>3
<1>3. ASSUME NEW i \in DOMAIN inbox', Asks(inbox'[i])
      PROVE  LastEdit(inbox'[i].seen, inbox', i, inbox'[i].uri, docs'[inbox'[i].uri])
  <2>1. CASE i \in DOMAIN inbox
    <3>1. inbox'[i] = inbox[i] /\ i \in 1..Len(inbox) + 1
      BY <1>1, <2>1
    <3>2. LastEdit(inbox[i].seen, inbox, i, inbox[i].uri, docs[inbox[i].uri])
      BY <1>3, <2>1, <3>1 DEF TextInv
    <3>3. LastEdit(inbox[i].seen, Append(inbox, m), i, inbox[i].uri, docs[inbox[i].uri])
      BY <1>1, <3>1, <3>2, LastEditSent
    <3>4. QED
      BY <1>1, <3>1, <3>3
  <2>2. CASE i \notin DOMAIN inbox
    <3>1. i = Len(inbox) + 1 /\ inbox'[i] = m /\ i \in 1..Len(inbox) + 1
      BY <1>1, <2>2
    <3>2. m.seen = editor[m.uri] /\ m.uri \in URIs
      BY <1>1, <1>3, <3>1 DEF Messages
    <3>3. LastEdit(m.seen, inbox, i, m.uri, docs[m.uri])
      BY <3>1, <3>2 DEF TextInv
    <3>4. LastEdit(m.seen, Append(inbox, m), i, m.uri, docs[m.uri])
      BY <1>1, <3>1, <3>3, LastEditSent
    <3>5. QED
      BY <1>1, <3>1, <3>4
  <2>3. QED
    BY <2>1, <2>2
<1>4. AnswersSeeTheirText' /\ (pc' \in {"resolving", "loading"} /\ Asks(message') => docs'[message'.uri] = message'.seen)
  BY <1>1 DEF TextInv, AnswersSeeTheirText
<1>5. QED
  BY <1>2, <1>3, <1>4 DEF TextInv

LEMMA TextReceived == ASSUME TypeInv, TextInv, Receives(Head(inbox)) PROVE TextInv'
<1> DEFINE m == Head(inbox)
<1>1. /\ inbox \in Seq(Messages) /\ inbox # << >> /\ inbox' = Tail(inbox) /\ editor' = editor
      /\ \A u \in URIs : docs'[u] = IF EditOf(m, u) THEN After(m) ELSE docs[u]
      /\ message' \in {m, NoMessage}
      /\ pc' \in {"reading", "resolving", "writing", "stopped"}
      /\ pc' = "writing" => ~Asks(message')
  BY DEF TypeInv, TypeOK, Receives, editorVars
<1>2. m = inbox[1] /\ 1 \in DOMAIN inbox /\ m \in Messages /\ m.uri \in URIs
  BY <1>1, ReceiveTypes DEF Messages
<1>3. ASSUME NEW u \in URIs
      PROVE  LastEdit(editor'[u], inbox', Len(inbox') + 1, u, docs'[u])
  <2>1. Len(inbox) + 1 \in 2..Len(inbox) + 1 /\ Len(inbox) + 1 - 1 = Len(inbox') + 1
    BY <1>1
  <2>2. LastEdit(editor[u], inbox, Len(inbox) + 1, u, docs[u])
    BY DEF TextInv
  <2>3. LastEdit(editor[u], Tail(inbox), Len(inbox) + 1 - 1, u, IF EditOf(m, u) THEN After(m) ELSE docs[u])
    BY <1>1, <2>1, <2>2, LastEditTail
  <2>4. docs'[u] = IF EditOf(m, u) THEN After(m) ELSE docs[u]
    BY <1>1
  <2>5. QED
    BY <1>1, <2>1, <2>3, <2>4
<1>4. ASSUME NEW i \in DOMAIN inbox', Asks(inbox'[i])
      PROVE  LastEdit(inbox'[i].seen, inbox', i, inbox'[i].uri, docs'[inbox'[i].uri])
  <2> DEFINE q == inbox[i + 1]
  <2>1. /\ i + 1 \in DOMAIN inbox /\ inbox'[i] = q
        /\ i + 1 \in 2..Len(inbox) + 1 /\ i + 1 - 1 = i /\ q \in Messages
    BY <1>1
  <2>2. LastEdit(q.seen, inbox, i + 1, q.uri, docs[q.uri])
    BY <1>4, <2>1 DEF TextInv
  <2> HIDE DEF q
  <2>3. LastEdit(q.seen, Tail(inbox), i + 1 - 1, q.uri, IF EditOf(m, q.uri) THEN After(m) ELSE docs[q.uri])
    BY <1>1, <2>1, <2>2, LastEditTail
  <2>4. docs'[q.uri] = IF EditOf(m, q.uri) THEN After(m) ELSE docs[q.uri]
    BY <1>1, <2>1 DEF Messages
  <2>5. QED
    BY <1>1, <2>1, <2>3, <2>4
<1>5. ASSUME pc' \in {"resolving", "loading"}, Asks(message')
      PROVE  docs'[message'.uri] = message'.seen
  <2>1. message' = m
    BY <1>1, <1>5, NoMessageType, Kinds DEF Asks
  <2>2. LastEdit(m.seen, inbox, 1, m.uri, docs[m.uri])
    BY <1>2, <1>5, <2>1 DEF TextInv
  <2>3. m.seen = docs[m.uri]
    BY <2>2 DEF LastEdit
  <2>4. ~EditOf(m, m.uri)
    BY <1>5, <2>1, Kinds DEF Asks, EditOf
  <2>5. QED
    BY <1>1, <1>2, <2>1, <2>3, <2>4
<1>6. AnswersSeeTheirText'
  BY <1>1 DEF AnswersSeeTheirText, Asks
<1>7. QED
  BY <1>3, <1>4, <1>5, <1>6 DEF TextInv

LEMMA TextStep == ASSUME TypeInv, TextInv, [Next]_vars PROVE TextInv'
<1>1. CASE UNCHANGED vars
  <2>1. UNCHANGED <<inbox, docs, editor, pc, message, out>>
    BY <1>1 DEF vars, editorVars
  <2>2. QED
    BY <2>1, TextKept DEF TextInv, AnswersSeeTheirText
<1>2. CASE \E m : Sends(m)
  BY <1>2, TextSent
<1>3. CASE EditorDies \/ Read \/ SidecarChanges \/ CatalogChanges
  <2>1. UNCHANGED <<inbox, docs, editor, pc, message, out>>
    BY <1>3 DEF EditorDies, Read, SidecarChanges, CatalogChanges, serverVars, editorVars
  <2>2. QED
    BY <2>1, TextKept DEF TextInv, AnswersSeeTheirText
<1>4. CASE Receives(Head(inbox))
  BY <1>4, TextReceived
<1>5. CASE EndOfInput \/ Write \/ WriteFails
  <2>1. UNCHANGED <<inbox, docs, editor>> /\ pc' \in {"reading", "stopped"}
    BY <1>5 DEF EndOfInput, Write, WriteFails, editorVars
  <2>2. QED
    BY <2>1, TextKept DEF AnswersSeeTheirText
<1>6. CASE Resolve
  <2>1. UNCHANGED <<inbox, docs, editor, message>> /\ pc = "resolving" /\ pc' = "loading"
    BY <1>6 DEF Resolve, editorVars
  <2>2. QED
    BY <2>1, TextKept DEF TextInv, AnswersSeeTheirText
<1>7. CASE Composes
  <2>1. /\ UNCHANGED <<inbox, docs, editor, message>> /\ pc \in {"resolving", "loading"}
        /\ pc' = "writing" /\ (message.kind \in Questions => out'.verdict.text = Text)
    BY <1>7 DEF Composes, editorVars
  <2>2. ASSUME message.kind \in Questions
        PROVE  Text = message.seen
    <3>1. docs[message.uri] = message.seen
      BY <2>1, <2>2 DEF TextInv, Asks, TypeInv, Shape
    <3>2. message.seen \in Texts
      BY DEF TypeInv, TypeOK, Messages
    <3>3. QED
      BY <3>1, <3>2, DocumentsAssumption DEF Text, DocumentsAssumption
  <2>3. AnswersSeeTheirText'
    BY <2>1, <2>2 DEF AnswersSeeTheirText
  <2>4. QED
    BY <2>1, <2>3, TextKept
<1>8. QED
  BY <1>1, <1>2, <1>3, <1>4, <1>5, <1>6, <1>7, Steps

(***************************************************************************)
(* An answer is about the text that the editor had when it asked, though   *)
(* it has typed on while the question waited in the pipe or was handled.   *)
(***************************************************************************)
THEOREM QuestionsAnsweredOnTheirText == Spec => []AnswersSeeTheirText
<1>1. Init => TextInv
  BY TextInit
<1>2. TypeInv /\ TextInv /\ [Next]_vars => TextInv'
  BY TextStep
<1>3. TextInv => AnswersSeeTheirText
  BY DEF TextInv
<1>4. QED
  BY <1>1, <1>2, <1>3, TypeAlways, PTL DEF Spec

-----------------------------------------------------------------------------
(***************************************************************************)
(* What the editor shows at rest.  Latest(v, q, u, known) says that v is   *)
(* the last verdict on u in the queue q, or the known one if q has none;   *)
(* the queue to look at is what has been written or is about to be.        *)
(***************************************************************************)
Tells(o, u) == o.id = NoId /\ o.uri = u

Latest(v, q, u, known) ==
  \/ v = known /\ \A j \in DOMAIN q : ~Tells(q[j], u)
  \/ \E j \in DOMAIN q : /\ Tells(q[j], u) /\ v = q[j].verdict
                         /\ \A k \in DOMAIN q : k > j => ~Tells(q[k], u)

UnderWay == IF pc = "writing" THEN Append(outbox, out) ELSE outbox

(***************************************************************************)
(* The right verdict on a document is about the text the server has.  Only *)
(* a document in hand, whose edit is being handled, may still lack it.     *)
(***************************************************************************)
VerdictOn(u, text) ==
  LET t == BaseTable(u, text)
  IN CASE t \notin Tables -> Unplaced(text)
       [] t \in Tables \ catalog -> Unresolved(text, t)
       [] OTHER -> Compiled(text, t, catalog)

Right(u, v) ==
  IF docs[u] = Closed THEN v = Cleared ELSE u \in disturbed \/ v = VerdictOn(u, docs[u])

InHand(u) ==
  pc \in {"resolving", "loading"} /\ message.kind \notin Questions /\ message.uri = u

ShownInv ==
  pc # "stopped" =>
    /\ \A u \in URIs : ~InHand(u) => \A v : Latest(v, UnderWay, u, shown[u]) => Right(u, v)
    /\ \A u \in URIs : InHand(u) => docs[u] # Closed
    /\ pc = "loading" =>
         /\ table \in Tables
         /\ message.kind \notin Questions =>
              message.uri \in disturbed \/ table = BaseTable(message.uri, docs[message.uri])

LEMMA LatestSent ==
  ASSUME NEW S, NEW q \in Seq(S), NEW o, NEW u, NEW known, NEW v,
         Latest(v, Append(q, o), u, known)
  PROVE  IF Tells(o, u) THEN v = o.verdict ELSE Latest(v, q, u, known)
<1> DEFINE a == Append(q, o)
           n == Len(q)
<1>1. /\ n \in Nat /\ DOMAIN a = 1..(n + 1) /\ DOMAIN q = 1..n /\ a[n + 1] = o
      /\ \A j \in 1..n : a[j] = q[j]
  OBVIOUS
<1>2. Latest(v, a, u, known)
  OBVIOUS
<1> HIDE DEF a, n
<1>3. CASE Tells(o, u)
  <2>1. PICK j \in 1..(n + 1) : /\ v = a[j].verdict
                                /\ \A k \in 1..(n + 1) : k > j => ~Tells(a[k], u)
    BY <1>1, <1>2, <1>3 DEF Latest
  <2>2. j = n + 1
    BY <1>1, <1>3, <2>1
  <2>3. QED
    BY <1>1, <1>3, <2>1, <2>2
<1>4. CASE ~Tells(o, u)
  <2>1. CASE v = known /\ \A j \in DOMAIN a : ~Tells(a[j], u)
    BY <1>1, <1>4, <2>1 DEF Latest
  <2>2. CASE ~(v = known /\ \A j \in DOMAIN a : ~Tells(a[j], u))
    <3>1. PICK j \in 1..(n + 1) : /\ Tells(a[j], u) /\ v = a[j].verdict
                                  /\ \A k \in 1..(n + 1) : k > j => ~Tells(a[k], u)
      BY <1>1, <1>2, <2>2 DEF Latest
    <3>2. j \in 1..n
      BY <1>1, <1>4, <3>1
    <3>3. Tells(q[j], u) /\ v = q[j].verdict /\ \A k \in 1..n : k > j => ~Tells(q[k], u)
      BY <1>1, <3>1, <3>2
    <3>4. QED
      BY <1>1, <1>4, <3>2, <3>3 DEF Latest
  <2>3. QED
    BY <2>1, <2>2
<1>5. QED
  BY <1>3, <1>4

LEMMA LatestRead ==
  ASSUME NEW S, NEW q \in Seq(S), q # << >>, NEW u, NEW known, NEW v,
         Latest(v, Tail(q), u, IF Tells(Head(q), u) THEN Head(q).verdict ELSE known)
  PROVE  Latest(v, q, u, known)
<1> DEFINE t == Tail(q)
           n == Len(q)
           first == IF Tells(q[1], u) THEN q[1].verdict ELSE known
<1>1. /\ n \in Nat \ {0} /\ DOMAIN t = 1..(n - 1) /\ DOMAIN q = 1..n /\ Head(q) = q[1]
      /\ \A j \in 1..(n - 1) : t[j] = q[j + 1]
  OBVIOUS
<1>2. Latest(v, t, u, first)
  BY <1>1
<1> HIDE DEF t, n
<1>3. \A k \in 1..n : k # 1 => k - 1 \in 1..(n - 1) /\ t[k - 1] = q[k]
  BY <1>1
<1>4. CASE v = first /\ \A j \in DOMAIN t : ~Tells(t[j], u)
  <2>1. \A k \in 1..n : k # 1 => ~Tells(q[k], u)
    BY <1>1, <1>3, <1>4
  <2>2. CASE Tells(q[1], u)
    <3>1. 1 \in 1..n /\ v = q[1].verdict /\ \A k \in 1..n : k > 1 => ~Tells(q[k], u)
      BY <1>1, <1>4, <2>1, <2>2
    <3>2. QED
      BY <1>1, <2>2, <3>1 DEF Latest
  <2>3. CASE ~Tells(q[1], u)
    <3>1. v = known /\ \A k \in 1..n : ~Tells(q[k], u)
      BY <1>4, <2>1, <2>3
    <3>2. QED
      BY <1>1, <3>1 DEF Latest
  <2>4. QED
    BY <2>2, <2>3
<1>5. CASE ~(v = first /\ \A j \in DOMAIN t : ~Tells(t[j], u))
  <2>1. PICK j \in 1..(n - 1) : /\ Tells(t[j], u) /\ v = t[j].verdict
                                /\ \A k \in 1..(n - 1) : k > j => ~Tells(t[k], u)
    BY <1>1, <1>2, <1>5 DEF Latest
  <2>2. j + 1 \in 1..n /\ t[j] = q[j + 1]
    BY <1>1
  <2>3. \A k \in 1..n : k > j + 1 => ~Tells(q[k], u)
    <3> SUFFICES ASSUME NEW k \in 1..n, k > j + 1 PROVE ~Tells(q[k], u)
      OBVIOUS
    <3>1. k - 1 \in 1..(n - 1) /\ k - 1 > j /\ t[k - 1] = q[k]
      BY <1>1, <1>3
    <3>2. QED
      BY <2>1, <3>1
  <2>4. QED
    BY <1>1, <2>1, <2>2, <2>3 DEF Latest
<1>6. QED
  BY <1>4, <1>5

(***************************************************************************)
(* Steps that leave what is told, what is in hand and what is right alone. *)
(***************************************************************************)
LEMMA ShownInit == ASSUME Init PROVE ShownInv
<1>1. /\ pc = "reading" /\ outbox = << >> /\ docs = [u \in URIs |-> Closed]
      /\ shown = [u \in URIs |-> Cleared]
  BY DEF Init
<1>2. \A u, v : Latest(v, << >>, u, shown[u]) => v = shown[u]
  BY DEF Latest
<1>3. QED
  BY <1>1, <1>2 DEF ShownInv, UnderWay, InHand, Right

LEMMA ShownKept ==
  ASSUME ShownInv, pc # "stopped", UNCHANGED <<outbox, out, docs, pc, message, table, shown>>,
         \A u \in URIs : u \in disturbed' \/ /\ u \notin disturbed /\ catalog' = catalog
                                             /\ u \in FileURIs => sidecar'[u] = sidecar[u],
         message.uri \in URIs
  PROVE  ShownInv'
<1>1. UnderWay' = UnderWay /\ \A u : InHand(u)' <=> InHand(u)
  BY DEF UnderWay, InHand
<1>2. \A u \in URIs : \A text : u \notin disturbed' => BaseTable(u, text)' = BaseTable(u, text)
  BY DEF BaseTable
<1>3. \A u \in URIs : \A text : u \notin disturbed' => VerdictOn(u, text)' = VerdictOn(u, text)
  BY <1>2 DEF VerdictOn
<1>4. \A u \in URIs : \A v : Right(u, v) => Right(u, v)'
  BY <1>3 DEF Right
<1>5. \A u \in URIs : ~InHand(u) => \A v : Latest(v, UnderWay, u, shown[u]) => Right(u, v)'
  BY <1>4 DEF ShownInv
<1>6. pc = "loading" /\ message.kind \notin Questions =>
        message.uri \in disturbed' \/ table = BaseTable(message.uri, docs[message.uri])'
  BY <1>2 DEF ShownInv
<1>7. QED
  BY <1>1, <1>5, <1>6 DEF ShownInv

(***************************************************************************)
(* Steps that take a message off stdin.                                    *)
(***************************************************************************)
LEMMA ShownReceived ==
  ASSUME TypeInv, ShownInv, Reception, pc' # "stopped"
  PROVE  ShownInv'
<1> DEFINE h == Head(inbox)
<1>1. /\ pc = "reading" /\ inbox # << >> /\ inbox' = Tail(inbox)
      /\ UNCHANGED <<outbox, table, shown, sidecar, catalog, disturbed>>
  BY DEF Reception, ReceivePlain, ReceiveExit, DidOpen, DidChange, DidClose, ReceiveQuestion,
         RejectRequest, RejectNotification, Receive, worldVars, editorVars
<1>2. h \in Messages /\ WellSent(h) /\ outbox \in Seq(Outgoing)
      /\ docs \in [URIs -> Texts \cup {Closed}]
  BY <1>1, ReceiveTypes DEF TypeInv, TypeOK
<1>3. h.uri \in URIs /\ h.texts \in Seq(Texts)
  BY <1>2 DEF Messages
<1>4. \A u \in URIs : \A v : Latest(v, outbox, u, shown[u]) => Right(u, v)
  BY <1>1 DEF ShownInv, UnderWay, InHand
<1>5. \A u \in URIs : docs'[u] = docs[u] => \A v : Right(u, v) => Right(u, v)'
  BY <1>1 DEF Right, VerdictOn, BaseTable
<1> HIDE DEF h
\* Nothing to do.
<1>6. CASE pc' = "reading"
  <2>1. docs' = docs
    BY <1>6 DEF Reception, ReceivePlain, ReceiveExit, DidOpen, DidChange, DidClose, ReceiveQuestion,
                RejectRequest, RejectNotification, Receive, Skip, Handle, Compose
  <2>2. QED
    BY <1>1, <1>4, <1>5, <1>6, <2>1 DEF ShownInv, UnderWay, InHand
\* A new text is in hand.
<1>7. ASSUME NEW text \in Texts, docs' = [docs EXCEPT ![h.uri] = text],
             message' = h, h.kind \notin Questions, pc' = "resolving"
      PROVE  ShownInv'
  <2>1. \A u \in URIs : u # h.uri => docs'[u] = docs[u]
    BY <1>2, <1>7
  <2>2. docs'[h.uri] = text /\ text # Closed
    BY <1>2, <1>3, <1>7, DocumentsAssumption DEF DocumentsAssumption
  <2>3. \A u : InHand(u)' <=> u = h.uri
    BY <1>7 DEF InHand
  <2>4. UnderWay' = outbox
    BY <1>1, <1>7 DEF UnderWay
  <2>5. \A u \in URIs : u # h.uri => \A v : Latest(v, outbox, u, shown[u]) => Right(u, v)'
    BY <1>4, <1>5, <2>1
  <2>6. QED
    BY <1>1, <1>7, <2>2, <2>3, <2>4, <2>5 DEF ShownInv
<1>8. CASE DidOpen
  <2>1. /\ h.kind = "didOpen" /\ h.decodes /\ docs' = [docs EXCEPT ![h.uri] = Head(h.texts)]
        /\ message' = h /\ pc' = "resolving"
    BY <1>8 DEF DidOpen, Receive, Handle, h
  <2>2. Head(h.texts) \in Texts
    BY <1>2, <1>3, <2>1 DEF WellSent
  <2>3. QED
    BY <1>7, <2>1, <2>2 DEF Questions
<1>9. CASE DidChange /\ pc' # "reading"
  <2>1. /\ h.kind = "didChange" /\ h.texts # << >>
        /\ docs' = [docs EXCEPT ![h.uri] = Last(h.texts)]
        /\ message' = h /\ pc' = "resolving"
    BY <1>9 DEF DidChange, Receive, Handle, Skip, h
  <2>2. Last(h.texts) \in Texts
    BY <1>3, <2>1 DEF Last
  <2>3. QED
    BY <1>7, <2>1, <2>2 DEF Questions
\* A question is in hand, or its answer is.
<1>10. CASE ReceiveQuestion
  <2>1. h.kind \in Questions /\ docs' = docs /\ message' = h /\ pc' = "resolving"
    BY <1>10 DEF ReceiveQuestion, Receive, Handle, h
  <2>2. QED
    BY <1>1, <1>4, <1>5, <2>1 DEF ShownInv, UnderWay, InHand
<1>11. CASE (ReceivePlain \/ RejectRequest) /\ pc' # "reading"
  <2>1. docs' = docs /\ pc' = "writing" /\ out' = Response(h.id, Plain)
    BY <1>11 DEF ReceivePlain, RejectRequest, Receive, Skip, Compose, h
  <2>2. h.id # NoId
    <3>1. CASE ReceivePlain
      BY <1>11, <3>1 DEF ReceivePlain, Skip, h
    <3>2. CASE RejectRequest
      BY <1>2, <3>2, Kinds DEF RejectRequest, Receive, WellSent, h
    <3>3. QED
      BY <1>11, <3>1, <3>2
  <2>3. \A u : ~Tells(out', u)
    BY <2>1, <2>2 DEF Tells, Response
  <2>4. \A u \in URIs : \A v : Latest(v, UnderWay', u, shown[u]) => Right(u, v)'
    <3> SUFFICES ASSUME NEW u \in URIs, NEW v, Latest(v, UnderWay', u, shown[u])
                 PROVE  Right(u, v)'
      OBVIOUS
    <3>1. UnderWay' = Append(outbox, out')
      BY <1>1, <2>1 DEF UnderWay
    <3>2. Latest(v, outbox, u, shown[u])
      BY <1>2, <2>3, <3>1, LatestSent
    <3>3. QED
      BY <1>4, <1>5, <2>1, <3>2
  <2>5. QED
    BY <1>1, <2>1, <2>4 DEF ShownInv, InHand
\* A closed document is cleared.
<1>12. CASE DidClose
  <2>1. /\ docs' = [docs EXCEPT ![h.uri] = Closed] /\ pc' = "writing"
        /\ out' = Diagnostics(h.uri, Cleared)
    BY <1>12 DEF DidClose, Receive, Compose, h
  <2>2. /\ \A u : Tells(out', u) <=> u = h.uri
        /\ out'.verdict = Cleared
    BY <2>1 DEF Tells, Diagnostics
  <2>3. docs'[h.uri] = Closed /\ \A u \in URIs : u # h.uri => docs'[u] = docs[u]
    BY <1>2, <1>3, <2>1
  <2>4. \A u \in URIs : \A v : Latest(v, UnderWay', u, shown[u]) => Right(u, v)'
    <3> SUFFICES ASSUME NEW u \in URIs, NEW v, Latest(v, UnderWay', u, shown[u])
                 PROVE  Right(u, v)'
      OBVIOUS
    <3>1. UnderWay' = Append(outbox, out')
      BY <1>1, <2>1 DEF UnderWay
    <3>2. IF u = h.uri THEN v = Cleared ELSE Latest(v, outbox, u, shown[u])
      BY <1>2, <2>2, <3>1, LatestSent
    <3>3. CASE u = h.uri
      BY <2>3, <3>2, <3>3 DEF Right
    <3>4. CASE u # h.uri
      BY <1>4, <1>5, <2>3, <3>2, <3>4
    <3>5. QED
      BY <3>3, <3>4
  <2>5. QED
    BY <1>1, <2>1, <2>4 DEF ShownInv, InHand
<1>13. CASE ReceiveExit \/ RejectNotification
  BY <1>13 DEF ReceiveExit, RejectNotification, Handle
<1>14. QED
  BY <1>6, <1>8, <1>9, <1>10, <1>11, <1>12, <1>13 DEF Reception

(***************************************************************************)
(* The verdict that a handler composes is right when it is composed.       *)
(***************************************************************************)
LEMMA HandlingText ==
  ASSUME TypeInv, ShownInv, pc \in {"resolving", "loading"}, message.kind \notin Questions
  PROVE  message.uri \in URIs /\ docs[message.uri] # Closed /\ Text = docs[message.uri]
<1>1. message.uri \in URIs
  BY DEF TypeInv, TypeOK, Messages
<1>2. docs[message.uri] # Closed
  BY <1>1 DEF ShownInv, InHand
<1>3. QED
  BY <1>1, <1>2 DEF Text

LEMMA ComposedRight ==
  ASSUME TypeInv, ShownInv, ResolveFails \/ Load \/ LoadFails, message.kind \notin Questions
  PROVE  /\ out'.uri = message.uri
         /\ \A v : v = out'.verdict => Right(message.uri, v)'
<1> DEFINE u == message.uri
           text == docs[u]
<1>1. /\ pc \in {"resolving", "loading"}
      /\ UNCHANGED <<docs, message, table, sidecar, catalog>>
  BY DEF ResolveFails, Load, LoadFails, Compose, worldVars
<1>2. text # Closed /\ Text = text
  BY <1>1, HandlingText
<1>3. \A t : BaseTable(u, t)' = BaseTable(u, t)
  BY <1>1 DEF BaseTable
<1>4. \A v : About(message, v) = Diagnostics(u, v)
  BY DEF About
<1>5. \A v : Diagnostics(u, v).uri = u /\ Diagnostics(u, v).verdict = v
  BY DEF Diagnostics
<1>6. CASE ResolveFails
  <2>1. BaseTable(u, text) \notin Tables /\ out' = Diagnostics(u, Unplaced(text))
    BY <1>2, <1>4, <1>6 DEF ResolveFails, Compose
  <2>2. VerdictOn(u, text)' = Unplaced(text)
    BY <1>1, <1>3, <2>1 DEF VerdictOn
  <2>3. out'.uri = u /\ out'.verdict = Unplaced(text)
    BY <1>5, <2>1
  <2>4. \A v : v = Unplaced(text) => Right(u, v)'
    BY <1>1, <1>2, <2>2 DEF Right
  <2>5. QED
    BY <2>3, <2>4
<1>7. CASE Load \/ LoadFails
  <2>1. pc = "loading" /\ disturbed' = disturbed /\ table \in Tables
        /\ (u \in disturbed \/ table = BaseTable(u, text))
    BY <1>7 DEF Load, LoadFails, ShownInv
  <2> DEFINE made == IF table \in catalog THEN Compiled(text, table, catalog)
                                          ELSE Unresolved(text, table)
  <2>2. out' = Diagnostics(u, made)
    BY <1>2, <1>4, <1>7 DEF Load, LoadFails, Compose
  <2>3. table = BaseTable(u, text) => VerdictOn(u, text)' = made
    BY <1>1, <1>3, <2>1 DEF VerdictOn
  <2> HIDE DEF made
  <2>4. out'.uri = u /\ out'.verdict = made
    BY <1>5, <2>2
  <2>5. \A v : v = made => Right(u, v)'
    BY <1>1, <1>2, <2>1, <2>3 DEF Right
  <2>6. QED
    BY <2>4, <2>5
<1>8. QED
  BY <1>6, <1>7

LEMMA ShownComposed ==
  ASSUME TypeInv, IdInv, ShownInv, ResolveFails \/ Load \/ LoadFails
  PROVE  ShownInv'
<1>1. /\ pc \in {"resolving", "loading"} /\ pc' = "writing"
      /\ UNCHANGED <<docs, outbox, message, shown, sidecar, catalog>>
      /\ outbox \in Seq(Outgoing)
  BY DEF ResolveFails, Load, LoadFails, Compose, worldVars, editorVars, TypeInv, TypeOK
<1>2. out'.id = IF message.kind \in Requests THEN message.id ELSE NoId
  BY ServerComposes DEF Composes
<1>3. message.kind \in Questions => out'.id # NoId
  <2> SUFFICES ASSUME message.kind \in Questions PROVE out'.id # 0
    BY DEF NoId
  <2>1. message.kind \in Requests
    BY Kinds
  <2>2. out'.id = Len(answered) + 1
    BY <1>2, <2>1 DEF IdInv
  <2>3. Len(answered) \in Nat
    BY DEF TypeInv, TypeOK
  <2>4. QED
    BY <2>2, <2>3
<1>4. \/ disturbed' = disturbed
      \/ message.kind \notin Questions /\ disturbed' = disturbed \ {message.uri}
  <2>1. CASE ResolveFails
    BY <2>1 DEF ResolveFails, LookAfresh
  <2>2. CASE Load \/ LoadFails
    BY <2>2 DEF Load, LoadFails
  <2>3. QED
    BY <2>1, <2>2
<1>5. \A u : (message.kind \in Questions \/ u # message.uri) => \A v : Right(u, v) => Right(u, v)'
  <2>1. \A u, text : BaseTable(u, text)' = BaseTable(u, text)
    BY <1>1 DEF BaseTable
  <2>2. \A u, text : VerdictOn(u, text)' = VerdictOn(u, text)
    BY <1>1, <2>1 DEF VerdictOn
  <2>3. QED
    BY <1>1, <1>4, <2>2 DEF Right
<1>6. \A u \in URIs : \A v : Latest(v, UnderWay', u, shown[u]) => Right(u, v)'
  <2> SUFFICES ASSUME NEW u \in URIs, NEW v, Latest(v, UnderWay', u, shown[u])
               PROVE  Right(u, v)'
    OBVIOUS
  <2>1. UnderWay' = Append(outbox, out')
    BY <1>1 DEF UnderWay
  <2>2. IF Tells(out', u) THEN v = out'.verdict ELSE Latest(v, outbox, u, shown[u])
    BY <1>1, <2>1, LatestSent
  <2>3. CASE message.kind \notin Questions /\ u = message.uri
    <3>1. out'.id = NoId
      <4>1. message.kind \in Questions \cup {"didOpen", "didChange"}
        BY <1>1, UnderLabels DEF TypeInv, Shape
      <4>2. QED
        BY <1>2, <2>3, <4>1, Kinds
    <3>2. out'.uri = message.uri /\ \A w : w = out'.verdict => Right(message.uri, w)'
      BY <2>3, ComposedRight
    <3>3. v = out'.verdict
      BY <2>2, <2>3, <3>1, <3>2 DEF Tells
    <3>4. Right(message.uri, v)'
      BY <3>2, <3>3
    <3>5. QED
      BY <1>1, <2>3, <3>4
  <2>4. CASE message.kind \in Questions
    <3>1. ~Tells(out', u) /\ ~InHand(u) /\ UnderWay = outbox
      BY <1>1, <1>3, <2>4 DEF Tells, InHand, UnderWay
    <3>2. QED
      BY <1>1, <1>5, <2>2, <2>4, <3>1 DEF ShownInv
  <2>5. CASE message.kind \notin Questions /\ u # message.uri
    <3>1. ~Tells(out', u) /\ ~InHand(u) /\ UnderWay = outbox
      BY <1>1, <2>5, ComposedRight DEF Tells, InHand, UnderWay
    <3>2. QED
      BY <1>1, <1>5, <2>2, <2>5, <3>1 DEF ShownInv
  <2>6. QED
    BY <2>3, <2>4, <2>5
<1>7. QED
  BY <1>1, <1>6 DEF ShownInv, InHand

LEMMA ShownResolved == ASSUME TypeInv, ShownInv, Resolve PROVE ShownInv'
<1>1. /\ pc = "resolving" /\ pc' = "loading" /\ table' = BaseTable(message.uri, Text)
      /\ BaseTable(message.uri, Text) \in Tables
      /\ UNCHANGED <<docs, outbox, message, shown, sidecar, catalog>>
      /\ disturbed' = IF message.kind \in Questions THEN disturbed ELSE disturbed \ {message.uri}
  BY DEF Resolve, worldVars, editorVars, LookAfresh
<1>2. \A u, text : BaseTable(u, text)' = BaseTable(u, text)
  BY <1>1 DEF BaseTable
<1>3. \A u, text : VerdictOn(u, text)' = VerdictOn(u, text)
  BY <1>1, <1>2 DEF VerdictOn
<1>4. \A u : InHand(u)' <=> InHand(u)
  BY <1>1 DEF InHand
<1>5. \A u : ~InHand(u) => \A v : Right(u, v) => Right(u, v)'
  BY <1>1, <1>3 DEF Right, InHand
<1>6. message.kind \notin Questions => table' = BaseTable(message.uri, docs[message.uri])'
  BY <1>1, <1>2, HandlingText
<1>7. UnderWay' = UnderWay
  BY <1>1 DEF UnderWay
<1>8. \A u \in URIs : ~InHand(u)' => \A v : Latest(v, UnderWay', u, shown'[u]) => Right(u, v)'
  BY <1>1, <1>4, <1>5, <1>7 DEF ShownInv
<1>9. \A u \in URIs : InHand(u)' => docs'[u] # Closed
  BY <1>1, <1>4 DEF ShownInv
<1>10. QED
  BY <1>1, <1>6, <1>8, <1>9 DEF ShownInv

LEMMA ShownWrittenOrRead == ASSUME TypeInv, ShownInv, Write \/ Read PROVE ShownInv'
<1>1. outbox \in Seq(Outgoing) /\ shown \in [URIs -> Verdicts] /\ out \in Outgoing
  BY DEF TypeInv, TypeOK
<1>2. UNCHANGED <<docs, sidecar, catalog, disturbed>>
  BY DEF Write, Read, worldVars
<1>3. \A u, v : Right(u, v) => Right(u, v)'
  BY <1>2 DEF Right, VerdictOn, BaseTable
<1>4. CASE Write
  <2>1. /\ pc = "writing" /\ pc' = "reading" /\ outbox' = Append(outbox, out) /\ shown' = shown
    BY <1>4 DEF Write, editorVars
  <2>2. UnderWay' = UnderWay /\ \A u : ~InHand(u) /\ ~InHand(u)'
    BY <2>1 DEF UnderWay, InHand
  <2>3. QED
    BY <1>3, <2>1, <2>2 DEF ShownInv
<1>5. CASE Read
  <2> DEFINE o == Head(outbox)
  <2>1. /\ outbox # << >> /\ outbox' = Tail(outbox) /\ UNCHANGED <<pc, message, table, out>>
        /\ shown' = IF o.id = NoId THEN [shown EXCEPT ![o.uri] = o.verdict] ELSE shown
    BY <1>5 DEF Read
  <2>2. o \in Outgoing /\ o.uri \in URIs
    <3>1. o \in Outgoing
      BY <1>1, <2>1
    <3>2. QED
      BY <3>1 DEF Outgoing
  <2>3. UnderWay \in Seq(Outgoing) /\ UnderWay # << >> /\ Head(UnderWay) = o
        /\ UnderWay' = Tail(UnderWay)
    <3>1. CASE pc = "writing"
      <4>1. UnderWay = Append(outbox, out) /\ UnderWay' = Append(Tail(outbox), out)
        BY <2>1, <3>1 DEF UnderWay
      <4>2. QED
        BY <1>1, <2>1, <4>1
    <3>2. CASE pc # "writing"
      BY <1>1, <2>1, <3>2 DEF UnderWay
    <3>3. QED
      BY <3>1, <3>2
  <2>4. \A u \in URIs : shown'[u] = IF Tells(o, u) THEN o.verdict ELSE shown[u]
    BY <1>1, <2>1, <2>2 DEF Tells
  <2>5. \A u : InHand(u)' <=> InHand(u)
    BY <2>1 DEF InHand
  <2> HIDE DEF o
  <2>6. \A u \in URIs : \A v : Latest(v, UnderWay', u, shown'[u]) => Latest(v, UnderWay, u, shown[u])
    <3> SUFFICES ASSUME NEW u \in URIs, NEW v, Latest(v, UnderWay', u, shown'[u])
                 PROVE  Latest(v, UnderWay, u, shown[u])
      OBVIOUS
    <3>1. Latest(v, Tail(UnderWay), u, IF Tells(Head(UnderWay), u) THEN Head(UnderWay).verdict
                                                                   ELSE shown[u])
      BY <2>3, <2>4
    <3>2. QED
      BY <2>3, <3>1, LatestRead
  <2>7. pc # "stopped" => \A u \in URIs : ~InHand(u) =>
          \A v : Latest(v, UnderWay', u, shown'[u]) => Right(u, v)'
    BY <1>3, <2>6 DEF ShownInv
  <2>8. \A u, text : BaseTable(u, text)' = BaseTable(u, text)
    BY <1>2 DEF BaseTable
  <2>9. QED
    BY <1>2, <2>1, <2>5, <2>7, <2>8 DEF ShownInv
<1>6. QED
  BY <1>4, <1>5

LEMMA ShownStep == ASSUME TypeInv, IdInv, ShownInv, [Next]_vars PROVE ShownInv'
<1>0. message.uri \in URIs
  BY DEF TypeInv, TypeOK, Messages
<1>1. CASE pc' = "stopped"
  BY <1>1 DEF ShownInv
<1>2. CASE pc' # "stopped" /\ (UNCHANGED vars \/ (\E m : Sends(m)) \/ EditorDies)
  <2>1. UNCHANGED <<outbox, out, docs, pc, message, table, shown, sidecar, catalog, disturbed>>
    BY <1>2 DEF vars, Sends, EditorDies, serverVars, worldVars, editorVars
  <2>2. QED
    BY <1>0, <1>2, <2>1, ShownKept
<1>3. CASE pc' # "stopped" /\ (SidecarChanges \/ CatalogChanges)
  <2>1. UNCHANGED <<outbox, out, docs, pc, message, table, shown>>
    BY <1>3 DEF SidecarChanges, CatalogChanges, editorVars
  <2>2. \A u \in URIs : u \in disturbed' \/ /\ u \notin disturbed /\ catalog' = catalog
                                            /\ u \in FileURIs => sidecar'[u] = sidecar[u]
    <3>1. CASE SidecarChanges
      <4>1. PICK w \in FileURIs, t \in Tables \cup {NoTable, Invalid} :
              /\ sidecar' = [sidecar EXCEPT ![w] = t] /\ disturbed' = disturbed \cup {w}
              /\ catalog' = catalog
        BY <3>1 DEF SidecarChanges
      <4>2. sidecar \in [FileURIs -> Tables \cup {NoTable, Invalid}]
        BY DEF TypeInv, TypeOK
      <4>3. QED
        BY <4>1, <4>2
    <3>2. CASE CatalogChanges
      BY <3>2 DEF CatalogChanges
    <3>3. QED
      BY <1>3, <3>1, <3>2
  <2>3. QED
    BY <1>0, <1>3, <2>1, <2>2, ShownKept
<1>4. CASE Reception /\ pc' # "stopped"
  BY <1>4, ShownReceived
<1>5. CASE Resolve
  BY <1>5, ShownResolved
<1>6. CASE ResolveFails \/ Load \/ LoadFails
  BY <1>6, ShownComposed
<1>7. CASE Write \/ Read
  BY <1>7, ShownWrittenOrRead
<1>8. CASE EndOfInput \/ WriteFails
  BY <1>8 DEF EndOfInput, WriteFails, ShownInv
<1>9. CASE Editor /\ pc' # "stopped"
  BY <1>2, <1>7, <1>9, EditorSends
<1>10. QED
  BY <1>1, <1>2, <1>3, <1>4, <1>5, <1>6, <1>7, <1>8, <1>9 DEF Next, World, Server, Reception

(***************************************************************************)
(* At rest the server has the texts of the editor, and nothing is under    *)
(* way.                                                                    *)
(***************************************************************************)
LEMMA ShownSettles == TypeInv /\ TextInv /\ ShownInv => DiagnosticsSettle
<1> SUFFICES ASSUME TypeInv, TextInv, ShownInv, AtRest, NEW u \in URIs
             PROVE  IF editor[u] = Closed THEN shown[u] = Cleared
                                          ELSE u \in disturbed \/ shown[u] = TrueVerdict(u)
  BY DEF DiagnosticsSettle
<1>1. pc = "reading" /\ inbox = << >> /\ outbox = << >>
  BY DEF AtRest
<1>2. editor[u] = docs[u]
  <2>1. LastEdit(editor[u], << >>, 1, u, docs[u])
    BY <1>1 DEF TextInv
  <2>2. QED
    BY <2>1 DEF LastEdit
<1>3. Latest(shown[u], UnderWay, u, shown[u]) /\ ~InHand(u)
  BY <1>1 DEF Latest, UnderWay, InHand
<1>4. Right(u, shown[u])
  BY <1>1, <1>3 DEF ShownInv
<1>5. QED
  BY <1>2, <1>4 DEF Right, VerdictOn, TrueVerdict

(***************************************************************************)
(* Whatever was typed, closed, written to sidecars or created and dropped  *)
(* while messages were under way: once the pipes are empty the editor      *)
(* shows each document the verdict on its latest text, but for those whose *)
(* sidecar or catalog changed after the server had looked.                 *)
(***************************************************************************)
THEOREM DiagnosticsCatchUp == Spec => []DiagnosticsSettle
<1>1. Init => IdInv /\ TextInv /\ ShownInv
  BY IdInit, TextInit, ShownInit
<1>2. TypeInv /\ IdInv /\ TextInv /\ ShownInv /\ [Next]_vars => IdInv' /\ TextInv' /\ ShownInv'
  BY IdStep, TextStep, ShownStep
<1>3. TypeInv /\ TextInv /\ ShownInv => DiagnosticsSettle
  BY ShownSettles
<1>4. QED
  BY <1>1, <1>2, <1>3, TypeAlways, PTL DEF Spec
=============================================================================
