---------------------------- MODULE CatalogCache ----------------------------
(***************************************************************************)
(* CachingProvider over a MemoryCache: pkg/formql/catalog/provider.go.     *)
(*                                                                         *)
(* Callers are goroutines (HTTP handlers of cmd/formqlweb) that share one  *)
(* provider.  Each method of the cache holds its lock for its whole body   *)
(* and is one step; nothing is locked between two of them, so the schema   *)
(* may change, time may pass and other callers may run at every step of a  *)
(* Load.  The lazily made map of MemoryCache is an empty map until the     *)
(* first Put: the unlocked nil test in Get and Delete reads it either      *)
(* before or after a Put that races it.                                    *)
(***************************************************************************)
EXTENDS Integers, Sequences, SequencesExt

CONSTANTS
  Callers,            \* the goroutines
  Pieces,             \* what names are made of
  Refs,               \* the catalog references they ask for
  FallbackNamespace,  \* the namespace an upstream reads a ref without one as
  TTL,                \* CachingProvider.TTL, <= 0 for entries that never expire
  MaxClock,           \* bound on the clock
  MaxRevision         \* bound on the number of schema changes

(***************************************************************************)
(* A name is the sequence of its pieces; the separators that the code      *)
(* looks for, a dot and a colon, are pieces of their own.  The empty       *)
(* namespace is the empty sequence.  Names are already normalized.         *)
(***************************************************************************)
Names == Seq(Pieces)

ASSUME BoundsAssumption == MaxClock \in Nat /\ MaxRevision \in Nat /\ TTL \in Int
ASSUME RefsAssumption ==
  /\ {":", "."} \subseteq Pieces
  /\ Refs \subseteq [namespace : Names, table : Names]
  /\ FallbackNamespace \in Names

\* Mutant of Key: the namespace is dropped from the key.
KeyOfTableOnly(ref) == ref.table

(***************************************************************************)
(* DefaultKeyer: namespace and table joined by a colon, or the table       *)
(* alone; a colon inside a name is not escaped.                            *)
(***************************************************************************)
Key(ref) == IF ref.namespace = << >> THEN ref.table
                                     ELSE ref.namespace \o <<":">> \o ref.table

Keys == {Key(ref) : ref \in Refs}

(***************************************************************************)
(* The schema and base table that a live upstream reads a reference as:    *)
(* what precedes the first dot of the table qualifies it when the          *)
(* reference has no namespace, and is dropped when it has one.             *)
(***************************************************************************)
Denotes(ref) ==
  LET dot == SelectInSeq(ref.table, LAMBDA piece : piece = ".")
      qualifier == IF dot = 0 THEN << >> ELSE SubSeq(ref.table, 1, dot - 1)
      namespace == IF ref.namespace = << >> THEN qualifier ELSE ref.namespace
  IN  [namespace |-> IF namespace = << >> THEN FallbackNamespace ELSE namespace,
       table     |-> SubSeq(ref.table, dot + 1, Len(ref.table))]

VARIABLES
  clock,     \* now()
  revision,  \* how often the schema behind the upstream has changed
  cache,     \* key -> the stored snapshot, or NoSnapshot
  pc,        \* where each caller is in its call
  ref,       \* the reference of its call
  snapshot,  \* the snapshot it holds
  served,    \* what its last finished Load returned
  floor,     \* history: no later Load of the key may return an older revision
  start      \* history: the floor of its key when its call began

vars == <<clock, revision, cache, pc, ref, snapshot, served, floor, start>>

NoSnapshot == [of |-> [namespace |-> << >>, table |-> << >>], revision |-> -1, fetchedAt |-> -1, loadedAt |-> -1]
Nothing == [outcome |-> "none", snapshot |-> NoSnapshot, at |-> 0]
Unstamped == -1

(***************************************************************************)
(* loadedAt is history: when the upstream's answer reached the provider.   *)
(***************************************************************************)
Snapshot ==
  [of : {Denotes(r) : r \in Refs}, revision : Nat,
   fetchedAt : Nat \cup {Unstamped}, loadedAt : Nat \cup {-1}]

StampedSnapshot ==
  [of : {Denotes(r) : r \in Refs}, revision : Nat, fetchedAt : Nat, loadedAt : Nat]

Init ==
  /\ clock = 0
  /\ revision = 0
  /\ cache = [k \in Keys |-> NoSnapshot]
  /\ pc = [c \in Callers |-> "idle"]
  /\ ref \in [Callers -> Refs]
  /\ snapshot = [c \in Callers |-> NoSnapshot]
  /\ served = [c \in Callers |-> Nothing]
  /\ floor = [k \in Keys |-> 0]
  /\ start = [c \in Callers |-> 0]

Goto(c, label) == pc' = [pc EXCEPT ![c] = label]

(***************************************************************************)
(* The environment: time passes, and DDL or an edited catalog document     *)
(* changes what the upstream answers.                                      *)
(***************************************************************************)
Tick ==
  /\ clock < MaxClock
  /\ clock' = clock + 1
  /\ UNCHANGED <<revision, cache, pc, ref, snapshot, served, floor, start>>

SchemaChange ==
  /\ revision < MaxRevision
  /\ revision' = revision + 1
  /\ UNCHANGED <<clock, cache, pc, ref, snapshot, served, floor, start>>

-----------------------------------------------------------------------------
(***************************************************************************)
(* Callers that have an upstream answer for key k and have not stored it.  *)
(***************************************************************************)
Holders(k) == {c \in Callers : pc[c] \in {"answered", "put"} /\ Key(ref[c]) = k}

BeginCall(c, r, label) ==
  /\ pc[c] = "idle"
  /\ Goto(c, label)
  /\ ref' = [ref EXCEPT ![c] = r]
  /\ start' = [start EXCEPT ![c] = floor[Key(r)]]
  /\ served' = [served EXCEPT ![c] = Nothing]
  /\ UNCHANGED <<clock, revision, cache, snapshot, floor>>

BeginLoad(c) == \E r \in Refs : BeginCall(c, r, "get")

(***************************************************************************)
(* Cache.Get: a hit is cloned under the read lock.                         *)
(***************************************************************************)
Hit(c) ==
  /\ pc[c] = "get"
  /\ cache[Key(ref[c])] # NoSnapshot
  /\ snapshot' = [snapshot EXCEPT ![c] = cache[Key(ref[c])]]
  /\ Goto(c, "check")
  /\ UNCHANGED <<clock, revision, cache, ref, served, floor, start>>

Miss(c) ==
  /\ pc[c] = "get"
  /\ cache[Key(ref[c])] = NoSnapshot
  /\ Goto(c, "upstream")
  /\ UNCHANGED <<clock, revision, cache, ref, snapshot, served, floor, start>>

Fresh(s) == TTL <= 0 \/ clock - s.fetchedAt <= TTL

Return(c, outcome, s) ==
  /\ served' = [served EXCEPT ![c] = [outcome |-> outcome, snapshot |-> s, at |-> clock]]
  /\ snapshot' = [snapshot EXCEPT ![c] = NoSnapshot]
  /\ Goto(c, "idle")

ServeHit(c) ==
  /\ pc[c] = "check"
  /\ Fresh(snapshot[c])
  /\ Return(c, "hit", snapshot[c])
  /\ UNCHANGED <<clock, revision, cache, ref, floor, start>>

Expired(c) ==
  /\ pc[c] = "check"
  /\ ~Fresh(snapshot[c])
  /\ Goto(c, "evict")
  /\ UNCHANGED <<clock, revision, cache, ref, snapshot, served, floor, start>>

\* Mutant of EvictExpired: an expired entry is asked for again.
RetryExpired(c) ==
  /\ pc[c] = "evict"
  /\ Goto(c, "get")
  /\ UNCHANGED <<clock, revision, cache, ref, snapshot, served, floor, start>>

(***************************************************************************)
(* Cache.Delete of the expired key: whatever is there by now goes.         *)
(***************************************************************************)
EvictExpired(c) ==
  /\ pc[c] = "evict"
  /\ cache' = [cache EXCEPT ![Key(ref[c])] = NoSnapshot]
  /\ Goto(c, "upstream")
  /\ UNCHANGED <<clock, revision, ref, snapshot, served, floor, start>>

(***************************************************************************)
(* Upstream.Load reads the schema at some moment.  Its snapshot carries a  *)
(* stamp of that moment or of an earlier one (JSONProvider, StaticProvider *)
(* hand out the FetchedAt they are given) or none (the live provider).     *)
(***************************************************************************)
UpstreamAnswers(c) ==
  /\ pc[c] = "upstream"
  /\ \E stamp \in 0..clock \cup {Unstamped} :
       snapshot' = [snapshot EXCEPT ![c] =
         [of |-> Denotes(ref[c]), revision |-> revision, fetchedAt |-> stamp, loadedAt |-> -1]]
  /\ Goto(c, "answered")
  /\ UNCHANGED <<clock, revision, cache, ref, served, floor, start>>

UpstreamFails(c) ==
  /\ pc[c] = "upstream"
  /\ Return(c, "error", NoSnapshot)
  /\ UNCHANGED <<clock, revision, cache, ref, floor, start>>

\* Mutant of StampAnswer: the answer keeps the zero time it came with.
LeaveUnstamped(c) ==
  /\ pc[c] = "answered"
  /\ snapshot' = [snapshot EXCEPT ![c].loadedAt = clock]
  /\ Goto(c, "put")
  /\ UNCHANGED <<clock, revision, cache, ref, served, floor, start>>

(***************************************************************************)
(* The answer reaches the provider, which stamps it if nobody has.         *)
(***************************************************************************)
StampAnswer(c) ==
  /\ pc[c] = "answered"
  /\ snapshot' = [snapshot EXCEPT ![c].loadedAt = clock,
                                  ![c].fetchedAt = IF @ = Unstamped THEN clock ELSE @]
  /\ Goto(c, "put")
  /\ UNCHANGED <<clock, revision, cache, ref, served, floor, start>>

(***************************************************************************)
(* Cache.Put, then the return of Load.  When no other caller holds an      *)
(* older answer for the key, nothing can bring an older revision back.     *)
(***************************************************************************)
NoOlderAnswer(c) ==
  \A d \in Holders(Key(ref[c])) \ {c} : snapshot[d].revision >= snapshot[c].revision

\* Mutant of Put: the entry is stamped when it is stored.
PutRestamps(c) ==
  /\ pc[c] = "put"
  /\ cache' = [cache EXCEPT ![Key(ref[c])] = [snapshot[c] EXCEPT !.fetchedAt = clock]]
  /\ floor' = IF NoOlderAnswer(c) THEN [floor EXCEPT ![Key(ref[c])] = snapshot[c].revision]
                                  ELSE floor
  /\ Return(c, "loaded", snapshot[c])
  /\ UNCHANGED <<clock, revision, ref, start>>

Put(c) ==
  /\ pc[c] = "put"
  /\ cache' = [cache EXCEPT ![Key(ref[c])] = snapshot[c]]
  /\ floor' = IF NoOlderAnswer(c) THEN [floor EXCEPT ![Key(ref[c])] = snapshot[c].revision]
                                  ELSE floor
  /\ Return(c, "loaded", snapshot[c])
  /\ UNCHANGED <<clock, revision, ref, start>>

(***************************************************************************)
(* Invalidate and Clear are one call of the cache each.  They take effect  *)
(* for good on the keys that no Load under way holds an answer for.        *)
(***************************************************************************)
RaisedFloor(k) == IF Holders(k) = {} THEN revision ELSE floor[k]

\* Mutant of Invalidate: the entry stays.
InvalidateNothing(c) ==
  \E r \in Refs :
    /\ pc[c] = "idle"
    /\ floor' = [floor EXCEPT ![Key(r)] = RaisedFloor(Key(r))]
    /\ UNCHANGED <<clock, revision, cache, pc, ref, snapshot, served, start>>

Invalidate(c) ==
  \E r \in Refs :
    /\ pc[c] = "idle"
    /\ cache' = [cache EXCEPT ![Key(r)] = NoSnapshot]
    /\ floor' = [floor EXCEPT ![Key(r)] = RaisedFloor(Key(r))]
    /\ UNCHANGED <<clock, revision, pc, ref, snapshot, served, start>>

Clear(c) ==
  /\ pc[c] = "idle"
  /\ cache' = [k \in Keys |-> NoSnapshot]
  /\ floor' = [k \in Keys |-> RaisedFloor(k)]
  /\ UNCHANGED <<clock, revision, pc, ref, snapshot, served, start>>

LoadStep(c) ==
  \/ Hit(c) \/ Miss(c) \/ ServeHit(c) \/ Expired(c) \/ EvictExpired(c)
  \/ UpstreamAnswers(c) \/ UpstreamFails(c) \/ StampAnswer(c) \/ Put(c)

Next ==
  \/ Tick \/ SchemaChange
  \/ \E c \in Callers : BeginLoad(c) \/ LoadStep(c) \/ Invalidate(c) \/ Clear(c)

Spec == Init /\ [][Next]_vars

(***************************************************************************)
(* The Go scheduler runs every goroutine, no method of the cache blocks    *)
(* for ever, and an upstream answers or fails (handlers give it a context  *)
(* with a deadline).                                                       *)
(***************************************************************************)
FairSpec == Spec /\ \A c \in Callers : WF_vars(LoadStep(c))

-----------------------------------------------------------------------------
(***************************************************************************)
(* The clock and the revisions stay in their bounds, and every snapshot in *)
(* the hands of a caller has its type.  What is cached or served is        *)
(* stamped: with a zero FetchedAt it would be expired from the start.      *)
(***************************************************************************)
TypeOK ==
  /\ clock \in 0..MaxClock
  /\ revision \in 0..MaxRevision
  /\ cache \in [Keys -> StampedSnapshot \cup {NoSnapshot}]
  /\ pc \in [Callers -> {"idle", "get", "check", "evict", "upstream", "answered", "put"}]
  /\ ref \in [Callers -> Refs]
  /\ snapshot \in [Callers -> Snapshot \cup {NoSnapshot}]
  /\ served \in [Callers -> [outcome : {"none", "hit", "loaded", "error"},
                             snapshot : StampedSnapshot \cup {NoSnapshot}, at : Nat]]
  /\ floor \in [Keys -> Nat]
  /\ start \in [Callers -> Nat]

(***************************************************************************)
(* Load never goes back in time: it returns no revision older than one     *)
(* that was cached, or invalidated, before it began, unless a Load that    *)
(* was already holding an older answer stored it in between.               *)
(***************************************************************************)
NoTimeTravel ==
  \A c \in Callers : served[c].outcome \in {"hit", "loaded"} =>
    served[c].snapshot.revision >= start[c]

(***************************************************************************)
(* Load answers for the reference it was asked for: the base table and the *)
(* namespace of one caller never reach another through a shared key.  A    *)
(* colon inside a name takes that guarantee from the keys it makes.        *)
(***************************************************************************)
HasColon(r) == Contains(r.namespace, ":") \/ Contains(r.table, ":")
Ambiguous(k) == \E r \in Refs : Key(r) = k /\ HasColon(r)

AnswersItsRef ==
  \A c \in Callers :
    served[c].outcome \in {"hit", "loaded"} /\ ~Ambiguous(Key(ref[c])) =>
      served[c].snapshot.of = Denotes(ref[c])

(***************************************************************************)
(* A hit is at most TTL older than the moment its answer came back from    *)
(* the upstream: serving an entry, or storing it late, never renews it.    *)
(***************************************************************************)
HitWithinTTL ==
  \A c \in Callers : TTL > 0 /\ served[c].outcome = "hit" =>
    served[c].at - served[c].snapshot.loadedAt <= TTL

(***************************************************************************)
(* Every Load returns.                                                     *)
(***************************************************************************)
LoadsReturn == \A c \in Callers : pc[c] = "get" ~> pc[c] = "idle"
=============================================================================
