------------------------- MODULE CatalogCacheProofs -------------------------
(***************************************************************************)
(* What the cache guarantees for every number of callers, references,      *)
(* revisions and clock values, and for every TTL.                          *)
(***************************************************************************)
EXTENDS CatalogCache, TLAPS

(***************************************************************************)
(* Only the places of a Load at which a snapshot is held say anything      *)
(* about it: a hit between Get and the age test ("check"), an answer that  *)
(* is stamped ("put").                                                     *)
(***************************************************************************)
TypeInv ==
  /\ TypeOK
  /\ \A c \in Callers :
       /\ pc[c] \in {"check", "put"} => snapshot[c] \in StampedSnapshot
       /\ pc[c] = "answered" => snapshot[c] \in Snapshot

LEMMA KeyType == \A r \in Refs : Key(r) \in Keys
  BY DEF Keys

LEMMA NoSnapshotType ==
  /\ NoSnapshot \notin Snapshot
  /\ NoSnapshot \notin StampedSnapshot
  /\ StampedSnapshot \subseteq Snapshot
  BY DEF NoSnapshot, Snapshot, StampedSnapshot, Unstamped

LEMMA InitTypeInv == Init => TypeInv
  BY BoundsAssumption, NoSnapshotType
     DEF Init, TypeInv, TypeOK, Nothing

LEMMA ReturnType ==
  ASSUME TypeInv, NEW c \in Callers, NEW outcome \in {"hit", "loaded", "error"},
         NEW s \in StampedSnapshot \cup {NoSnapshot}, Return(c, outcome, s)
  PROVE  /\ served' \in [Callers -> [outcome : {"none", "hit", "loaded", "error"},
                                     snapshot : StampedSnapshot \cup {NoSnapshot}, at : Nat]]
         /\ snapshot' \in [Callers -> Snapshot \cup {NoSnapshot}]
         /\ pc' = [pc EXCEPT ![c] = "idle"]
         /\ \A d \in Callers \ {c} : snapshot'[d] = snapshot[d]
  BY BoundsAssumption DEF TypeInv, TypeOK, Return, Goto

LEMMA TypeInvStep == TypeInv /\ [Next]_vars => TypeInv'
<1> SUFFICES ASSUME TypeInv, [Next]_vars PROVE TypeInv'
  OBVIOUS
<1> USE KeyType, NoSnapshotType, BoundsAssumption
<1>1. CASE Tick \/ SchemaChange
  BY <1>1 DEF Tick, SchemaChange, TypeInv, TypeOK
<1>2. ASSUME NEW c \in Callers, BeginLoad(c) PROVE TypeInv'
  BY <1>2 DEF BeginLoad, BeginCall, Goto, TypeInv, TypeOK, Nothing
<1>3. ASSUME NEW c \in Callers, Hit(c) PROVE TypeInv'
  BY <1>3 DEF Hit, Goto, TypeInv, TypeOK
<1>4. ASSUME NEW c \in Callers, Miss(c) \/ Expired(c) PROVE TypeInv'
  BY <1>4 DEF Miss, Expired, Goto, TypeInv, TypeOK
<1>5. ASSUME NEW c \in Callers, ServeHit(c) PROVE TypeInv'
  <2>1. snapshot[c] \in StampedSnapshot
    BY <1>5 DEF ServeHit, TypeInv
  <2>2. Return(c, "hit", snapshot[c])
    BY <1>5 DEF ServeHit
  <2> QED BY <1>5, <2>1, <2>2, ReturnType DEF ServeHit, TypeInv, TypeOK
<1>6. ASSUME NEW c \in Callers, EvictExpired(c) PROVE TypeInv'
  BY <1>6 DEF EvictExpired, Goto, TypeInv, TypeOK
<1>7. ASSUME NEW c \in Callers, UpstreamAnswers(c) PROVE TypeInv'
  <2>1. PICK stamp \in 0..clock \cup {Unstamped} :
          snapshot' = [snapshot EXCEPT ![c] =
            [of |-> Denotes(ref[c]), revision |-> revision, fetchedAt |-> stamp,
             loadedAt |-> -1]]
    BY <1>7 DEF UpstreamAnswers
  <2>2. [of |-> Denotes(ref[c]), revision |-> revision, fetchedAt |-> stamp,
         loadedAt |-> -1] \in Snapshot
    BY DEF Snapshot, TypeInv, TypeOK
  <2> QED BY <1>7, <2>1, <2>2 DEF UpstreamAnswers, Goto, TypeInv, TypeOK
<1>8. ASSUME NEW c \in Callers, UpstreamFails(c) PROVE TypeInv'
  <2>1. Return(c, "error", NoSnapshot)
    BY <1>8 DEF UpstreamFails
  <2> QED BY <1>8, <2>1, ReturnType DEF UpstreamFails, TypeInv, TypeOK
<1>9. ASSUME NEW c \in Callers, StampAnswer(c) PROVE TypeInv'
  <2>1. snapshot[c] \in Snapshot
    BY <1>9 DEF StampAnswer, TypeInv
  <2>2. snapshot'[c] \in StampedSnapshot
    <3> DEFINE stamp == IF snapshot[c].fetchedAt = Unstamped THEN clock
                                                             ELSE snapshot[c].fetchedAt
    <3>1. snapshot'[c] = [snapshot[c] EXCEPT !.loadedAt = clock, !.fetchedAt = stamp]
      BY <1>9, <2>1 DEF StampAnswer, TypeInv, TypeOK, Snapshot
    <3>2. stamp \in Nat /\ clock \in Nat
      BY <2>1 DEF TypeInv, TypeOK, Snapshot, Unstamped
    <3> HIDE DEF stamp
    <3> QED BY <2>1, <3>1, <3>2 DEF Snapshot, StampedSnapshot
  <2>3. \A d \in Callers \ {c} : snapshot'[d] = snapshot[d]
    BY <1>9 DEF StampAnswer, TypeInv, TypeOK
  <2>4. snapshot' \in [Callers -> Snapshot \cup {NoSnapshot}]
    <3>1. DOMAIN snapshot' = Callers
      BY <1>9 DEF StampAnswer, TypeInv, TypeOK
    <3>2. snapshot' = [d \in Callers |-> snapshot'[d]]
      BY <1>9 DEF StampAnswer, TypeInv, TypeOK
    <3> QED BY <2>2, <2>3, <3>1, <3>2 DEF TypeInv, TypeOK
  <2> QED BY <1>9, <2>2, <2>3, <2>4 DEF StampAnswer, Goto, TypeInv, TypeOK
<1>10. ASSUME NEW c \in Callers, Put(c) PROVE TypeInv'
  <2>1. snapshot[c] \in StampedSnapshot
    BY <1>10 DEF Put, TypeInv
  <2>2. Return(c, "loaded", snapshot[c])
    BY <1>10 DEF Put
  <2>3. floor' \in [Keys -> Nat] /\ cache' \in [Keys -> StampedSnapshot \cup {NoSnapshot}]
    BY <1>10, <2>1 DEF Put, TypeInv, TypeOK, StampedSnapshot
  <2> QED BY <1>10, <2>1, <2>2, <2>3, ReturnType DEF Put, TypeInv, TypeOK
<1>11. ASSUME NEW c \in Callers, Invalidate(c) \/ Clear(c) PROVE TypeInv'
  <2>1. floor' \in [Keys -> Nat] /\ cache' \in [Keys -> StampedSnapshot \cup {NoSnapshot}]
    BY <1>11 DEF Invalidate, Clear, RaisedFloor, TypeInv, TypeOK
  <2> QED BY <1>11, <2>1 DEF Invalidate, Clear, TypeInv, TypeOK
<1>12. CASE UNCHANGED vars
  BY <1>12 DEF vars, TypeInv, TypeOK
<1> QED
  BY <1>1, <1>2, <1>3, <1>4, <1>5, <1>6, <1>7, <1>8, <1>9, <1>10, <1>11, <1>12
     DEF Next, LoadStep

(***************************************************************************)
(* Whatever callers do to the shared provider, what is cached and what is  *)
(* served is a complete, stamped snapshot.                                 *)
(***************************************************************************)
THEOREM CacheTypeCorrect == Spec => []TypeOK
<1>1. Init => TypeInv
  BY InitTypeInv
<1>2. TypeInv /\ [Next]_vars => TypeInv'
  BY TypeInvStep
<1>3. TypeInv => TypeOK
  BY DEF TypeInv
<1> QED BY <1>1, <1>2, <1>3, PTL DEF Spec

-----------------------------------------------------------------------------
(***************************************************************************)
(* Time.  floor[k] bounds from below every revision that the cache holds   *)
(* for k or that a caller is about to store for k; a caller that found a   *)
(* hit holds a revision from after its own start, though Invalidate may    *)
(* have raised the floor since.                                            *)
(***************************************************************************)
Holding(c) == pc[c] \in {"answered", "put"}

TimeInv ==
  /\ \A k \in Keys :
       /\ floor[k] <= revision
       /\ cache[k] # NoSnapshot => floor[k] <= cache[k].revision
  /\ \A c \in Callers :
       /\ start[c] <= floor[Key(ref[c])]
       /\ Holding(c) => /\ floor[Key(ref[c])] <= snapshot[c].revision
                        /\ snapshot[c].revision <= revision
       /\ pc[c] = "check" => start[c] <= snapshot[c].revision
  /\ NoTimeTravel

LEMMA InitTimeInv == Init => TimeInv
  BY KeyType DEF Init, TimeInv, Holding, NoTimeTravel, Nothing

(***************************************************************************)
(* The floor of a key only rises.                                          *)
(***************************************************************************)
LEMMA RaisedFloorBounds ==
  ASSUME TypeInv, TimeInv, NEW k \in Keys
  PROVE  /\ RaisedFloor(k) \in Nat
         /\ floor[k] <= RaisedFloor(k)
         /\ RaisedFloor(k) <= revision
         /\ \A c \in Callers : Holding(c) /\ Key(ref[c]) = k => RaisedFloor(k) = floor[k]
<1>1. floor[k] \in Nat /\ revision \in Nat /\ floor[k] <= revision
  BY BoundsAssumption DEF TypeInv, TypeOK, TimeInv
<1>2. \A c \in Callers : Holding(c) /\ Key(ref[c]) = k => c \in Holders(k)
  BY DEF Holding, Holders
<1> QED BY <1>1, <1>2 DEF RaisedFloor

LEMMA TimeInvStep == TypeInv /\ TypeInv' /\ TimeInv /\ [Next]_vars => TimeInv'
<1> SUFFICES ASSUME TypeInv, TypeInv', TimeInv, [Next]_vars PROVE TimeInv'
  OBVIOUS
<1>raised. \A k \in Keys :
             /\ RaisedFloor(k) \in Nat
             /\ floor[k] <= RaisedFloor(k)
             /\ RaisedFloor(k) <= revision
             /\ \A c \in Callers : Holding(c) /\ Key(ref[c]) = k => RaisedFloor(k) = floor[k]
  BY RaisedFloorBounds
<1> USE KeyType, NoSnapshotType, BoundsAssumption DEF TypeInv, TypeOK
<1>0. /\ revision \in Nat
      /\ \A k \in Keys : floor[k] \in Nat
      /\ \A c \in Callers : /\ ref[c] \in Refs /\ Key(ref[c]) \in Keys
                            /\ start[c] \in Nat
  OBVIOUS
<1>1. CASE Tick \/ SchemaChange
  BY <1>0, <1>1 DEF Tick, SchemaChange, TimeInv, Holding, NoTimeTravel, Snapshot, StampedSnapshot
<1>2. ASSUME NEW c \in Callers, BeginLoad(c) PROVE TimeInv'
  BY <1>0, <1>2 DEF BeginLoad, BeginCall, Goto, TimeInv, Holding, NoTimeTravel, Nothing
<1>3. ASSUME NEW c \in Callers, Hit(c) PROVE TimeInv'
  <2>1. /\ start[c] <= floor[Key(ref[c])]
        /\ floor[Key(ref[c])] <= cache[Key(ref[c])].revision
        /\ cache[Key(ref[c])].revision \in Nat
    BY <1>0, <1>3 DEF Hit, TimeInv, StampedSnapshot
  <2> QED BY <1>0, <1>3, <2>1 DEF Hit, Goto, TimeInv, Holding, NoTimeTravel
<1>4. ASSUME NEW c \in Callers, Miss(c) \/ Expired(c) PROVE TimeInv'
  BY <1>4 DEF Miss, Expired, Goto, TimeInv, Holding, NoTimeTravel
<1>5. ASSUME NEW c \in Callers, ServeHit(c) PROVE TimeInv'
  BY <1>5 DEF ServeHit, Return, Goto, TimeInv, Holding, NoTimeTravel
<1>6. ASSUME NEW c \in Callers, EvictExpired(c) PROVE TimeInv'
  BY <1>6 DEF EvictExpired, Goto, TimeInv, Holding, NoTimeTravel
<1>7. ASSUME NEW c \in Callers, UpstreamAnswers(c) PROVE TimeInv'
  <2>1. snapshot'[c].revision = revision
    BY <1>7 DEF UpstreamAnswers
  <2>2. \A d \in Callers \ {c} : snapshot'[d] = snapshot[d]
    BY <1>7 DEF UpstreamAnswers
  <2> QED BY <1>0, <1>7, <2>1, <2>2
          DEF UpstreamAnswers, Goto, TimeInv, Holding, NoTimeTravel
<1>8. ASSUME NEW c \in Callers, UpstreamFails(c) PROVE TimeInv'
  BY <1>8 DEF UpstreamFails, Return, Goto, TimeInv, Holding, NoTimeTravel
<1>9. ASSUME NEW c \in Callers, StampAnswer(c) PROVE TimeInv'
  <2>1. snapshot'[c].revision = snapshot[c].revision
    BY <1>9 DEF StampAnswer, Snapshot
  <2>2. \A d \in Callers \ {c} : snapshot'[d] = snapshot[d]
    BY <1>9 DEF StampAnswer
  <2> QED BY <1>9, <2>1, <2>2 DEF StampAnswer, Goto, TimeInv, Holding, NoTimeTravel
<1>10. ASSUME NEW c \in Callers, Put(c) PROVE TimeInv'
  <2> DEFINE k == Key(ref[c])
             r == snapshot[c].revision
  <2>1. k \in Keys /\ r \in Nat /\ floor[k] <= r /\ r <= revision
    BY <1>0, <1>10 DEF Put, TimeInv, Holding, StampedSnapshot
  <2>2. floor'[k] = floor[k] \/ (floor'[k] = r /\ NoOlderAnswer(c))
    BY <2>1, <1>10 DEF Put
  <2>3. \A j \in Keys \ {k} : floor'[j] = floor[j] /\ cache'[j] = cache[j]
    BY <1>10 DEF Put
  <2>4. cache'[k] = snapshot[c] /\ floor[k] <= floor'[k] /\ floor'[k] <= r
    BY <1>10, <2>1, <2>2 DEF Put
  <2>5. \A d \in Callers \ {c} : Holding(d) /\ Key(ref[d]) = k =>
                                 floor'[k] <= snapshot[d].revision
    BY <1>0, <2>1, <2>2 DEF TimeInv, Holding, NoOlderAnswer, Holders
  <2>6. start[c] <= r
    BY <1>0, <2>1 DEF TimeInv
  <2>7. /\ served' = [served EXCEPT ![c] = [outcome |-> "loaded", snapshot |-> snapshot[c],
                                           at |-> clock]]
        /\ pc' = [pc EXCEPT ![c] = "idle"]
        /\ \A d \in Callers \ {c} : snapshot'[d] = snapshot[d]
        /\ UNCHANGED <<revision, ref, start>>
    BY <1>10 DEF Put, Return, Goto
  <2> HIDE DEF k, r
  <2>8. (\A j \in Keys : /\ floor[j] <= revision
                         /\ cache[j] # NoSnapshot => floor[j] <= cache[j].revision)'
    BY <1>0, <2>1, <2>3, <2>4, <2>7 DEF TimeInv, r
  <2>9. \A d \in Callers : start'[d] <= floor'[Key(ref'[d])]
    BY <1>0, <2>1, <2>3, <2>4, <2>7 DEF TimeInv
  <2>10. \A d \in Callers \ {c} :
           /\ Holding(d)' => /\ floor'[Key(ref'[d])] <= snapshot'[d].revision
                             /\ snapshot'[d].revision <= revision'
           /\ pc'[d] = "check" => start'[d] <= snapshot'[d].revision
    BY <1>0, <2>3, <2>5, <2>7 DEF TimeInv, Holding
  <2>11. ~Holding(c)' /\ pc'[c] # "check"
    BY <2>7 DEF Holding
  <2>12. NoTimeTravel'
    BY <2>6, <2>7 DEF TimeInv, NoTimeTravel, r
  <2> QED BY <2>8, <2>9, <2>10, <2>11, <2>12 DEF TimeInv
<1>11. ASSUME NEW c \in Callers, Invalidate(c) \/ Clear(c) PROVE TimeInv'
  <2>1. \A k \in Keys : /\ floor'[k] \in {floor[k], RaisedFloor(k)}
                        /\ cache'[k] = NoSnapshot \/ (cache'[k] = cache[k] /\ floor'[k] = floor[k])
    <3>1. CASE Clear(c)
      BY <3>1 DEF Clear
    <3>2. ASSUME NEW r \in Refs,
                 cache' = [cache EXCEPT ![Key(r)] = NoSnapshot],
                 floor' = [floor EXCEPT ![Key(r)] = RaisedFloor(Key(r))]
          PROVE  \A k \in Keys :
                   /\ floor'[k] \in {floor[k], RaisedFloor(k)}
                   /\ cache'[k] = NoSnapshot \/ (cache'[k] = cache[k] /\ floor'[k] = floor[k])
      <4> HIDE DEF TypeInv
      <4>1. Key(r) \in Keys /\ cache \in [Keys -> StampedSnapshot \cup {NoSnapshot}]
                            /\ floor \in [Keys -> Nat]
        BY DEF TypeInv
      <4> SUFFICES ASSUME NEW k \in Keys
                   PROVE  /\ floor'[k] \in {floor[k], RaisedFloor(k)}
                          /\ \/ cache'[k] = NoSnapshot
                             \/ cache'[k] = cache[k] /\ floor'[k] = floor[k]
        OBVIOUS
      <4>2. CASE k = Key(r)
        BY <3>2, <4>1, <4>2
      <4>3. CASE k # Key(r)
        BY <3>2, <4>1, <4>3
      <4> QED BY <4>2, <4>3
    <3>3. CASE Invalidate(c)
      <4>1. PICK r \in Refs :
              /\ cache' = [cache EXCEPT ![Key(r)] = NoSnapshot]
              /\ floor' = [floor EXCEPT ![Key(r)] = RaisedFloor(Key(r))]
        BY <3>3 DEF Invalidate
      <4> QED BY <3>2, <4>1
    <3> QED BY <1>11, <3>1, <3>3
  <2>2. \A k \in Keys : floor[k] <= floor'[k] /\ floor'[k] <= revision
    <3> SUFFICES ASSUME NEW k \in Keys
                 PROVE  floor[k] <= floor'[k] /\ floor'[k] <= revision
      OBVIOUS
    <3>1. floor'[k] \in {floor[k], RaisedFloor(k)}
      BY <2>1
    <3>2. floor[k] \in Nat /\ floor[k] <= revision
      BY <1>0 DEF TimeInv
    <3>3. floor[k] <= RaisedFloor(k) /\ RaisedFloor(k) <= revision
      BY <1>raised
    <3> QED BY <3>1, <3>2, <3>3
  <2>3. \A d \in Callers : Holding(d) => floor'[Key(ref[d])] = floor[Key(ref[d])]
    BY <1>0, <2>1, <1>raised
  <2>4. UNCHANGED <<revision, pc, ref, snapshot, served, start>>
    BY <1>11 DEF Invalidate, Clear
  <2> QED BY <1>0, <2>1, <2>2, <2>3, <2>4 DEF TimeInv, Holding, NoTimeTravel
<1>12. CASE UNCHANGED vars
  BY <1>12 DEF vars, TimeInv, Holding, NoTimeTravel
<1> QED
  BY <1>1, <1>2, <1>3, <1>4, <1>5, <1>6, <1>7, <1>8, <1>9, <1>10, <1>11, <1>12
     DEF Next, LoadStep

(***************************************************************************)
(* No Load returns a revision older than one that was settled when it      *)
(* began, however callers, invalidations and schema changes interleave.    *)
(***************************************************************************)
THEOREM LoadsDoNotTravelInTime == Spec => []NoTimeTravel
<1>1. Init => TypeInv /\ TimeInv
  BY InitTypeInv, InitTimeInv
<1>2. TypeInv /\ TimeInv /\ [Next]_vars => (TypeInv /\ TimeInv)'
  BY TypeInvStep, TimeInvStep
<1>3. TimeInv => NoTimeTravel
  BY DEF TimeInv
<1> QED BY <1>1, <1>2, <1>3, PTL DEF Spec

-----------------------------------------------------------------------------
(***************************************************************************)
(* Keys.  Where no name holds a colon, the only colon of a key is the one  *)
(* that Key puts there, so two references with one key are the same.       *)
(***************************************************************************)
LEMMA JoinedByColon ==
  ASSUME NEW a \in Names, NEW b \in Names
  PROVE  LET key == a \o <<":">> \o b
         IN  /\ Len(a) \in Nat /\ Len(b) \in Nat /\ Len(key) = Len(a) + 1 + Len(b)
             /\ \A i \in 1..Len(a) : key[i] = a[i]
             /\ key[Len(a) + 1] = ":"
             /\ \A i \in 1..Len(b) : key[Len(a) + 1 + i] = b[i]
<1> DEFINE left == a \o <<":">>
<1>a. a \in Seq(Pieces) /\ b \in Seq(Pieces)
  BY DEF Names
<1>b. <<":">> \in Seq(Pieces) /\ Len(<<":">>) = 1 /\ <<":">>[1] = ":"
  BY RefsAssumption
<1>0. a \in Seq(Pieces) /\ b \in Seq(Pieces) /\ <<":">> \in Seq(Pieces)
  BY <1>a, <1>b
<1>1. /\ left \in Seq(Pieces) /\ Len(left) = Len(a) + 1
      /\ \A i \in 1..Len(a) : left[i] = a[i]
      /\ left[Len(a) + 1] = ":"
  BY <1>0, <1>b
<1> HIDE DEF left
<1>2. /\ Len(left \o b) = Len(left) + Len(b)
      /\ \A i \in 1..Len(left) : (left \o b)[i] = left[i]
      /\ \A i \in 1..Len(b) : (left \o b)[Len(left) + i] = b[i]
  BY <1>0, <1>1
<1>3. Len(a) \in Nat /\ Len(b) \in Nat
  BY <1>0
<1> QED BY <1>1, <1>2, <1>3 DEF left

(***************************************************************************)
(* Two names that join to one key are the same, if the left ones hold no   *)
(* colon.                                                                  *)
(***************************************************************************)
LEMMA OneWayToSplit ==
  ASSUME NEW a \in Names, NEW b \in Names, NEW c \in Names, NEW d \in Names,
         ~Contains(a, ":"), ~Contains(c, ":"),
         a \o <<":">> \o b = c \o <<":">> \o d
  PROVE  a = c /\ b = d
<1> DEFINE key == a \o <<":">> \o b
<1>1. /\ Len(a) \in Nat /\ Len(b) \in Nat /\ Len(key) = Len(a) + 1 + Len(b)
      /\ \A i \in 1..Len(a) : key[i] = a[i]
      /\ key[Len(a) + 1] = ":"
      /\ \A i \in 1..Len(b) : key[Len(a) + 1 + i] = b[i]
  BY JoinedByColon
<1>0. key = c \o <<":">> \o d
  OBVIOUS
<1>2. /\ Len(c) \in Nat /\ Len(d) \in Nat /\ Len(key) = Len(c) + 1 + Len(d)
      /\ \A i \in 1..Len(c) : key[i] = c[i]
      /\ key[Len(c) + 1] = ":"
      /\ \A i \in 1..Len(d) : key[Len(c) + 1 + i] = d[i]
  <2> HIDE DEF key
  <2> QED BY <1>0, JoinedByColon
<1> HIDE DEF key
<1>3. ~(Len(a) < Len(c)) /\ ~(Len(c) < Len(a))
  <2>1. \A i \in 1..Len(a) : a[i] # ":"
    BY DEF Contains
  <2>2. \A i \in 1..Len(c) : c[i] # ":"
    BY DEF Contains
  <2>3. ASSUME Len(a) < Len(c) PROVE FALSE
    <3>1. Len(a) + 1 \in 1..Len(c)
      BY <1>1, <1>2, <2>3
    <3> QED BY <1>1, <1>2, <2>2, <3>1
  <2>4. ASSUME Len(c) < Len(a) PROVE FALSE
    <3>1. Len(c) + 1 \in 1..Len(a)
      BY <1>1, <1>2, <2>4
    <3> QED BY <1>1, <1>2, <2>1, <3>1
  <2> QED BY <2>3, <2>4
<1>4. Len(a) = Len(c) /\ Len(b) = Len(d)
  BY <1>1, <1>2, <1>3
<1>5. a \in Seq(Pieces) /\ b \in Seq(Pieces) /\ c \in Seq(Pieces) /\ d \in Seq(Pieces)
  BY DEF Names
<1>6. \A i \in 1..Len(a) : a[i] = c[i]
  BY <1>1, <1>2, <1>4
<1>7. \A i \in 1..Len(b) : b[i] = d[i]
  BY <1>1, <1>2, <1>4
<1>8. a = c
  BY <1>4, <1>5, <1>6
<1>9. b = d
  BY <1>4, <1>5, <1>7
<1> QED BY <1>8, <1>9

LEMMA KeyDenotes ==
  \A r, s \in Refs :
    Key(r) = Key(s) /\ ~HasColon(r) /\ ~HasColon(s) => Denotes(r) = Denotes(s)
<1> SUFFICES ASSUME NEW r \in Refs, NEW s \in Refs, Key(r) = Key(s),
                    ~HasColon(r), ~HasColon(s)
             PROVE  r = s
  OBVIOUS
<1>type. /\ r \in [namespace : Names, table : Names]
         /\ s \in [namespace : Names, table : Names]
  BY RefsAssumption
<1>1. ASSUME NEW p \in Refs, NEW q \in Refs, Key(p) = Key(q), ~HasColon(p),
             p.namespace = << >>, q.namespace # << >>
      PROVE  FALSE
  <2>1. p.table \in Names /\ q.namespace \in Names /\ q.table \in Names
    BY RefsAssumption
  <2>2. p.table = q.namespace \o <<":">> \o q.table
    BY <1>1 DEF Key
  <2>3. Len(q.namespace) + 1 \in 1..Len(p.table) /\ p.table[Len(q.namespace) + 1] = ":"
    <3> DEFINE n == Len(q.namespace)
    <3>1. n \in Nat /\ Len(q.table) \in Nat /\ Len(p.table) = n + 1 + Len(q.table)
      BY <2>1, <2>2, JoinedByColon
    <3>2. p.table[n + 1] = ":"
      BY <2>1, <2>2, JoinedByColon
    <3>3. ASSUME NEW i \in Nat, NEW j \in Nat PROVE i + 1 \in 1..(i + 1 + j)
      OBVIOUS
    <3> QED BY <3>1, <3>2, <3>3
  <2> QED BY <1>1, <2>3 DEF HasColon, Contains
<1>2. (r.namespace = << >>) <=> (s.namespace = << >>)
  BY <1>1
<1>3. CASE r.namespace = << >>
  <2>1. s.namespace = << >>
    BY <1>2, <1>3
  <2>2. r.table = s.table
    BY <1>3, <2>1 DEF Key
  <2> QED BY <1>type, <1>3, <2>1, <2>2
<1>4. CASE r.namespace # << >>
  <2>1. r.namespace \o <<":">> \o r.table = s.namespace \o <<":">> \o s.table
    BY <1>2, <1>4 DEF Key
  <2>2. r.namespace = s.namespace /\ r.table = s.table
    BY <1>type, <2>1, OneWayToSplit DEF HasColon
  <2> QED BY <1>type, <2>2
<1> QED BY <1>3, <1>4

(***************************************************************************)
(* What is cached for a reference, or held for it, answers it.             *)
(***************************************************************************)
Answers(s, r) == Ambiguous(Key(r)) \/ s.of = Denotes(r)

RefInv ==
  /\ \A r \in Refs : cache[Key(r)] # NoSnapshot => Answers(cache[Key(r)], r)
  /\ \A c \in Callers : pc[c] = "check" \/ Holding(c) => Answers(snapshot[c], ref[c])
  /\ AnswersItsRef

LEMMA RefInvStep == TypeInv /\ RefInv /\ [Next]_vars => RefInv'
<1> SUFFICES ASSUME TypeInv, RefInv, [Next]_vars PROVE RefInv'
  OBVIOUS
<1>same. ASSUME NEW r \in Refs, NEW s \in Refs, NEW t, Key(r) = Key(s), Answers(t, r)
         PROVE  Answers(t, s)
  BY <1>same, KeyDenotes DEF Answers, Ambiguous
<1> USE KeyType DEF TypeInv, TypeOK
<1>1. CASE Tick \/ SchemaChange \/ UNCHANGED vars
  BY <1>1 DEF Tick, SchemaChange, vars, RefInv, Holding, AnswersItsRef
<1>2. ASSUME NEW c \in Callers, BeginLoad(c) PROVE RefInv'
  BY <1>2 DEF BeginLoad, BeginCall, Goto, RefInv, Holding, AnswersItsRef, Nothing
<1>3. ASSUME NEW c \in Callers, Hit(c) PROVE RefInv'
  <2>1. Answers(cache[Key(ref[c])], ref[c])
    BY <1>3 DEF Hit, RefInv
  <2>2. snapshot' = [snapshot EXCEPT ![c] = cache[Key(ref[c])]]
    BY <1>3 DEF Hit
  <2>3. /\ snapshot'[c] = cache[Key(ref[c])]
        /\ \A d \in Callers \ {c} : snapshot'[d] = snapshot[d] /\ pc'[d] = pc[d]
        /\ UNCHANGED <<cache, ref, served>>
    BY <1>3, <2>2 DEF Hit, Goto
  <2>4. \A d \in Callers : pc'[d] = "check" \/ Holding(d)' => Answers(snapshot'[d], ref'[d])
    <3> SUFFICES ASSUME NEW d \in Callers, pc'[d] = "check" \/ Holding(d)'
                 PROVE  Answers(snapshot'[d], ref'[d])
      OBVIOUS
    <3>0. ref'[d] = ref[d]
      BY <2>3
    <3>1. CASE d = c
      BY <2>1, <2>3, <3>0, <3>1
    <3>2. CASE d # c
      BY <2>3, <3>0, <3>2 DEF RefInv, Holding
    <3> QED BY <3>1, <3>2
  <2>5. AnswersItsRef'
    BY <2>3 DEF RefInv, AnswersItsRef, Answers
  <2>6. \A r \in Refs : cache'[Key(r)] # NoSnapshot => Answers(cache'[Key(r)], r)
    BY <2>3 DEF RefInv
  <2> HIDE DEF TypeInv
  <2> QED BY <2>4, <2>5, <2>6 DEF RefInv
<1>4. ASSUME NEW c \in Callers, Miss(c) \/ Expired(c) PROVE RefInv'
  BY <1>4 DEF Miss, Expired, Goto, RefInv, Holding, AnswersItsRef
<1>5. ASSUME NEW c \in Callers, ServeHit(c) \/ UpstreamFails(c) PROVE RefInv'
  <2>1. PICK s : /\ served' = [served EXCEPT ![c] = s]
                 /\ s.outcome = "error" \/ Answers(s.snapshot, ref[c])
    BY <1>5 DEF ServeHit, UpstreamFails, Return, RefInv
  <2>2. /\ pc' = [pc EXCEPT ![c] = "idle"]
        /\ \A d \in Callers \ {c} : snapshot'[d] = snapshot[d]
        /\ UNCHANGED <<cache, ref>>
    BY <1>5 DEF ServeHit, UpstreamFails, Return, Goto
  <2>3. AnswersItsRef'
    BY <2>1, <2>2 DEF RefInv, AnswersItsRef, Answers
  <2> QED BY <2>2, <2>3 DEF RefInv, Holding
<1>6. ASSUME NEW c \in Callers, EvictExpired(c) PROVE RefInv'
  BY <1>6 DEF EvictExpired, Goto, RefInv, Holding, AnswersItsRef
<1>7. ASSUME NEW c \in Callers, UpstreamAnswers(c) PROVE RefInv'
  <2>1. Answers(snapshot'[c], ref[c])
    BY <1>7 DEF UpstreamAnswers, Answers
  <2>2. \A d \in Callers \ {c} : snapshot'[d] = snapshot[d]
    BY <1>7 DEF UpstreamAnswers
  <2> QED BY <1>7, <2>1, <2>2 DEF UpstreamAnswers, Goto, RefInv, Holding, AnswersItsRef
<1>8. ASSUME NEW c \in Callers, StampAnswer(c) PROVE RefInv'
  <2>1. snapshot'[c].of = snapshot[c].of
    BY <1>8 DEF StampAnswer, Snapshot
  <2>2. \A d \in Callers \ {c} : snapshot'[d] = snapshot[d]
    BY <1>8 DEF StampAnswer
  <2> QED BY <1>8, <2>1, <2>2 DEF StampAnswer, Goto, RefInv, Holding, AnswersItsRef, Answers
<1>9. ASSUME NEW c \in Callers, Put(c) PROVE RefInv'
  <2>1. Answers(snapshot[c], ref[c]) /\ ref[c] \in Refs
    BY <1>9 DEF Put, RefInv, Holding
  <2>2. \A r \in Refs : cache'[Key(r)] # NoSnapshot => Answers(cache'[Key(r)], r)
    <3> SUFFICES ASSUME NEW r \in Refs, cache'[Key(r)] # NoSnapshot
                 PROVE  Answers(cache'[Key(r)], r)
      OBVIOUS
    <3>1. CASE Key(r) = Key(ref[c])
      BY <1>9, <2>1, <3>1, <1>same DEF Put
    <3>2. CASE Key(r) # Key(ref[c])
      BY <1>9, <3>2 DEF Put, RefInv
    <3> QED BY <3>1, <3>2
  <2>3. /\ served' = [served EXCEPT ![c] = [outcome |-> "loaded", snapshot |-> snapshot[c],
                                           at |-> clock]]
        /\ pc' = [pc EXCEPT ![c] = "idle"]
        /\ \A d \in Callers \ {c} : snapshot'[d] = snapshot[d]
        /\ UNCHANGED ref
    BY <1>9 DEF Put, Return, Goto
  <2>4. AnswersItsRef'
    BY <2>1, <2>3 DEF RefInv, AnswersItsRef, Answers
  <2> QED BY <2>2, <2>3, <2>4 DEF RefInv, Holding
<1>10. ASSUME NEW c \in Callers, Invalidate(c) \/ Clear(c) PROVE RefInv'
  <2>1. \A r \in Refs : cache'[Key(r)] \in {cache[Key(r)], NoSnapshot}
    BY <1>10 DEF Invalidate, Clear
  <2> QED BY <1>10, <2>1 DEF Invalidate, Clear, RefInv, Holding, AnswersItsRef
<1> QED
  BY <1>1, <1>2, <1>3, <1>4, <1>5, <1>6, <1>7, <1>8, <1>9, <1>10 DEF Next, LoadStep

(***************************************************************************)
(* A shared cache never answers one reference with the snapshot of         *)
(* another, unless a name with a colon makes its key ambiguous.            *)
(***************************************************************************)
THEOREM LoadsAnswerTheirRef == Spec => []AnswersItsRef
<1>1. Init => TypeInv /\ RefInv
  BY InitTypeInv, KeyType DEF Init, RefInv, Holding, AnswersItsRef, Nothing
<1>2. TypeInv /\ RefInv /\ [Next]_vars => (TypeInv /\ RefInv)'
  BY TypeInvStep, RefInvStep
<1>3. RefInv => AnswersItsRef
  BY DEF RefInv
<1> QED BY <1>1, <1>2, <1>3, PTL DEF Spec

-----------------------------------------------------------------------------
(***************************************************************************)
(* Age.  A stamp is never later than the moment the answer came back, so   *)
(* what the age test accepts is at most TTL old.                           *)
(***************************************************************************)
AgeInv ==
  /\ \A k \in Keys : cache[k] # NoSnapshot => cache[k].fetchedAt <= cache[k].loadedAt
  /\ \A c \in Callers :
       /\ pc[c] \in {"check", "put"} => snapshot[c].fetchedAt <= snapshot[c].loadedAt
       /\ pc[c] = "answered" => snapshot[c].fetchedAt <= clock
  /\ HitWithinTTL

LEMMA AgeInvStep == TypeInv /\ AgeInv /\ [Next]_vars => AgeInv'
<1> SUFFICES ASSUME TypeInv, AgeInv, [Next]_vars PROVE AgeInv'
  OBVIOUS
<1> USE KeyType, BoundsAssumption DEF TypeInv, TypeOK
<1>1. CASE Tick
  <2>1. clock \in Nat /\ clock' = clock + 1
    BY <1>1 DEF Tick
  <2>2. \A c \in Callers : pc[c] = "answered" => snapshot[c].fetchedAt \in Int
    BY DEF Snapshot, Unstamped
  <2> QED BY <1>1, <2>1, <2>2 DEF Tick, AgeInv, HitWithinTTL
<1>2. CASE SchemaChange \/ UNCHANGED vars
  BY <1>2 DEF SchemaChange, vars, AgeInv, HitWithinTTL
<1>3. ASSUME NEW c \in Callers, BeginLoad(c) PROVE AgeInv'
  BY <1>3 DEF BeginLoad, BeginCall, Goto, AgeInv, HitWithinTTL, Nothing
<1>4. ASSUME NEW c \in Callers, Hit(c) PROVE AgeInv'
  <2>1. cache[Key(ref[c])].fetchedAt <= cache[Key(ref[c])].loadedAt
    BY <1>4 DEF Hit, AgeInv
  <2> QED BY <1>4, <2>1 DEF Hit, Goto, AgeInv, HitWithinTTL
<1>5. ASSUME NEW c \in Callers, Miss(c) \/ Expired(c) PROVE AgeInv'
  BY <1>5 DEF Miss, Expired, Goto, AgeInv, HitWithinTTL
<1>6. ASSUME NEW c \in Callers, ServeHit(c) \/ UpstreamFails(c) PROVE AgeInv'
  <2>1. /\ \A d \in Callers \ {c} : served'[d] = served[d]
        /\ TTL > 0 /\ served'[c].outcome = "hit" =>
             served'[c].at - served'[c].snapshot.loadedAt <= TTL
    <3>1. CASE UpstreamFails(c)
      BY <3>1 DEF UpstreamFails, Return
    <3>2. CASE ServeHit(c)
      <4>1. snapshot[c] \in StampedSnapshot /\ snapshot[c].fetchedAt <= snapshot[c].loadedAt
        BY <3>2 DEF ServeHit, AgeInv
      <4>2. TTL > 0 => clock - snapshot[c].fetchedAt <= TTL
        BY <3>2 DEF ServeHit, Fresh
      <4>3. snapshot[c].fetchedAt \in Nat /\ snapshot[c].loadedAt \in Nat /\ clock \in Nat
        BY <4>1 DEF StampedSnapshot
      <4>4. TTL > 0 => clock - snapshot[c].loadedAt <= TTL
        BY <4>1, <4>2, <4>3
      <4>5. served' = [served EXCEPT ![c] =
              [outcome |-> "hit", snapshot |-> snapshot[c], at |-> clock]]
        BY <3>2 DEF ServeHit, Return
      <4> QED BY <4>4, <4>5
    <3> QED BY <1>6, <3>1, <3>2
  <2>2. /\ pc' = [pc EXCEPT ![c] = "idle"]
        /\ \A d \in Callers \ {c} : snapshot'[d] = snapshot[d]
        /\ UNCHANGED <<cache, clock>>
    BY <1>6 DEF ServeHit, UpstreamFails, Return, Goto
  <2>3. HitWithinTTL'
    BY <2>1, <2>2 DEF AgeInv, HitWithinTTL
  <2> QED BY <2>2, <2>3 DEF AgeInv
<1>7. ASSUME NEW c \in Callers, EvictExpired(c) PROVE AgeInv'
  BY <1>7 DEF EvictExpired, Goto, AgeInv, HitWithinTTL
<1>8. ASSUME NEW c \in Callers, UpstreamAnswers(c) PROVE AgeInv'
  <2>1. snapshot'[c].fetchedAt <= clock
    BY <1>8 DEF UpstreamAnswers, Unstamped
  <2>2. \A d \in Callers \ {c} : snapshot'[d] = snapshot[d]
    BY <1>8 DEF UpstreamAnswers
  <2> QED BY <1>8, <2>1, <2>2 DEF UpstreamAnswers, Goto, AgeInv, HitWithinTTL
<1>9. ASSUME NEW c \in Callers, StampAnswer(c) PROVE AgeInv'
  <2>1. snapshot'[c].fetchedAt <= snapshot'[c].loadedAt
    <3>1. snapshot[c] \in Snapshot /\ snapshot[c].fetchedAt <= clock
      BY <1>9 DEF StampAnswer, AgeInv
    <3>2. snapshot'[c].loadedAt = clock /\ snapshot'[c].fetchedAt \in {clock, snapshot[c].fetchedAt}
      BY <1>9, <3>1 DEF StampAnswer, Snapshot
    <3> QED BY <3>1, <3>2
  <2>2. \A d \in Callers \ {c} : snapshot'[d] = snapshot[d]
    BY <1>9 DEF StampAnswer
  <2> QED BY <1>9, <2>1, <2>2 DEF StampAnswer, Goto, AgeInv, HitWithinTTL
<1>10. ASSUME NEW c \in Callers, Put(c) PROVE AgeInv'
  <2>1. snapshot[c].fetchedAt <= snapshot[c].loadedAt
    BY <1>10 DEF Put, AgeInv
  <2>2. \A k \in Keys : cache'[k] \in {cache[k], snapshot[c]}
    BY <1>10 DEF Put
  <2>3. /\ served' = [served EXCEPT ![c] = [outcome |-> "loaded", snapshot |-> snapshot[c],
                                           at |-> clock]]
        /\ pc' = [pc EXCEPT ![c] = "idle"]
        /\ \A d \in Callers \ {c} : snapshot'[d] = snapshot[d]
        /\ UNCHANGED clock
    BY <1>10 DEF Put, Return, Goto
  <2>4. HitWithinTTL'
    BY <2>3 DEF AgeInv, HitWithinTTL
  <2> QED BY <2>1, <2>2, <2>3, <2>4 DEF AgeInv
<1>11. ASSUME NEW c \in Callers, Invalidate(c) \/ Clear(c) PROVE AgeInv'
  <2>1. \A k \in Keys : cache'[k] \in {cache[k], NoSnapshot}
    BY <1>11 DEF Invalidate, Clear
  <2> QED BY <1>11, <2>1 DEF Invalidate, Clear, AgeInv, HitWithinTTL
<1> QED
  BY <1>1, <1>2, <1>3, <1>4, <1>5, <1>6, <1>7, <1>8, <1>9, <1>10, <1>11 DEF Next, LoadStep

(***************************************************************************)
(* With a positive TTL a hit is never older than it: no path through the   *)
(* cache renews an entry.                                                  *)
(***************************************************************************)
THEOREM HitsAreYoung == Spec => []HitWithinTTL
<1>1. Init => TypeInv /\ AgeInv
  BY InitTypeInv DEF Init, AgeInv, HitWithinTTL, Nothing
<1>2. TypeInv /\ AgeInv /\ [Next]_vars => (TypeInv /\ AgeInv)'
  BY TypeInvStep, AgeInvStep
<1>3. AgeInv => HitWithinTTL
  BY DEF AgeInv
<1> QED BY <1>1, <1>2, <1>3, PTL DEF Spec
=============================================================================
