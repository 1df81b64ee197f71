----------------------------- MODULE MotorsProofs -----------------------------
(***************************************************************************)
(* Proofs about Motors.                                                    *)
(***************************************************************************)
EXTENDS Motors, SequenceLemmas

(***************************************************************************)
(* What travels between the client and the server.                         *)
(***************************************************************************)
Registration == {Msg(c, m, None) : c \in {"REGISTER", "UNREGISTER"}, m \in Motors}
Reading == {Msg("CHAN_READ", m, t) : m \in Motors, t \in Waits}
Starting == {StartOne(m, t) : m \in Motors, t \in Moves \cup Syncs}
Bracket == {Prestart, StartAll, AbortAll}
Message == Registration \cup Reading \cup Starting \cup Bracket

Notice == [command : {"EVENT"}, property : Motors, value : BOOLEAN,
           by : Tasks \cup Motors \cup {None}]
          \cup [command : {"REPLY"}, property : Motors, value : BOOLEAN, by : Waits]

WireOK == requests \in Seq(Message) /\ events \in Seq(Notice)

(***************************************************************************)
(* Entering and leaving contexts.                                          *)
(***************************************************************************)
LEMMA StreamFacts ==
  /\ \A m \in Motors : /\ Moving(m) \in MotorStreams /\ Synced(m) \in MotorStreams
                       /\ StreamMotor(Moving(m)) = m /\ StreamMotor(Synced(m)) = m
  /\ \A m, n \in Motors : /\ Moving(m) # Synced(n)
                          /\ Moving(m) = Moving(n) => m = n
                          /\ Synced(m) = Synced(n) => m = n
BY DEF MotorStreams, Moving, Synced, StreamMotor

\* One context on Motor.moving.
LEMMA EnterMoving ==
  ASSUME StreamTypeOK, WireOK, NEW m \in Motors, NEW o \in Tasks \cup Motors,
         NEW more \in Seq(Message), Enter(o, <<Moving(m)>>, more)
  PROVE  /\ depth' = [depth EXCEPT ![Moving(m)] = @ + 1]
         /\ listening' = IF depth[Moving(m)] = 0
                           THEN [listening EXCEPT ![Moving(m)] = @ \cup {o}] ELSE listening
         /\ watchers' = [watchers EXCEPT ![m] = @ + 1]
         /\ initialized' = initialized \ {<<o, Moving(m)>>}
         /\ requests' = requests
                \o (IF watchers[m] = 0 THEN <<Msg("REGISTER", m, None)>> ELSE <<>>) \o more
         /\ depth' \in [MotorStreams -> Nat] /\ watchers' \in [Motors -> Nat]
         /\ listening' \in [MotorStreams -> SUBSET (Tasks \cup Motors)]
         /\ initialized' \subseteq (Tasks \cup Motors) \X MotorStreams
         /\ requests' \in Seq(Message)
<1>1. PICK s : s = Moving(m)
  OBVIOUS
<1>2. /\ Range(<<s>>) = {s}
      /\ s \in MotorStreams /\ StreamMotor(s) = m
  BY <1>1, StreamFacts DEF Range
<1>3. PICK register : register = IF watchers[m] = 0 THEN <<Msg("REGISTER", m, None)>> ELSE <<>>
  OBVIOUS
<1>4. /\ depth' = [x \in MotorStreams |-> IF x \in {s} THEN depth[x] + 1 ELSE depth[x]]
      /\ listening' = [x \in MotorStreams |-> IF x \in {s} /\ depth[x] = 0
                                                THEN listening[x] \cup {o} ELSE listening[x]]
      /\ initialized' = initialized \ ({o} \X {s})
      /\ watchers' = [p \in Motors |->
            watchers[p] + Cardinality({x \in {s} : StreamMotor(x) = p})]
  BY <1>1, <1>2 DEF Enter
<1>5. depth' = [depth EXCEPT ![s] = @ + 1]
  BY <1>2, <1>4 DEF StreamTypeOK
<1>6. listening' = IF depth[s] = 0 THEN [listening EXCEPT ![s] = @ \cup {o}] ELSE listening
  BY <1>2, <1>4 DEF StreamTypeOK
<1>7. watchers' = [watchers EXCEPT ![m] = @ + 1]
  <2>1. ASSUME NEW p \in Motors, p # m PROVE watchers'[p] = watchers[p]
    <3>1. {x \in {s} : StreamMotor(x) = p} = {}
      BY <1>2, <2>1
    <3>2. Cardinality({x \in {s} : StreamMotor(x) = p}) = 0
      BY <3>1, FS_EmptySet
    <3>3. watchers'[p] = watchers[p] + 0 /\ watchers[p] \in Nat
      BY <1>4, <3>2 DEF StreamTypeOK
    <3>. QED
      BY <3>3
  <2>2. watchers'[m] = watchers[m] + 1
    <3>1. {x \in {s} : StreamMotor(x) = m} = {s}
      BY <1>2
    <3>. QED
      BY <1>4, <3>1, FS_Singleton
  <2>3. watchers' = [p \in Motors |-> watchers'[p]]
    BY <1>4
  <2>. QED
    BY <2>1, <2>2, <2>3 DEF StreamTypeOK
<1>8. initialized' = initialized \ {<<o, s>>}
  BY <1>4
<1>9. requests' = requests \o register \o more
  <2>. DEFINE registers == [i \in DOMAIN <<s>> |->
                              IF watchers[StreamMotor(<<s>>[i])] = 0
                                THEN <<Msg("REGISTER", StreamMotor(<<s>>[i]), None)>> ELSE <<>>]
  <2>1. registers = <<register>>
    BY <1>2, <1>3
  <2>2. requests' = requests \o FlattenSeq(registers) \o more
    BY <1>1 DEF Enter
  <2>. HIDE DEF registers
  <2>3. FlattenSeq(registers) = register
    BY <2>1, FlattenOne
  <2>. QED
    BY <2>2, <2>3
<1>10. /\ depth' \in [MotorStreams -> Nat] /\ watchers' \in [Motors -> Nat]
       /\ listening' \in [MotorStreams -> SUBSET (Tasks \cup Motors)]
       /\ initialized' \subseteq (Tasks \cup Motors) \X MotorStreams
  BY <1>2, <1>5, <1>6, <1>7, <1>8 DEF StreamTypeOK
<1>11. requests' \in Seq(Message)
  <2>1. Msg("REGISTER", m, None) \in Message
    BY DEF Message, Registration
  <2>2. register \in Seq(Message)
    BY <1>3, <2>1
  <2>. QED
    BY <1>9, <2>2 DEF WireOK
<1>. QED
  BY <1>1, <1>3, <1>5, <1>6, <1>7, <1>8, <1>9, <1>10, <1>11

Distinct(s) == \A i, j \in DOMAIN s : s[i] = s[j] => i = j

\* rs registers those of the motors ms that nobody watches.
Registers(ms, rs) == \A x : x \in Range(rs) <=> \E m \in Range(ms) :
                                watchers[m] = 0 /\ x = Msg("REGISTER", m, None)

\* The contexts of a synchronized context, on motors that differ.
LEMMA EnterSynced ==
  ASSUME StreamTypeOK, WireOK, NEW t \in Syncs, NEW ms \in Seq(Motors),
         NEW more \in Seq(Message), Enter(t, [i \in 1..Len(ms) |-> Synced(ms[i])], more)
  PROVE  /\ depth' = [s \in MotorStreams |->
                        IF s \in {Synced(m) : m \in Range(ms)} THEN depth[s] + 1 ELSE depth[s]]
         /\ listening' = [s \in MotorStreams |->
                            IF s \in {Synced(m) : m \in Range(ms)} /\ depth[s] = 0
                              THEN listening[s] \cup {t} ELSE listening[s]]
         /\ watchers' = [m \in Motors |->
                           IF m \in Range(ms) THEN watchers[m] + 1 ELSE watchers[m]]
         /\ initialized' = initialized \ ({t} \X {Synced(m) : m \in Range(ms)})
         /\ \E rs \in Seq(Registration) :
               /\ requests' = requests \o rs \o more /\ Registers(ms, rs)
               /\ Distinct(ms) => \A m \in Motors : NotTwice(rs, Msg("REGISTER", m, None))
         /\ depth' \in [MotorStreams -> Nat] /\ watchers' \in [Motors -> Nat]
         /\ listening' \in [MotorStreams -> SUBSET (Tasks \cup Motors)]
         /\ initialized' \subseteq (Tasks \cup Motors) \X MotorStreams
         /\ requests' \in Seq(Message)
<1>. DEFINE ss == [i \in 1..Len(ms) |-> Synced(ms[i])]
<1>0. /\ DOMAIN ms = 1..Len(ms)
      /\ \A i \in 1..Len(ms) : ms[i] \in Motors
  OBVIOUS
<1>1. /\ DOMAIN ss = 1..Len(ms) /\ ss \in Seq(MotorStreams)
      /\ \A i \in 1..Len(ms) : StreamMotor(ss[i]) = ms[i]
  BY <1>0, StreamFacts
<1>2. Range(ss) = {Synced(m) : m \in Range(ms)}
  BY <1>0 DEF Range
<1>3. Range(ms) \subseteq Motors
  BY <1>0 DEF Range
<1>. HIDE DEF ss
<1>4. /\ depth' = [s \in MotorStreams |-> IF s \in Range(ss) THEN depth[s] + 1 ELSE depth[s]]
      /\ listening' = [s \in MotorStreams |-> IF s \in Range(ss) /\ depth[s] = 0
                                                THEN listening[s] \cup {t} ELSE listening[s]]
      /\ initialized' = initialized \ ({t} \X Range(ss))
      /\ watchers' = [p \in Motors |->
            watchers[p] + Cardinality({s \in Range(ss) : StreamMotor(s) = p})]
  BY DEF Enter, ss
<1>5. watchers' = [m \in Motors |-> IF m \in Range(ms) THEN watchers[m] + 1 ELSE watchers[m]]
  <2>1. ASSUME NEW p \in Motors, p \in Range(ms)
        PROVE  Cardinality({s \in Range(ss) : StreamMotor(s) = p}) = 1
    <3>1. {s \in Range(ss) : StreamMotor(s) = p} = {Synced(p)}
      BY <1>2, <1>3, <2>1, StreamFacts
    <3>. QED
      BY <3>1, FS_Singleton
  <2>2. ASSUME NEW p \in Motors, p \notin Range(ms)
        PROVE  Cardinality({s \in Range(ss) : StreamMotor(s) = p}) = 0
    <3>1. {s \in Range(ss) : StreamMotor(s) = p} = {}
      BY <1>2, <1>3, <2>2, StreamFacts
    <3>. QED
      BY <3>1, FS_EmptySet
  <2>. QED
    <3>1. \A p \in Motors : watchers'[p] = IF p \in Range(ms) THEN watchers[p] + 1 ELSE watchers[p]
      <4>1. ASSUME NEW p \in Motors, p \in Range(ms) PROVE watchers'[p] = watchers[p] + 1
        BY <1>4, <2>1, <4>1
      <4>2. ASSUME NEW p \in Motors, p \notin Range(ms) PROVE watchers'[p] = watchers[p]
        <5>1. watchers'[p] = watchers[p] + 0 /\ watchers[p] \in Nat
          BY <1>4, <2>2, <4>2 DEF StreamTypeOK
        <5>. QED
          BY <5>1
      <4>. QED
        BY <4>1, <4>2
    <3>. QED
      BY <1>4, <3>1
<1>6. \E rs \in Seq(Registration) :
        /\ requests' = requests \o rs \o more /\ Registers(ms, rs)
        /\ Distinct(ms) => \A m \in Motors : NotTwice(rs, Msg("REGISTER", m, None))
  <2>. DEFINE registers == [i \in DOMAIN ss |->
                              IF watchers[StreamMotor(ss[i])] = 0
                                THEN <<Msg("REGISTER", StreamMotor(ss[i]), None)>> ELSE <<>>]
              rs == FlattenSeq(registers)
  <2>1. requests' = requests \o rs \o more
    BY DEF Enter, ss
  <2>2. /\ registers = [i \in 1..Len(ms) |-> IF watchers[ms[i]] = 0
                           THEN <<Msg("REGISTER", ms[i], None)>> ELSE <<>>]
        /\ registers \in Seq(Seq(Registration))
    <3>1. \A i \in 1..Len(ms) : Msg("REGISTER", ms[i], None) \in Registration
      BY <1>0 DEF Registration
    <3>2. registers = [i \in 1..Len(ms) |-> IF watchers[ms[i]] = 0
                         THEN <<Msg("REGISTER", ms[i], None)>> ELSE <<>>]
      BY <1>1
    <3>. HIDE DEF registers
    <3>. QED
      BY <3>1, <3>2
  <2>3. \A i \in 1..Len(ms) : \A x : x \in Range(registers[i]) <=>
            watchers[ms[i]] = 0 /\ x = Msg("REGISTER", ms[i], None)
    <3>. HIDE DEF registers
    <3>1. ASSUME NEW i \in 1..Len(ms), NEW x
          PROVE  x \in Range(registers[i]) <=>
                    watchers[ms[i]] = 0 /\ x = Msg("REGISTER", ms[i], None)
      <4>1. registers[i] = IF watchers[ms[i]] = 0 THEN <<Msg("REGISTER", ms[i], None)>> ELSE <<>>
        BY <2>2
      <4>2. CASE watchers[ms[i]] = 0
        BY <4>1, <4>2 DEF Range
      <4>3. CASE watchers[ms[i]] # 0
        BY <4>1, <4>3 DEF Range
      <4>. QED
        BY <4>2, <4>3
    <3>. QED
      BY <3>1
  <2>. HIDE DEF registers
  <2>4. /\ rs \in Seq(Registration)
        /\ \A x : x \in Range(rs) <=> \E i \in DOMAIN registers : x \in Range(registers[i])
    BY <2>2, FlattenProperties
  <2>5. DOMAIN registers = 1..Len(ms)
    BY <2>2
  <2>6. Registers(ms, rs)
    <3>1. \A x : x \in Range(rs) <=>
            \E i \in 1..Len(ms) : watchers[ms[i]] = 0 /\ x = Msg("REGISTER", ms[i], None)
      BY <2>3, <2>4, <2>5
    <3>2. Range(ms) = {ms[i] : i \in 1..Len(ms)}
      BY <1>0 DEF Range
    <3>. HIDE DEF rs
    <3>. QED
      BY <3>1, <3>2 DEF Registers
  <2>7. ASSUME Distinct(ms), NEW m \in Motors
        PROVE  NotTwice(rs, Msg("REGISTER", m, None))
    <3>1. PICK x : x = Msg("REGISTER", m, None)
      OBVIOUS
    <3>2. \A i \in 1..Len(ms) : NotTwice(registers[i], x)
      BY <2>2 DEF NotTwice
    <3>3. ASSUME NEW i \in 1..Len(ms), NEW k \in 1..Len(ms),
                 x \in Range(registers[i]), x \in Range(registers[k])
          PROVE  i = k
      <4>1. Msg("REGISTER", ms[i], None) = x /\ Msg("REGISTER", ms[k], None) = x
        BY <2>3, <3>3
      <4>2. ms[i] = m /\ ms[k] = m
        BY <3>1, <4>1 DEF Msg
      <4>. QED
        BY <1>0, <2>7, <4>2 DEF Distinct
    <3>4. NotTwiceAmong(registers, x)
      BY <2>5, <3>2, <3>3 DEF NotTwiceAmong
    <3>. QED
      BY <2>2, <3>1, <3>4, FlattenNotTwice
  <2>. HIDE DEF rs
  <2>. QED
    BY <2>1, <2>4, <2>6, <2>7
<1>7. /\ depth' \in [MotorStreams -> Nat] /\ watchers' \in [Motors -> Nat]
      /\ listening' \in [MotorStreams -> SUBSET (Tasks \cup Motors)]
      /\ initialized' \subseteq (Tasks \cup Motors) \X MotorStreams
  <2>1. Range(ss) \subseteq MotorStreams
    BY <1>1 DEF Range
  <2>2. depth' \in [MotorStreams -> Nat] /\ watchers' \in [Motors -> Nat]
    BY <1>4, <1>5 DEF StreamTypeOK
  <2>3. listening' \in [MotorStreams -> SUBSET (Tasks \cup Motors)]
    BY <1>4 DEF StreamTypeOK, Tasks
  <2>. QED
    BY <1>4, <2>2, <2>3 DEF StreamTypeOK
<1>8. requests' \in Seq(Message)
  <2>1. \A rs \in Seq(Registration) : rs \in Seq(Message)
    BY DEF Message
  <2>. QED
    BY <1>6, <2>1 DEF WireOK
<1>. QED
  BY <1>2, <1>4, <1>5, <1>6, <1>7, <1>8

\* Leaving a context.
LEMMA ExitContext ==
  ASSUME StreamTypeOK, WireOK, NEW s \in MotorStreams, NEW o, NEW more \in Seq(Message),
         Exit(o, s, more),
         watchers[StreamMotor(s)] > 0, depth[s] > 0, StreamMotor(s) \in Motors
  PROVE  /\ depth' = [depth EXCEPT ![s] = @ - 1]
         /\ initialized' = initialized
         /\ ExitRaises(o, s) => /\ listening' = listening /\ watchers' = watchers
                                /\ requests' = requests \o more
         /\ ~ExitRaises(o, s) =>
               /\ listening' = IF depth[s] = 1 THEN [listening EXCEPT ![s] = @ \ {o}]
                                               ELSE listening
               /\ watchers' = [watchers EXCEPT ![StreamMotor(s)] = @ - 1]
               /\ requests' = requests
                    \o (IF watchers[StreamMotor(s)] = 1
                          THEN <<Msg("UNREGISTER", StreamMotor(s), None)>> ELSE <<>>) \o more
         /\ depth' \in [MotorStreams -> Nat]
         /\ listening' \in [MotorStreams -> SUBSET (Tasks \cup Motors)]
         /\ watchers' \in [Motors -> Nat]
         /\ requests' \in Seq(Message)
<1>1. /\ depth' = [depth EXCEPT ![s] = @ - 1]
      /\ initialized' = initialized
  BY DEF Exit
<1>2. CASE ExitRaises(o, s)
  <2>1. listening' = listening /\ watchers' = watchers /\ requests' = requests \o more
    BY <1>2 DEF Exit
  <2>2. requests' \in Seq(Message)
    BY <2>1 DEF WireOK
  <2>. QED
    BY <1>1, <1>2, <2>1, <2>2 DEF StreamTypeOK
<1>3. CASE ~ExitRaises(o, s)
  <2>1. /\ listening' = [listening EXCEPT ![s] = IF depth[s] = 1 THEN @ \ {o} ELSE @]
        /\ watchers' = [watchers EXCEPT ![StreamMotor(s)] = @ - 1]
        /\ requests' = requests
             \o (IF watchers[StreamMotor(s)] = 1
                   THEN <<Msg("UNREGISTER", StreamMotor(s), None)>> ELSE <<>>) \o more
    BY <1>3 DEF Exit
  <2>2. listening' = IF depth[s] = 1 THEN [listening EXCEPT ![s] = @ \ {o}] ELSE listening
    BY <2>1 DEF StreamTypeOK
  <2>3. watchers' \in [Motors -> Nat]
    BY <2>1 DEF StreamTypeOK
  <2>4. /\ depth' \in [MotorStreams -> Nat]
        /\ listening' \in [MotorStreams -> SUBSET (Tasks \cup Motors)]
    BY <1>1, <2>1 DEF StreamTypeOK
  <2>5. requests' \in Seq(Message)
    <3>1. PICK e : e = IF watchers[StreamMotor(s)] = 1
                         THEN <<Msg("UNREGISTER", StreamMotor(s), None)>> ELSE <<>>
      OBVIOUS
    <3>2. Msg("UNREGISTER", StreamMotor(s), None) \in Message
      BY DEF Message, Registration
    <3>3. e \in Seq(Message)
      BY <3>1, <3>2
    <3>4. requests' = requests \o e \o more
      BY <2>1, <3>1
    <3>. QED
      BY <3>3, <3>4 DEF WireOK
  <2>. QED
    BY <1>1, <1>3, <2>1, <2>2, <2>3, <2>4, <2>5
<1>. QED
  BY <1>2, <1>3

(***************************************************************************)
(* The invariant of the contexts.  TypeOK is not inductive: that a count   *)
(* stays a natural number when a context is left takes that the contexts   *)
(* that are open are counted.                                              *)
(***************************************************************************)
\* Who has a context open on the two streams of a motor.
MovingHolders(m) ==
    ({m} \cap open)
    \cup {t \in Moves \cup Starts \cup Waits : MotorOf[t] = m /\ pc[t] \in {"waiting", "reading"}}
SyncedHolders(m) ==
    {t \in Syncs : pc[t] = "unwinding" /\ \E i \in 1..left[t] : batch[t][i] = m}

\* A KeyError on the way out leaves a count that no context stands for.
Counted(m) ==
    /\ depth[Moving(m)] = Cardinality(MovingHolders(m))
    /\ depth[Synced(m)] = Cardinality(SyncedHolders(m))
    /\ watchers[m] >= depth[Moving(m)] + depth[Synced(m)]
Counts == \A m \in Motors : Counted(m)

Labels ==
    /\ \A t \in Moves  : pc[t] \in {"idle", "called", "waiting"} \cup Ended
    /\ \A t \in Starts : pc[t] \in {"idle", "waiting"} \cup Ended
    /\ \A t \in Waits  : pc[t] \in {"idle", "reading", "waiting"} \cup Ended
    /\ \A t \in Syncs  : pc[t] \in {"idle", "preparing", "unwinding"} \cup Ended
    /\ \A t \in Starts : pc[t] = "idle" => pc[Child[t]] = "idle"

\* At most one context is between its entry and its exit.
Active(t) == pc[t] \in {"preparing", "unwinding"}
OneSync ==
    /\ \A t \in Syncs : Active(t) => syncing
    /\ syncing => \E t \in Syncs : Active(t)
    /\ ~syncing => pending = <<>>
    /\ \A t, u \in Syncs : Active(t) /\ Active(u) => t = u

Batches ==
    /\ Distinct(pending) /\ \A t \in Syncs : Distinct(batch[t])
    /\ \A t \in Syncs : pc[t] = "unwinding" => left[t] \in 1..Len(batch[t])

Inv == TypeOK /\ WireOK /\ Labels /\ OneSync /\ Batches /\ Counts

LEMMA HoldersFinite ==
  ASSUME NEW m \in Motors
  PROVE  /\ IsFiniteSet(MovingHolders(m)) /\ IsFiniteSet(SyncedHolders(m))
         /\ Cardinality(MovingHolders(m)) \in Nat /\ Cardinality(SyncedHolders(m)) \in Nat
<1>1. IsFiniteSet(Tasks \cup Motors)
  BY MotorsAssumption, FS_Union
<1>2. MovingHolders(m) \subseteq Tasks \cup Motors /\ SyncedHolders(m) \subseteq Tasks \cup Motors
  BY DEF MovingHolders, SyncedHolders, Tasks
<1>. QED
  BY <1>1, <1>2, FS_Subset, FS_CardinalityType

\* One more.
LEMMA CountsJoin ==
  ASSUME TypeOK, Counts, NEW m \in Motors, NEW o, o \notin MovingHolders(m),
         MovingHolders(m)' = MovingHolders(m) \cup {o},
         \A n \in Motors \ {m} : MovingHolders(n)' = MovingHolders(n),
         \A n \in Motors : SyncedHolders(n)' = SyncedHolders(n),
         depth' = [depth EXCEPT ![Moving(m)] = @ + 1],
         watchers' = [watchers EXCEPT ![m] = @ + 1]
  PROVE  Counts'
<1>1. ASSUME NEW n \in Motors
      PROVE  Counted(n)'
  <2>1. /\ Moving(n) \in MotorStreams /\ Synced(n) \in MotorStreams
        /\ Moving(m) \in MotorStreams /\ Synced(n) # Moving(m) /\ (Moving(m) = Moving(n) => m = n)
    BY StreamFacts
  <2>2. depth[Moving(n)] \in Nat /\ depth[Synced(n)] \in Nat /\ watchers[n] \in Nat
    BY <2>1 DEF TypeOK, StreamTypeOK
  <2>3. depth'[Synced(n)] = depth[Synced(n)]
    BY <2>1 DEF TypeOK, StreamTypeOK
  <2>4. Counted(n)
    BY DEF Counts
  <2>5. CASE n = m
    <3>1. Cardinality(MovingHolders(m) \cup {o}) = Cardinality(MovingHolders(m)) + 1
      BY HoldersFinite, FS_AddElement
    <3>2. depth'[Moving(n)] = depth[Moving(n)] + 1 /\ watchers'[n] = watchers[n] + 1
      BY <2>1, <2>5 DEF TypeOK, StreamTypeOK
    <3>. QED
      BY <2>2, <2>3, <2>4, <2>5, <3>1, <3>2 DEF Counted
  <2>6. CASE n # m
    <3>1. depth'[Moving(n)] = depth[Moving(n)] /\ watchers'[n] = watchers[n]
      BY <2>1, <2>6 DEF TypeOK, StreamTypeOK
    <3>. QED
      BY <2>2, <2>3, <2>4, <2>6, <3>1 DEF Counted
  <2>. QED
    BY <2>5, <2>6
<1>. QED
  BY <1>1 DEF Counts

\* One less: what it takes to apply ExitContext, and what follows from it.
LEMMA CountsBeforeLeave ==
  ASSUME TypeOK, Counts, NEW m \in Motors, NEW o \in MovingHolders(m)
  PROVE  depth[Moving(m)] > 0 /\ watchers[m] > 0
<1>1. Cardinality(MovingHolders(m)) # 0
  BY HoldersFinite, FS_EmptySet
<1>2. depth[Moving(m)] \in Nat /\ depth[Synced(m)] \in Nat /\ watchers[m] \in Nat
  BY StreamFacts DEF TypeOK, StreamTypeOK
<1>. QED
  BY <1>1, <1>2 DEF Counts, Counted

LEMMA CountsLeave ==
  ASSUME TypeOK, Counts, NEW m \in Motors, NEW o \in MovingHolders(m), WireOK,
         NEW more \in Seq(Message),
         MovingHolders(m)' = MovingHolders(m) \ {o},
         \A n \in Motors \ {m} : MovingHolders(n)' = MovingHolders(n),
         \A n \in Motors : SyncedHolders(n)' = SyncedHolders(n),
         Exit(o, Moving(m), more)
  PROVE  Counts'
<1>1. /\ Moving(m) \in MotorStreams /\ StreamMotor(Moving(m)) = m
      /\ depth[Moving(m)] > 0 /\ watchers[m] > 0
  BY StreamFacts, CountsBeforeLeave
<1>2. /\ depth' = [depth EXCEPT ![Moving(m)] = @ - 1]
      /\ watchers' = watchers \/ watchers' = [watchers EXCEPT ![m] = @ - 1]
  BY <1>1, ExitContext DEF TypeOK
<1>3. ASSUME NEW n \in Motors
      PROVE  Counted(n)'
  <2>1. /\ Moving(n) \in MotorStreams /\ Synced(n) \in MotorStreams
        /\ Moving(m) \in MotorStreams /\ Synced(n) # Moving(m) /\ (Moving(m) = Moving(n) => m = n)
    BY StreamFacts
  <2>2. depth[Moving(n)] \in Nat /\ depth[Synced(n)] \in Nat /\ watchers[n] \in Nat
    BY <2>1 DEF TypeOK, StreamTypeOK
  <2>3. depth'[Synced(n)] = depth[Synced(n)]
    BY <1>2, <2>1 DEF TypeOK, StreamTypeOK
  <2>4. Counted(n)
    BY DEF Counts
  <2>5. CASE n = m
    <3>1. Cardinality(MovingHolders(m) \ {o}) = Cardinality(MovingHolders(m)) - 1
      BY HoldersFinite, FS_RemoveElement
    <3>2. /\ depth'[Moving(n)] = depth[Moving(n)] - 1
          /\ watchers'[n] = watchers[n] \/ watchers'[n] = watchers[n] - 1
      BY <1>2, <2>1, <2>5 DEF TypeOK, StreamTypeOK
    <3>3. depth'[Moving(n)] = Cardinality(MovingHolders(n)')
      BY <2>4, <2>5, <3>1, <3>2 DEF Counted
    <3>4. depth'[Synced(n)] = Cardinality(SyncedHolders(n)')
      BY <2>3, <2>4 DEF Counted
    <3>5. watchers'[n] >= depth'[Moving(n)] + depth'[Synced(n)]
      BY <2>2, <2>3, <2>4, <3>2 DEF Counted
    <3>. QED
      BY <3>3, <3>4, <3>5 DEF Counted
  <2>6. CASE n # m
    <3>1. depth'[Moving(n)] = depth[Moving(n)] /\ watchers'[n] = watchers[n]
      BY <1>2, <2>1, <2>6 DEF TypeOK, StreamTypeOK
    <3>. QED
      BY <2>2, <2>3, <2>4, <2>6, <3>1 DEF Counted
  <2>. QED
    BY <2>5, <2>6
<1>. QED
  BY <1>3 DEF Counts

LEMMA CountsSame ==
  ASSUME Counts, UNCHANGED <<depth, watchers>>,
         \A m \in Motors : /\ MovingHolders(m)' = MovingHolders(m)
                           /\ SyncedHolders(m)' = SyncedHolders(m)
  PROVE  Counts'
BY DEF Counts, Counted

(***************************************************************************)
(* Who holds a context after a step.                                       *)
(***************************************************************************)
LEMMA HoldersSame ==
  ASSUME UNCHANGED <<open, batch, left>>,
         \A t \in Tasks : /\ pc[t] \in {"waiting", "reading"} <=> pc'[t] \in {"waiting", "reading"}
                          /\ pc[t] = "unwinding" <=> pc'[t] = "unwinding"
  PROVE  \A m \in Motors : /\ MovingHolders(m)' = MovingHolders(m)
                           /\ SyncedHolders(m)' = SyncedHolders(m)
BY DEF MovingHolders, SyncedHolders, Tasks

\* Task t opens a context on its motor.
LEMMA HoldersJoin ==
  ASSUME UNCHANGED <<open, batch, left>>, NEW t \in Moves \cup Starts \cup Waits,
         pc[t] \notin {"waiting", "reading"}, pc'[t] \in {"waiting", "reading"},
         \A u \in Tasks \ {t} :
            /\ pc[u] \in {"waiting", "reading"} <=> pc'[u] \in {"waiting", "reading"}
            /\ pc[u] = "unwinding" <=> pc'[u] = "unwinding"
  PROVE  /\ MotorOf[t] \in Motors /\ t \notin MovingHolders(MotorOf[t])
         /\ MovingHolders(MotorOf[t])' = MovingHolders(MotorOf[t]) \cup {t}
         /\ \A n \in Motors \ {MotorOf[t]} : MovingHolders(n)' = MovingHolders(n)
         /\ \A n \in Motors : SyncedHolders(n)' = SyncedHolders(n)
<1>1. MotorOf[t] \in Motors /\ t \notin Motors /\ t \notin Syncs /\ t \in Tasks
  BY MotorsAssumption DEF Tasks
<1>. QED
  BY <1>1 DEF MovingHolders, SyncedHolders, Tasks

LEMMA HoldersLeave ==
  ASSUME UNCHANGED <<open, batch, left>>, NEW t \in Moves \cup Starts \cup Waits,
         pc[t] \in {"waiting", "reading"}, pc'[t] \notin {"waiting", "reading"},
         \A u \in Tasks \ {t} :
            /\ pc[u] \in {"waiting", "reading"} <=> pc'[u] \in {"waiting", "reading"}
            /\ pc[u] = "unwinding" <=> pc'[u] = "unwinding"
  PROVE  /\ MotorOf[t] \in Motors /\ t \in MovingHolders(MotorOf[t])
         /\ MovingHolders(MotorOf[t])' = MovingHolders(MotorOf[t]) \ {t}
         /\ \A n \in Motors \ {MotorOf[t]} : MovingHolders(n)' = MovingHolders(n)
         /\ \A n \in Motors : SyncedHolders(n)' = SyncedHolders(n)
<1>1. MotorOf[t] \in Motors /\ t \notin Motors /\ t \notin Syncs /\ t \in Tasks
  BY MotorsAssumption DEF Tasks
<1>. QED
  BY <1>1 DEF MovingHolders, SyncedHolders, Tasks

(***************************************************************************)
(* The invariant, action by action.                                        *)
(***************************************************************************)
LEMMA ExpectType ==
  ASSUME StreamTypeOK, NEW o \in Tasks \cup Motors, NEW ss, Range(ss) \subseteq MotorStreams,
         NEW v \in BOOLEAN, Expect(o, ss, v)
  PROVE  waiting' \subseteq [owner : Tasks \cup Motors, stream : MotorStreams, value : BOOLEAN]
BY DEF Expect, Waiter, StreamTypeOK

LEMMA MessageFacts ==
  /\ \A m \in Motors : \A t \in Moves \cup Syncs : <<StartOne(m, t)>> \in Seq(Message)
  /\ \A m \in Motors : \A t \in Waits : <<Msg("CHAN_READ", m, t)>> \in Seq(Message)
  /\ <<>> \in Seq(Message)
  /\ <<Prestart>> \in Seq(Message) /\ <<StartAll>> \in Seq(Message) /\ <<AbortAll>> \in Seq(Message)
  /\ \A m \in Motors : <<Msg("UNREGISTER", m, None)>> \in Seq(Message)
  /\ Prestart \in Message /\ StartAll \in Message /\ AbortAll \in Message
  /\ \A m \in Motors : \A t \in Moves \cup Syncs : StartOne(m, t) \in Message
  /\ \A m \in Motors : \A t \in Waits : Msg("CHAN_READ", m, t) \in Message
BY DEF Message, Registration, Reading, Starting, Bracket

LEMMA TasksApart ==
  /\ Moves \subseteq Tasks /\ Starts \subseteq Tasks /\ Syncs \subseteq Tasks
  /\ Waits \subseteq Tasks
  /\ \A t \in Moves \cup Starts \cup Waits : t \notin Syncs /\ MotorOf[t] \in Motors
  /\ \A t \in Tasks : t \notin Motors
BY MotorsAssumption DEF Tasks

LEMMA EnterGroupInv ==
  ASSUME Inv, NEW m \in Motors, EnterGroup(m)
  PROVE  Inv'
<1>1. /\ Enter(m, <<Moving(m)>>, <<>>) /\ m \notin open /\ m \in grouped
      /\ open' = open \cup {m} /\ UNCHANGED <<pc, batch, left>>
  BY DEF EnterGroup
<1>2. /\ depth' = [depth EXCEPT ![Moving(m)] = @ + 1]
      /\ watchers' = [watchers EXCEPT ![m] = @ + 1]
      /\ depth' \in [MotorStreams -> Nat] /\ watchers' \in [Motors -> Nat]
      /\ listening' \in [MotorStreams -> SUBSET (Tasks \cup Motors)]
      /\ initialized' \subseteq (Tasks \cup Motors) \X MotorStreams
      /\ requests' \in Seq(Message)
  BY <1>1, EnterMoving, MessageFacts DEF Inv, TypeOK
<1>3. TypeOK'
  BY <1>1, <1>2 DEF Inv, TypeOK, StreamTypeOK, EnterGroup, serverVars
<1>4. WireOK'
  BY <1>2 DEF Inv, WireOK, EnterGroup
<1>5. Labels' /\ OneSync' /\ Batches'
  BY DEF Inv, Labels, OneSync, Active, Batches, Distinct, EnterGroup
<1>6. Counts'
  <2>1. /\ m \notin MovingHolders(m)
        /\ MovingHolders(m)' = MovingHolders(m) \cup {m}
        /\ \A n \in Motors \ {m} : MovingHolders(n)' = MovingHolders(n)
        /\ \A n \in Motors : SyncedHolders(n)' = SyncedHolders(n)
    BY <1>1, TasksApart DEF MovingHolders, SyncedHolders
  <2>. QED
    BY <1>2, <2>1, CountsJoin DEF Inv
<1>. QED
  BY <1>3, <1>4, <1>5, <1>6 DEF Inv

LEMMA ExitGroupInv ==
  ASSUME Inv, NEW m \in Motors, ExitGroup(m)
  PROVE  Inv'
<1>1. /\ Exit(m, Moving(m), <<>>) /\ m \in open
      /\ open' = open \ {m} /\ UNCHANGED <<pc, batch, left>>
  BY DEF ExitGroup
<1>2. /\ m \in MovingHolders(m)
      /\ MovingHolders(m)' = MovingHolders(m) \ {m}
      /\ \A n \in Motors \ {m} : MovingHolders(n)' = MovingHolders(n)
      /\ \A n \in Motors : SyncedHolders(n)' = SyncedHolders(n)
  BY <1>1, TasksApart DEF MovingHolders, SyncedHolders
<1>3. Counts'
  BY <1>1, <1>2, CountsLeave, MessageFacts DEF Inv
<1>4. /\ depth' \in [MotorStreams -> Nat] /\ watchers' \in [Motors -> Nat]
      /\ listening' \in [MotorStreams -> SUBSET (Tasks \cup Motors)]
      /\ initialized' = initialized
      /\ requests' \in Seq(Message)
  <2>1. /\ Moving(m) \in MotorStreams /\ StreamMotor(Moving(m)) = m
        /\ depth[Moving(m)] > 0 /\ watchers[m] > 0
    BY <1>2, StreamFacts, CountsBeforeLeave DEF Inv
  <2>. QED
    BY <1>1, <2>1, ExitContext, MessageFacts DEF Inv, TypeOK, WireOK
<1>5. TypeOK'
  BY <1>1, <1>4 DEF Inv, TypeOK, StreamTypeOK, ExitGroup, serverVars
<1>6. WireOK'
  BY <1>4 DEF Inv, WireOK, ExitGroup
<1>7. Labels' /\ OneSync' /\ Batches'
  BY DEF Inv, Labels, OneSync, Active, Batches, Distinct, ExitGroup
<1>. QED
  BY <1>3, <1>5, <1>6, <1>7 DEF Inv

\* What a child task's label allows.
LEMMA MayMoveFacts ==
  ASSUME Inv, NEW t \in Moves, MayMove(t)
  PROVE  /\ pc[t] \in {"idle", "called"}
         /\ \A u \in Starts : Child[u] = t => pc[u] # "idle"
<1>1. CASE t \in Children
  BY <1>1 DEF MayMove, Inv, Labels
<1>2. CASE t \notin Children
  BY <1>2 DEF MayMove, Callable, Children
<1>. QED
  BY <1>1, <1>2

LEMMA MoveRefusedInv ==
  ASSUME Inv, NEW t \in Moves, MoveRefused(t)
  PROVE  Inv'
<1>1. /\ pc[t] \in {"idle", "called"} /\ pc' = [pc EXCEPT ![t] = "failed"]
      /\ \A u \in Starts : Child[u] = t => pc[u] # "idle"
  BY MayMoveFacts DEF MoveRefused, Goto
<1>2. TypeOK' /\ WireOK'
  BY <1>1 DEF Inv, TypeOK, StreamTypeOK, WireOK, MoveRefused, streamVars, serverVars, Ended
<1>3. Labels'
  BY <1>1, TasksApart, MotorsAssumption DEF Inv, Labels, TypeOK, Ended
<1>4. OneSync' /\ Batches'
  BY <1>1, TasksApart DEF Inv, TypeOK, OneSync, Active, Batches, Distinct, MoveRefused, Ended
<1>5. Counts'
  <2>1. \A m \in Motors : /\ MovingHolders(m)' = MovingHolders(m)
                          /\ SyncedHolders(m)' = SyncedHolders(m)
    BY <1>1, TasksApart, HoldersSame DEF MoveRefused, Inv, TypeOK
  <2>. QED
    BY <2>1, CountsSame DEF Inv, MoveRefused, streamVars
<1>. QED
  BY <1>2, <1>3, <1>4, <1>5 DEF Inv

LEMMA MoveInv ==
  ASSUME Inv, NEW t \in Moves, Move(t)
  PROVE  Inv'
<1>. DEFINE m == MotorOf[t]
<1>1. /\ pc[t] \in {"idle", "called"} /\ pc' = [pc EXCEPT ![t] = "waiting"]
      /\ \A u \in Starts : Child[u] = t => pc[u] # "idle"
      /\ m \in Motors /\ t \in Tasks /\ t \notin Syncs
      /\ Enter(t, <<Moving(m)>>, <<StartOne(m, t)>>)
      /\ Expect(t, <<Moving(m)>>, FALSE)
  BY MayMoveFacts, TasksApart DEF Move, Goto
<1>2. /\ depth' = [depth EXCEPT ![Moving(m)] = @ + 1]
      /\ watchers' = [watchers EXCEPT ![m] = @ + 1]
      /\ depth' \in [MotorStreams -> Nat] /\ watchers' \in [Motors -> Nat]
      /\ listening' \in [MotorStreams -> SUBSET (Tasks \cup Motors)]
      /\ initialized' \subseteq (Tasks \cup Motors) \X MotorStreams
      /\ requests' \in Seq(Message)
  BY <1>1, EnterMoving, MessageFacts DEF Inv, TypeOK
<1>3. waiting' \subseteq [owner : Tasks \cup Motors, stream : MotorStreams, value : BOOLEAN]
  <2>1. Range(<<Moving(m)>>) \subseteq MotorStreams
    BY <1>1, StreamFacts DEF Range
  <2>. QED
    BY <1>1, <2>1, ExpectType DEF Inv, TypeOK
<1>4. mixed' \subseteq Tasks
  BY <1>1, TasksApart DEF Move, SendOff, Inv, TypeOK
<1>5. TypeOK'
  BY <1>1, <1>2, <1>3, <1>4 DEF Inv, TypeOK, StreamTypeOK, Move, serverVars
<1>6. WireOK'
  BY <1>2 DEF Inv, WireOK, Move
<1>7. Labels'
  BY <1>1, TasksApart, MotorsAssumption DEF Inv, Labels, TypeOK
<1>8. OneSync' /\ Batches'
  BY <1>1, TasksApart DEF Inv, TypeOK, OneSync, Active, Batches, Distinct, Move
<1>9. Counts'
  <2>1. /\ t \notin MovingHolders(m)
        /\ MovingHolders(m)' = MovingHolders(m) \cup {t}
        /\ \A n \in Motors \ {m} : MovingHolders(n)' = MovingHolders(n)
        /\ \A n \in Motors : SyncedHolders(n)' = SyncedHolders(n)
    BY <1>1, HoldersJoin DEF Move, Inv, TypeOK
  <2>. QED
    BY <1>1, <1>2, <2>1, CountsJoin DEF Inv
<1>. QED
  BY <1>5, <1>6, <1>7, <1>8, <1>9 DEF Inv

LEMMA ReturnInv ==
  ASSUME Inv, NEW t \in Moves \cup Starts \cup Waits, Return(t)
  PROVE  Inv'
<1>. DEFINE m == MotorOf[t]
<1>1. /\ pc[t] = "waiting" /\ t \in Tasks /\ t \notin Syncs /\ m \in Motors
      /\ Exit(t, Moving(m), <<>>)
  BY TasksApart DEF Return
<1>2. PICK l \in {"failed", "done"} : pc' = [pc EXCEPT ![t] = l]
  BY DEF Return, Goto
<1>3. /\ t \in MovingHolders(m)
      /\ MovingHolders(m)' = MovingHolders(m) \ {t}
      /\ \A n \in Motors \ {m} : MovingHolders(n)' = MovingHolders(n)
      /\ \A n \in Motors : SyncedHolders(n)' = SyncedHolders(n)
  BY <1>1, <1>2, HoldersLeave DEF Return, Inv, TypeOK
<1>4. Counts'
  BY <1>1, <1>3, CountsLeave, MessageFacts DEF Inv
<1>5. /\ depth' \in [MotorStreams -> Nat] /\ watchers' \in [Motors -> Nat]
      /\ listening' \in [MotorStreams -> SUBSET (Tasks \cup Motors)]
      /\ initialized' = initialized
      /\ requests' \in Seq(Message)
  <2>1. /\ Moving(m) \in MotorStreams /\ StreamMotor(Moving(m)) = m
        /\ depth[Moving(m)] > 0 /\ watchers[m] > 0
    BY <1>1, <1>3, StreamFacts, CountsBeforeLeave DEF Inv
  <2>. QED
    BY ZenonT(60), <1>1, <2>1, ExitContext, MessageFacts DEF Inv, TypeOK
<1>6. TypeOK'
  BY <1>1, <1>2, <1>5 DEF Inv, TypeOK, StreamTypeOK, Return, serverVars, Ended
<1>7. WireOK'
  BY <1>5 DEF Inv, WireOK, Return
<1>8. Labels'
  BY <1>1, <1>2, TasksApart, MotorsAssumption DEF Inv, Labels, TypeOK, Ended
<1>9. OneSync' /\ Batches'
  BY <1>1, <1>2, TasksApart DEF Inv, TypeOK, OneSync, Active, Batches, Distinct, Return, Ended
<1>. QED
  BY <1>4, <1>6, <1>7, <1>8, <1>9 DEF Inv

LEMMA StartMoveInv ==
  ASSUME Inv, NEW t \in Starts, StartMove(t)
  PROVE  Inv'
<1>. DEFINE m == MotorOf[t]
<1>1. /\ pc[t] = "idle" /\ pc' = [pc EXCEPT ![t] = "waiting", ![Child[t]] = "called"]
      /\ m \in Motors /\ t \in Tasks /\ t \notin Syncs
      /\ Child[t] \in Moves /\ Child[t] # t /\ Child[t] \in Tasks /\ Child[t] \notin Syncs
      /\ pc[Child[t]] = "idle"
      /\ Enter(t, <<Moving(m)>>, <<>>)
      /\ Expect(t, <<Moving(m)>>, TRUE)
  BY TasksApart, MotorsAssumption DEF StartMove, Callable, Inv, Labels
<1>2. /\ depth' = [depth EXCEPT ![Moving(m)] = @ + 1]
      /\ watchers' = [watchers EXCEPT ![m] = @ + 1]
      /\ depth' \in [MotorStreams -> Nat] /\ watchers' \in [Motors -> Nat]
      /\ listening' \in [MotorStreams -> SUBSET (Tasks \cup Motors)]
      /\ initialized' \subseteq (Tasks \cup Motors) \X MotorStreams
      /\ requests' \in Seq(Message)
  BY <1>1, EnterMoving, MessageFacts DEF Inv, TypeOK
<1>3. waiting' \subseteq [owner : Tasks \cup Motors, stream : MotorStreams, value : BOOLEAN]
  <2>1. Range(<<Moving(m)>>) \subseteq MotorStreams
    BY <1>1, StreamFacts DEF Range
  <2>. QED
    BY <1>1, <2>1, ExpectType DEF Inv, TypeOK
<1>4. TypeOK'
  BY <1>1, <1>2, <1>3 DEF Inv, TypeOK, StreamTypeOK, StartMove, serverVars
<1>5. WireOK'
  BY <1>2 DEF Inv, WireOK, StartMove
<1>6. /\ pc'[t] = "waiting" /\ pc'[Child[t]] = "called"
      /\ \A u \in Tasks \ {t, Child[t]} : pc'[u] = pc[u]
  BY <1>1 DEF TypeOK, Inv
<1>7. Labels'
  <2>1. \A u \in Starts : u # t => Child[u] # Child[t] /\ Child[u] \notin Starts
    BY MotorsAssumption
  <2>2. \A u \in Starts : u # Child[t]
    BY <1>1, MotorsAssumption
  <2>3. \A u \in Waits : u # Child[t] /\ u # t
    BY <1>1, MotorsAssumption
  <2>4. \A u \in Moves : u # t
    BY MotorsAssumption
  <2>5. \A u \in Moves : pc'[u] \in {"idle", "called", "waiting"} \cup Ended
    BY <1>6, <2>4, TasksApart DEF Inv, Labels
  <2>6. \A u \in Starts : pc'[u] \in {"idle", "waiting"} \cup Ended
    BY <1>6, <2>2, TasksApart DEF Inv, Labels
  <2>7. \A u \in Waits : pc'[u] \in {"idle", "reading", "waiting"} \cup Ended
    BY <1>6, <2>3, TasksApart DEF Inv, Labels
  <2>8. \A u \in Syncs : pc'[u] \in {"idle", "preparing", "unwinding"} \cup Ended
    BY <1>1, <1>6, TasksApart DEF Inv, Labels
  <2>9. ASSUME NEW u \in Starts, pc'[u] = "idle" PROVE pc'[Child[u]] = "idle"
    <3>1. u # t /\ u # Child[t] /\ Child[u] # Child[t] /\ Child[u] # t
      BY <1>1, <1>6, <2>1, <2>2, <2>9
    <3>2. u \in Tasks /\ Child[u] \in Tasks
      BY TasksApart, MotorsAssumption
    <3>. QED
      BY <1>6, <2>9, <3>1, <3>2 DEF Inv, Labels
  <2>. QED
    BY <2>5, <2>6, <2>7, <2>8, <2>9 DEF Labels
<1>8. OneSync' /\ Batches'
  BY <1>1, <1>6, TasksApart DEF Inv, TypeOK, OneSync, Active, Batches, Distinct, StartMove
<1>9. Counts'
  <2>1. /\ t \notin MovingHolders(m)
        /\ MovingHolders(m)' = MovingHolders(m) \cup {t}
        /\ \A n \in Motors \ {m} : MovingHolders(n)' = MovingHolders(n)
        /\ \A n \in Motors : SyncedHolders(n)' = SyncedHolders(n)
    BY <1>1, <1>6, HoldersJoin DEF StartMove
  <2>. QED
    BY <1>1, <1>2, <2>1, CountsJoin DEF Inv
<1>. QED
  BY <1>4, <1>5, <1>7, <1>8, <1>9 DEF Inv

LEMMA WaitUntilInv ==
  ASSUME Inv, NEW t \in Waits, WaitUntil(t)
  PROVE  Inv'
<1>. DEFINE m == MotorOf[t]
<1>1. PICK more \in Seq(Message) : Enter(t, <<Moving(m)>>, more)
  BY TasksApart, MessageFacts DEF WaitUntil
<1>2. PICK l \in {"reading", "waiting"} : pc' = [pc EXCEPT ![t] = l]
  BY DEF WaitUntil, Goto
<1>3. /\ pc[t] = "idle" /\ m \in Motors /\ t \in Tasks /\ t \notin Syncs
      /\ waiting' = waiting \/ Expect(t, <<Moving(m)>>, FALSE)
  BY TasksApart DEF WaitUntil, Callable
<1>4. /\ depth' = [depth EXCEPT ![Moving(m)] = @ + 1]
      /\ watchers' = [watchers EXCEPT ![m] = @ + 1]
      /\ depth' \in [MotorStreams -> Nat] /\ watchers' \in [Motors -> Nat]
      /\ listening' \in [MotorStreams -> SUBSET (Tasks \cup Motors)]
      /\ initialized' \subseteq (Tasks \cup Motors) \X MotorStreams
      /\ requests' \in Seq(Message)
  BY <1>1, <1>3, EnterMoving DEF Inv, TypeOK
<1>5. waiting' \subseteq [owner : Tasks \cup Motors, stream : MotorStreams, value : BOOLEAN]
  <2>1. Range(<<Moving(m)>>) \subseteq MotorStreams
    BY <1>3, StreamFacts DEF Range
  <2>. QED
    BY <1>3, <2>1, ExpectType DEF Inv, TypeOK, StreamTypeOK
<1>6. TypeOK'
  BY <1>2, <1>3, <1>4, <1>5 DEF Inv, TypeOK, StreamTypeOK, WaitUntil, serverVars
<1>7. WireOK'
  BY <1>4 DEF Inv, WireOK, WaitUntil
<1>8. Labels'
  BY <1>2, <1>3, TasksApart, MotorsAssumption DEF Inv, Labels, TypeOK
<1>9. OneSync' /\ Batches'
  BY <1>2, <1>3, TasksApart DEF Inv, TypeOK, OneSync, Active, Batches, Distinct, WaitUntil
<1>10. Counts'
  <2>1. /\ t \notin MovingHolders(m)
        /\ MovingHolders(m)' = MovingHolders(m) \cup {t}
        /\ \A n \in Motors \ {m} : MovingHolders(n)' = MovingHolders(n)
        /\ \A n \in Motors : SyncedHolders(n)' = SyncedHolders(n)
    BY <1>2, <1>3, HoldersJoin DEF WaitUntil, Inv, TypeOK
  <2>. QED
    BY <1>3, <1>4, <2>1, CountsJoin DEF Inv
<1>. QED
  BY <1>6, <1>7, <1>8, <1>9, <1>10 DEF Inv

LEMMA WaitReadInv ==
  ASSUME Inv, NEW t \in Waits, WaitRead(t)
  PROVE  Inv'
<1>. DEFINE m == MotorOf[t]
<1>1. /\ pc[t] = "reading" /\ pc' = [pc EXCEPT ![t] = "waiting"]
      /\ m \in Motors /\ t \in Tasks /\ t \notin Syncs
  BY TasksApart DEF WaitRead, Goto
<1>2. PICK a \in answers : /\ answers' = answers \ {a}
                           /\ cache' = [cache EXCEPT ![m] = a.value]
                           /\ waiting' \subseteq waiting
  BY DEF WaitRead, GiveUp
<1>3. TypeOK' /\ WireOK'
  BY <1>1, <1>2 DEF Inv, TypeOK, StreamTypeOK, WireOK, WaitRead, serverVars
<1>4. Labels'
  BY <1>1, TasksApart, MotorsAssumption DEF Inv, Labels, TypeOK
<1>5. OneSync' /\ Batches'
  BY <1>1, TasksApart DEF Inv, TypeOK, OneSync, Active, Batches, Distinct, WaitRead
<1>6. Counts'
  <2>1. \A n \in Motors : /\ MovingHolders(n)' = MovingHolders(n)
                          /\ SyncedHolders(n)' = SyncedHolders(n)
    BY <1>1, TasksApart, HoldersSame DEF WaitRead, Inv, TypeOK
  <2>. QED
    BY <2>1, CountsSame DEF Inv, WaitRead
<1>. QED
  BY <1>3, <1>4, <1>5, <1>6 DEF Inv

\* The steps of a synchronized context that open and close none of its streams.
LEMMA SyncQuietInv ==
  ASSUME Inv, NEW t \in Syncs,
         \/ SyncRefused(t) \/ SyncEnter(t) \/ SyncBodyRaises(t)
         \/ \E m \in Motors : PrepareMove(t, m)
  PROVE  Inv'
<1>1. /\ UNCHANGED <<streamVars, requests, events, grouped, open, batch, left, raised, mixed,
                     serverVars>>
      /\ \/ pc' = [pc EXCEPT ![t] = "failed"] /\ pc[t] = "idle" /\ syncing
            /\ UNCHANGED <<syncing, pending>>
         \/ pc' = [pc EXCEPT ![t] = "preparing"] /\ pc[t] = "idle" /\ ~syncing /\ syncing' = TRUE
            /\ pending' = pending
         \/ pc' = [pc EXCEPT ![t] = "failed"] /\ pc[t] = "preparing" /\ syncing' = FALSE
            /\ pending' = <<>>
         \/ pc' = pc /\ pc[t] = "preparing" /\ syncing' = syncing
            /\ \E m \in Motors : m \notin Range(pending) /\ pending' = Append(pending, m)
  BY DEF SyncRefused, SyncEnter, SyncBodyRaises, PrepareMove, Goto, Callable, streamVars, serverVars
<1>2. pending' \in Seq(Motors) /\ Distinct(pending')
  <2>1. ASSUME NEW m \in Motors, m \notin Range(pending), pending' = Append(pending, m)
        PROVE  pending' \in Seq(Motors) /\ Distinct(pending')
    <3>1. /\ pending \in Seq(Motors) /\ \A i \in 1..Len(pending) : pending[i] # m
          /\ Len(pending) \in Nat
      BY <2>1 DEF Inv, TypeOK, Range
    <3>2. \A i, j \in 1..Len(pending) : pending[i] = pending[j] => i = j
      BY <3>1 DEF Inv, Batches, Distinct
    <3>. QED
      BY <2>1, <3>1, <3>2 DEF Distinct
  <2>2. pending \in Seq(Motors) /\ Distinct(pending)
    BY DEF Inv, TypeOK, Batches
  <2>3. <<>> \in Seq(Motors) /\ Distinct(<<>>)
    BY DEF Distinct
  <2>4. pending' = pending \/ pending' = <<>>
        \/ \E m \in Motors : m \notin Range(pending) /\ pending' = Append(pending, m)
    BY <1>1
  <2>5. CASE pending' = pending
    BY <2>2, <2>5
  <2>6. CASE pending' = <<>>
    BY <2>3, <2>6
  <2>. QED
    BY <2>1, <2>4, <2>5, <2>6
<1>3. TypeOK' /\ WireOK'
  BY <1>1, <1>2, TasksApart DEF Inv, TypeOK, StreamTypeOK, WireOK, streamVars, serverVars, Ended
<1>4. Labels'
  <2>1. \A u \in Starts : Child[u] \in Tasks /\ Child[u] # t /\ u # t
    BY TasksApart, MotorsAssumption
  <2>2. /\ pc'[t] \in {"failed", "preparing", pc[t]} /\ t \in Tasks
        /\ \A u \in Tasks : u # t => pc'[u] = pc[u]
    BY <1>1, TasksApart DEF Inv, TypeOK
  <2>. QED
    BY <2>1, <2>2, TasksApart DEF Inv, Labels, Ended
<1>5. OneSync'
  <2>1. /\ t \in Tasks /\ Syncs \subseteq Tasks
        /\ \A u \in Syncs : u # t => pc'[u] = pc[u]
        /\ pc'[t] = "failed" \/ pc'[t] = "preparing"
    BY <1>1, TasksApart DEF Inv, TypeOK
  <2>2. CASE pc' = [pc EXCEPT ![t] = "failed"] /\ pc[t] = "idle" /\ syncing
             /\ UNCHANGED <<syncing, pending>>
    <3>1. pc'[t] = "failed" /\ syncing' /\ syncing
      BY <2>1, <2>2 DEF Inv, TypeOK
    <3>2. PICK w \in Syncs : Active(w)
      BY <2>2 DEF Inv, OneSync
    <3>3. w # t /\ Active(w)'
      BY <2>1, <2>2, <3>2 DEF Active
    <3>4. \A u \in Syncs : Active(u)' => Active(u)
      BY <2>1, <3>1 DEF Active
    <3>. QED
      BY <3>1, <3>3, <3>4 DEF Inv, OneSync
  <2>3. CASE pc' = [pc EXCEPT ![t] = "preparing"] /\ ~syncing /\ syncing' = TRUE
    <3>1. pc'[t] = "preparing"
      BY <2>1, <2>3 DEF Inv, TypeOK
    <3>2. \A u \in Syncs : Active(u)' => u = t
      BY <2>1, <2>3 DEF Active, Inv, OneSync
    <3>3. Active(t)'
      BY <3>1 DEF Active
    <3>. QED
      BY <2>3, <3>2, <3>3 DEF OneSync
  <2>4. CASE pc' = [pc EXCEPT ![t] = "failed"] /\ pc[t] = "preparing" /\ syncing' = FALSE
             /\ pending' = <<>>
    <3>1. pc'[t] = "failed"
      BY <2>1, <2>4 DEF Inv, TypeOK
    <3>2. \A u \in Syncs : ~Active(u)'
      BY <2>1, <2>4, <3>1 DEF Active, Inv, OneSync
    <3>. QED
      BY <2>4, <3>2 DEF OneSync
  <2>5. CASE pc' = pc /\ pc[t] = "preparing" /\ syncing' = syncing
    <3>1. syncing /\ \A u \in Syncs : Active(u)' <=> Active(u)
      BY <2>5 DEF Active, Inv, OneSync
    <3>. QED
      BY <2>5, <3>1 DEF Inv, OneSync
  <2>. QED
    BY <1>1, <2>2, <2>3, <2>4, <2>5
<1>6. Batches'
  BY <1>1, <1>2, TasksApart DEF Inv, TypeOK, Batches, Ended, Distinct
<1>7. Counts'
  <2>1. \A m \in Motors : /\ MovingHolders(m)' = MovingHolders(m)
                          /\ SyncedHolders(m)' = SyncedHolders(m)
    BY <1>1, TasksApart, HoldersSame DEF Inv, TypeOK
  <2>. QED
    BY <1>1, <2>1, CountsSame DEF Inv, streamVars
<1>. QED
  BY <1>3, <1>4, <1>5, <1>6, <1>7 DEF Inv

\* What a synchronized context sends before its first wait; k > Len(pending)
\* when no target is refused.
Brackets(k) == IF k > Len(pending) THEN <<StartAll>> ELSE <<>>
SyncMessages(t, k) ==
    Prestarting(t) \o StartEach(t, SubSeq(pending, 1, k - 1)) \o Brackets(k)

LEMMA SyncMessagesType ==
  ASSUME pending \in Seq(Motors), NEW t \in Syncs, NEW k \in 1..(Len(pending) + 1)
  PROVE  /\ Prestarting(t) \in Seq(Message) /\ Brackets(k) \in Seq(Message)
         /\ SubSeq(pending, 1, k - 1) \in Seq(Motors)
         /\ Len(SubSeq(pending, 1, k - 1)) = k - 1
         /\ StartEach(t, SubSeq(pending, 1, k - 1)) \in Seq(Message)
         /\ Len(StartEach(t, SubSeq(pending, 1, k - 1))) = k - 1
         /\ \A i \in 1..(k - 1) :
               StartEach(t, SubSeq(pending, 1, k - 1))[i] = StartOne(pending[i], t)
         /\ SyncMessages(t, k) \in Seq(Message)
<1>1. Prestarting(t) \in Seq(Message) /\ Brackets(k) \in Seq(Message)
  BY MessageFacts DEF Prestarting, Brackets
<1>2. PICK ms : ms = SubSeq(pending, 1, k - 1)
  OBVIOUS
<1>3. ms \in Seq(Motors) /\ Len(ms) = k - 1 /\ \A i \in 1..(k - 1) : ms[i] = pending[i]
  BY <1>2
<1>4. \A i \in 1..(k - 1) : ms[i] \in Motors
  BY <1>3
<1>5. /\ StartEach(t, ms) = [i \in 1..(k - 1) |-> StartOne(ms[i], t)]
      /\ \A i \in 1..(k - 1) : StartOne(ms[i], t) \in Message
  BY <1>3, <1>4 DEF StartEach, Message, Starting
<1>6. /\ StartEach(t, ms) \in Seq(Message) /\ Len(StartEach(t, ms)) = k - 1
      /\ \A i \in 1..(k - 1) : StartEach(t, ms)[i] = StartOne(pending[i], t)
  BY <1>3, <1>5
<1>7. SyncMessages(t, k) \in Seq(Message)
  BY <1>1, <1>2, <1>6 DEF SyncMessages
<1>. QED
  BY <1>1, <1>2, <1>3, <1>6, <1>7

\* When a synchronized context starts its motions, no other has a context open.
LEMMA SyncStartHolders ==
  ASSUME Inv, NEW t \in Syncs, SyncStart(t)
  PROVE  /\ \A m \in Motors : /\ MovingHolders(m)' = MovingHolders(m)
                              /\ SyncedHolders(m) = {}
                              /\ SyncedHolders(m)' = IF m \in Range(pending) THEN {t} ELSE {}
         /\ \E k \in 1..(Len(pending) + 1) :
               /\ k <= Len(pending) => t \in Faulty
               /\ Enter(t, [i \in 1..Len(pending) |-> Synced(pending[i])], SyncMessages(t, k))
               /\ raised' = IF k > Len(pending) THEN raised ELSE raised \cup {t}
         /\ pc[t] = "preparing"
         /\ IF Len(pending) > 0
              THEN pc' = [pc EXCEPT ![t] = "unwinding"] /\ UNCHANGED <<syncing, pending>>
              ELSE pc' = [pc EXCEPT ![t] = "done"] /\ syncing' = FALSE /\ pending' = <<>>
         /\ batch' = [batch EXCEPT ![t] = pending]
         /\ left' = [left EXCEPT ![t] = Len(pending)]
<1>1. /\ pc[t] = "preparing"
      /\ IF Len(pending) > 0
           THEN pc' = [pc EXCEPT ![t] = "unwinding"] /\ UNCHANGED <<syncing, pending>>
           ELSE pc' = [pc EXCEPT ![t] = "done"] /\ syncing' = FALSE /\ pending' = <<>>
      /\ batch' = [batch EXCEPT ![t] = pending]
      /\ left' = [left EXCEPT ![t] = Len(pending)]
      /\ UNCHANGED open
  BY DEF SyncStart, Goto
<1>2. \E k \in 1..(Len(pending) + 1) :
         /\ k <= Len(pending) => t \in Faulty
         /\ Enter(t, [i \in 1..Len(pending) |-> Synced(pending[i])], SyncMessages(t, k))
         /\ raised' = IF k > Len(pending) THEN raised ELSE raised \cup {t}
  BY DEF SyncStart, SyncMessages, Brackets
<1>3. /\ pending \in Seq(Motors) /\ Len(pending) \in Nat /\ DOMAIN pending = 1..Len(pending)
      /\ batch \in [Syncs -> Seq(Motors)] /\ left \in [Syncs -> Nat] /\ t \in Tasks
      /\ \A u \in Tasks : u # t => pc'[u] = pc[u]
      /\ pc'[t] = IF Len(pending) > 0 THEN "unwinding" ELSE "done"
  BY <1>1, TasksApart DEF Inv, TypeOK
<1>4. ASSUME NEW m \in Motors
      PROVE  /\ MovingHolders(m)' = MovingHolders(m)
             /\ SyncedHolders(m) = {}
             /\ SyncedHolders(m)' = IF m \in Range(pending) THEN {t} ELSE {}
  <2>1. MovingHolders(m)' = MovingHolders(m)
    BY <1>1, <1>3, TasksApart DEF MovingHolders
  <2>2. \A u \in Syncs : pc[u] # "unwinding"
    BY <1>1 DEF Inv, OneSync, Active
  <2>3. SyncedHolders(m) = {}
    BY <2>2 DEF SyncedHolders
  <2>4. \A u \in Syncs : u # t => pc'[u] # "unwinding"
    BY <1>3, <2>2, TasksApart
  <2>5. (\E i \in 1..left'[t] : batch'[t][i] = m) <=> m \in Range(pending)
    BY <1>1, <1>3 DEF Range
  <2>6. m \in Range(pending) => Len(pending) > 0
    BY <1>3 DEF Range
  <2>7. ASSUME NEW u PROVE u \in SyncedHolders(m)' <=> u = t /\ m \in Range(pending)
    <3>1. u \in SyncedHolders(m)' <=>
            u \in Syncs /\ pc'[u] = "unwinding" /\ \E i \in 1..left'[u] : batch'[u][i] = m
      BY DEF SyncedHolders
    <3>. QED
      BY <1>3, <2>4, <2>5, <2>6, <3>1
  <2>. QED
    BY <2>1, <2>3, <2>7
<1>. QED
  BY <1>1, <1>2, <1>4

LEMMA SyncStartInv ==
  ASSUME Inv, NEW t \in Syncs, SyncStart(t)
  PROVE  Inv'
<1>1. /\ pc[t] = "preparing" /\ t \in Tasks
      /\ IF Len(pending) > 0
           THEN pc' = [pc EXCEPT ![t] = "unwinding"] /\ UNCHANGED <<syncing, pending>>
           ELSE pc' = [pc EXCEPT ![t] = "done"] /\ syncing' = FALSE /\ pending' = <<>>
      /\ batch' = [batch EXCEPT ![t] = pending]
      /\ left' = [left EXCEPT ![t] = Len(pending)]
      /\ pending \in Seq(Motors) /\ Len(pending) \in Nat /\ DOMAIN pending = 1..Len(pending)
      /\ raised' = raised \/ raised' = raised \cup {t}
  <2>1. /\ pc[t] = "preparing"
        /\ IF Len(pending) > 0
             THEN pc' = [pc EXCEPT ![t] = "unwinding"] /\ UNCHANGED <<syncing, pending>>
             ELSE pc' = [pc EXCEPT ![t] = "done"] /\ syncing' = FALSE /\ pending' = <<>>
        /\ batch' = [batch EXCEPT ![t] = pending]
        /\ left' = [left EXCEPT ![t] = Len(pending)]
        /\ raised' = raised \/ raised' = raised \cup {t}
    BY SyncStartHolders
  <2>2. pending \in Seq(Motors)
    BY DEF Inv, TypeOK
  <2>. QED
    BY <2>1, <2>2, TasksApart
<1>2. PICK k \in 1..(Len(pending) + 1) :
          Enter(t, [i \in 1..Len(pending) |-> Synced(pending[i])], SyncMessages(t, k))
  BY SyncStartHolders
<1>3. /\ depth' = [s \in MotorStreams |->
                     IF s \in {Synced(m) : m \in Range(pending)} THEN depth[s] + 1 ELSE depth[s]]
      /\ watchers' = [m \in Motors |->
                        IF m \in Range(pending) THEN watchers[m] + 1 ELSE watchers[m]]
      /\ depth' \in [MotorStreams -> Nat] /\ watchers' \in [Motors -> Nat]
      /\ listening' \in [MotorStreams -> SUBSET (Tasks \cup Motors)]
      /\ initialized' \subseteq (Tasks \cup Motors) \X MotorStreams
      /\ requests' \in Seq(Message)
  <2>1. SyncMessages(t, k) \in Seq(Message)
    BY <1>1, SyncMessagesType
  <2>2. StreamTypeOK /\ WireOK /\ pending \in Seq(Motors)
    BY DEF Inv, TypeOK
  <2>. QED
    BY <1>2, <2>1, <2>2, EnterSynced
<1>4. waiting' \subseteq [owner : Tasks \cup Motors, stream : MotorStreams, value : BOOLEAN]
  <2>1. PICK ss : ss = [i \in 1..Len(pending) |-> Synced(pending[i])]
    OBVIOUS
  <2>2. Range(ss) \subseteq MotorStreams
    <3>1. \A i \in 1..Len(pending) : pending[i] \in Motors
      BY <1>1
    <3>. QED
      BY <2>1, <3>1, StreamFacts DEF Range
  <2>3. Expect(t, ss, FALSE)
    BY <2>1 DEF SyncStart
  <2>. QED
    BY <1>1, <2>2, <2>3, ExpectType DEF Inv, TypeOK
<1>5. mixed' \subseteq Tasks
  BY <1>1, TasksApart DEF SyncStart, SendOff, Inv, TypeOK
<1>6. TypeOK'
  <2>1. /\ UNCHANGED <<cache, answers, events, grouped, open, serverVars>>
    BY DEF SyncStart
  <2>2. StreamTypeOK'
    BY <1>3, <1>4, <2>1 DEF StreamTypeOK, Inv, TypeOK
  <2>3. /\ pc' \in [Tasks -> {"idle", "called", "reading", "waiting", "preparing", "unwinding"}
                             \cup Ended]
        /\ syncing' \in BOOLEAN /\ pending' \in Seq(Motors)
        /\ batch' \in [Syncs -> Seq(Motors)] /\ left' \in [Syncs -> Nat]
        /\ raised' \subseteq Syncs
    <3>1. /\ pc \in [Tasks -> {"idle", "called", "reading", "waiting", "preparing", "unwinding"}
                               \cup Ended]
          /\ syncing \in BOOLEAN
          /\ batch \in [Syncs -> Seq(Motors)] /\ left \in [Syncs -> Nat] /\ raised \subseteq Syncs
      BY DEF Inv, TypeOK
    <3>2. <<>> \in Seq(Motors) /\ "done" \in Ended
      BY DEF Ended
    <3>. QED
      BY <1>1, <3>1, <3>2
  <2>. QED
    BY <1>5, <2>1, <2>2, <2>3 DEF Inv, TypeOK, serverVars
<1>7. WireOK'
  BY <1>3 DEF Inv, WireOK, SyncStart
<1>8. /\ \A u \in Tasks : u # t => pc'[u] = pc[u]
      /\ pc'[t] = IF Len(pending) > 0 THEN "unwinding" ELSE "done"
  BY <1>1 DEF Inv, TypeOK
<1>9. Labels'
  <2>1. \A u \in Starts : Child[u] \in Tasks /\ Child[u] # t /\ u # t
    BY TasksApart, MotorsAssumption
  <2>. QED
    BY <1>8, <2>1, TasksApart DEF Inv, Labels, Ended
<1>10. OneSync'
  BY <1>1, <1>8, TasksApart DEF Inv, OneSync, Active
<1>11. Batches'
  <2>1. Distinct(<<>>) /\ Distinct(pending)
    BY DEF Inv, Batches, Distinct
  <2>2. Distinct(pending')
    BY <1>1, <2>1
  <2>3. ASSUME NEW u \in Syncs
        PROVE  Distinct(batch'[u]) /\ (pc'[u] = "unwinding" => left'[u] \in 1..Len(batch'[u]))
    <3>1. CASE u = t
      <4>1. batch'[u] = pending /\ left'[u] = Len(pending)
        BY <1>1, <3>1 DEF Inv, TypeOK
      <4>. QED
        BY <1>1, <1>8, <2>1, <3>1, <4>1
    <3>2. CASE u # t
      <4>1. batch'[u] = batch[u] /\ left'[u] = left[u] /\ pc'[u] = pc[u]
        BY <1>1, <1>8, <3>2, TasksApart DEF Inv, TypeOK
      <4>. QED
        BY <4>1 DEF Inv, Batches
    <3>. QED
      BY <3>1, <3>2
  <2>. QED
    BY <2>2, <2>3 DEF Batches
<1>12. Counts'
  <2>1. ASSUME NEW m \in Motors
        PROVE  Counted(m)'
    <3>1. /\ MovingHolders(m)' = MovingHolders(m) /\ SyncedHolders(m) = {}
          /\ SyncedHolders(m)' = IF m \in Range(pending) THEN {t} ELSE {}
          /\ Counted(m)
      BY SyncStartHolders DEF Inv, Counts
    <3>2. /\ Moving(m) \in MotorStreams /\ Synced(m) \in MotorStreams
          /\ Moving(m) \notin {Synced(n) : n \in Range(pending)}
          /\ Synced(m) \in {Synced(n) : n \in Range(pending)} <=> m \in Range(pending)
      <4>1. Range(pending) \subseteq Motors
        BY <1>1 DEF Range
      <4>. QED
        BY <4>1, StreamFacts
    <3>3. depth[Moving(m)] \in Nat /\ depth[Synced(m)] \in Nat /\ watchers[m] \in Nat
      BY <3>2 DEF Inv, TypeOK, StreamTypeOK
    <3>4. depth[Synced(m)] = 0 /\ depth'[Moving(m)] = depth[Moving(m)]
      BY <1>3, <3>1, <3>2, FS_EmptySet DEF Counted
    <3>5. CASE m \in Range(pending)
      <4>1. depth'[Synced(m)] = 1 /\ watchers'[m] = watchers[m] + 1
        BY <1>3, <3>2, <3>4, <3>5
      <4>2. Cardinality(SyncedHolders(m)') = 1
        BY <3>1, <3>5, FS_Singleton
      <4>. QED
        BY <3>1, <3>3, <3>4, <4>1, <4>2 DEF Counted
    <3>6. CASE m \notin Range(pending)
      <4>1. depth'[Synced(m)] = 0 /\ watchers'[m] = watchers[m]
        BY <1>3, <3>2, <3>4, <3>6
      <4>2. Cardinality(SyncedHolders(m)') = 0
        BY <3>1, <3>6, FS_EmptySet
      <4>. QED
        BY <3>1, <3>3, <3>4, <4>1, <4>2 DEF Counted
    <3>. QED
      BY <3>5, <3>6
  <2>. QED
    BY <2>1 DEF Counts
<1>. QED
  BY <1>6, <1>7, <1>9, <1>10, <1>11, <1>12 DEF Inv

\* The context that is left is the only one on its stream.
LEMMA SyncUnwindHolders ==
  ASSUME Inv, NEW t \in Syncs, SyncUnwind(t), NEW m, m = batch[t][left[t]]
  PROVE  /\ pc[t] = "unwinding" /\ m \in Motors /\ left[t] \in 1..Len(batch[t])
         /\ left' = [left EXCEPT ![t] = @ - 1]
         /\ IF left[t] = 1
              THEN /\ \E l \in {"aborted", "done"} : pc' = [pc EXCEPT ![t] = l]
                   /\ syncing' = FALSE /\ pending' = <<>>
              ELSE UNCHANGED <<pc, syncing, pending>>
         /\ SyncedHolders(m) = {t} /\ SyncedHolders(m)' = {}
         /\ \A n \in Motors : MovingHolders(n)' = MovingHolders(n)
         /\ \A n \in Motors \ {m} : SyncedHolders(n)' = SyncedHolders(n)
<1>1. /\ pc[t] = "unwinding" /\ left[t] \in 1..Len(batch[t]) /\ Distinct(batch[t])
      /\ batch[t] \in Seq(Motors) /\ t \in Tasks
      /\ UNCHANGED <<batch, open>>
  BY TasksApart DEF SyncUnwind, Inv, Batches, TypeOK
<1>2. m \in Motors
  BY <1>1
<1>3. /\ left' = [left EXCEPT ![t] = @ - 1]
      /\ IF left[t] = 1
           THEN /\ \E l \in {"aborted", "done"} : pc' = [pc EXCEPT ![t] = l]
                /\ syncing' = FALSE /\ pending' = <<>>
           ELSE UNCHANGED <<pc, syncing, pending>>
  BY DEF SyncUnwind, Goto
<1>4. \A u \in Syncs : u # t => pc[u] # "unwinding"
  BY <1>1 DEF Inv, OneSync, Active
<1>5. /\ \A u \in Tasks : u # t => pc'[u] = pc[u]
      /\ left[t] = 1 => pc'[t] \notin {"unwinding", "waiting", "reading"}
      /\ left[t] # 1 => pc'[t] = "unwinding"
      /\ left'[t] = left[t] - 1
  BY <1>1, <1>3 DEF Inv, TypeOK
<1>6. \A n \in Motors : MovingHolders(n)' = MovingHolders(n)
  BY <1>1, <1>5, TasksApart DEF MovingHolders
<1>7. ASSUME NEW n \in Motors, NEW u
      PROVE  /\ u \in SyncedHolders(n) <=> u = t /\ \E i \in 1..left[t] : batch[t][i] = n
             /\ u \in SyncedHolders(n)' <=>
                    u = t /\ left[t] # 1 /\ \E i \in 1..(left[t] - 1) : batch[t][i] = n
  <2>1. \A w \in Syncs : w # t => pc'[w] # "unwinding"
    BY <1>4, <1>5, TasksApart
  <2>2. u \in SyncedHolders(n) <=> u = t /\ \E i \in 1..left[t] : batch[t][i] = n
    BY <1>1, <1>4 DEF SyncedHolders
  <2>3. u \in SyncedHolders(n)' <=>
           u \in Syncs /\ pc'[u] = "unwinding" /\ \E i \in 1..left'[u] : batch'[u][i] = n
    BY DEF SyncedHolders
  <2>. QED
    BY <1>1, <1>5, <2>1, <2>2, <2>3
<1>8. \A i \in 1..(left[t] - 1) : batch[t][i] # m
  BY <1>1 DEF Distinct
<1>9. SyncedHolders(m) = {t} /\ SyncedHolders(m)' = {}
  <2>1. left[t] \in 1..left[t]
    BY <1>1
  <2>. QED
    BY <1>2, <1>7, <1>8, <2>1
<1>10. ASSUME NEW n \in Motors \ {m}
       PROVE  SyncedHolders(n)' = SyncedHolders(n)
  <2>1. (\E i \in 1..left[t] : batch[t][i] = n)
          <=> left[t] # 1 /\ \E i \in 1..(left[t] - 1) : batch[t][i] = n
    <3>1. ASSUME NEW i \in 1..left[t], batch[t][i] = n
          PROVE  left[t] # 1 /\ i \in 1..(left[t] - 1)
      BY <1>1, <3>1
    <3>. QED
      BY <1>1, <3>1
  <2>. QED
    BY <1>7, <2>1
<1>. QED
  BY <1>1, <1>2, <1>3, <1>6, <1>9, <1>10

LEMMA SyncUnwindInv ==
  ASSUME Inv, NEW t \in Syncs, SyncUnwind(t)
  PROVE  Inv'
<1>1. PICK m : m = batch[t][left[t]]
  OBVIOUS
<1>2. /\ pc[t] = "unwinding" /\ m \in Motors /\ left[t] \in 1..Len(batch[t])
      /\ left' = [left EXCEPT ![t] = @ - 1]
      /\ IF left[t] = 1
           THEN /\ \E l \in {"aborted", "done"} : pc' = [pc EXCEPT ![t] = l]
                /\ syncing' = FALSE /\ pending' = <<>>
           ELSE UNCHANGED <<pc, syncing, pending>>
      /\ SyncedHolders(m) = {t} /\ SyncedHolders(m)' = {}
      /\ \A n \in Motors : MovingHolders(n)' = MovingHolders(n)
      /\ \A n \in Motors \ {m} : SyncedHolders(n)' = SyncedHolders(n)
  BY <1>1, SyncUnwindHolders
<1>3. PICK more \in Seq(Message) : Exit(t, Synced(m), more)
  BY <1>1, MessageFacts DEF SyncUnwind, Aborting
<1>4. /\ Moving(m) \in MotorStreams /\ Synced(m) \in MotorStreams /\ StreamMotor(Synced(m)) = m
      /\ depth[Moving(m)] \in Nat /\ depth[Synced(m)] = 1 /\ watchers[m] \in Nat /\ watchers[m] > 0
  <2>1. Counted(m) /\ Cardinality(SyncedHolders(m)) = 1
    BY <1>2, FS_Singleton DEF Inv, Counts
  <2>2. /\ Moving(m) \in MotorStreams /\ Synced(m) \in MotorStreams
        /\ StreamMotor(Synced(m)) = m
    BY <1>2, StreamFacts
  <2>3. /\ depth[Moving(m)] \in Nat /\ depth[Synced(m)] \in Nat /\ watchers[m] \in Nat
    BY <1>2, <2>2 DEF Inv, TypeOK, StreamTypeOK
  <2>. QED
    BY <2>1, <2>2, <2>3 DEF Counted
<1>5. /\ depth' = [depth EXCEPT ![Synced(m)] = @ - 1]
      /\ watchers' = watchers \/ watchers' = [watchers EXCEPT ![m] = @ - 1]
      /\ initialized' = initialized
      /\ depth' \in [MotorStreams -> Nat] /\ watchers' \in [Motors -> Nat]
      /\ listening' \in [MotorStreams -> SUBSET (Tasks \cup Motors)]
      /\ requests' \in Seq(Message)
  <2>1. StreamTypeOK /\ WireOK /\ depth[Synced(m)] > 0
    BY <1>4 DEF Inv, TypeOK
  <2>. QED
    BY <1>2, <1>3, <1>4, <2>1, ExitContext
<1>6. /\ waiting' \subseteq waiting /\ (raised' = raised \/ raised' = raised \cup {t})
      /\ UNCHANGED <<cache, answers, events, grouped, open, batch, mixed, serverVars>>
  BY DEF SyncUnwind, GiveUp
<1>7. TypeOK'
  <2>1. StreamTypeOK'
    BY <1>5, <1>6 DEF StreamTypeOK, Inv, TypeOK
  <2>2. /\ pc' \in [Tasks -> {"idle", "called", "reading", "waiting", "preparing", "unwinding"}
                             \cup Ended]
        /\ syncing' \in BOOLEAN /\ pending' \in Seq(Motors)
        /\ left' \in [Syncs -> Nat]
        /\ raised' \subseteq Syncs
    <3>1. /\ pc \in [Tasks -> {"idle", "called", "reading", "waiting", "preparing", "unwinding"}
                               \cup Ended]
          /\ syncing \in BOOLEAN /\ pending \in Seq(Motors)
          /\ left \in [Syncs -> Nat] /\ raised \subseteq Syncs
      BY DEF Inv, TypeOK
    <3>2. <<>> \in Seq(Motors) /\ "done" \in Ended /\ "aborted" \in Ended
      BY DEF Ended
    <3>3. left' \in [Syncs -> Nat]
      BY <1>2, <3>1
    <3>4. pc' \in [Tasks -> {"idle", "called", "reading", "waiting", "preparing", "unwinding"}
                             \cup Ended]
      BY <1>2, <3>1, <3>2
    <3>. QED
      BY <1>2, <1>6, <3>1, <3>2, <3>3, <3>4
  <2>. QED
    BY <1>6, <2>1, <2>2 DEF Inv, TypeOK, serverVars
<1>8. WireOK'
  BY <1>5, <1>6 DEF Inv, WireOK
<1>9. /\ \A u \in Tasks : u # t => pc'[u] = pc[u]
      /\ left[t] = 1 => pc'[t] \in {"aborted", "done"}
      /\ left[t] # 1 => pc' = pc
      /\ t \in Tasks
  BY <1>2, TasksApart DEF Inv, TypeOK
<1>10. Labels'
  <2>1. \A u \in Starts : Child[u] \in Tasks /\ Child[u] # t /\ u # t
    BY TasksApart, MotorsAssumption
  <2>2. CASE left[t] = 1
    BY <1>9, <2>1, <2>2, TasksApart DEF Inv, Labels, Ended
  <2>3. CASE left[t] # 1
    BY <1>9, <2>3 DEF Inv, Labels
  <2>. QED
    BY <2>2, <2>3
<1>11. OneSync'
  <2>1. CASE left[t] = 1
    BY <1>2, <1>9, <2>1, TasksApart DEF Inv, OneSync, Active
  <2>2. CASE left[t] # 1
    BY <1>2, <1>9, <2>2 DEF Inv, OneSync, Active
  <2>. QED
    BY <2>1, <2>2
<1>12. Batches'
  <2>1. Distinct(<<>>) /\ Distinct(pending)
    BY DEF Inv, Batches, Distinct
  <2>2. Distinct(pending')
    BY <1>2, <2>1
  <2>3. ASSUME NEW u \in Syncs
        PROVE  Distinct(batch'[u]) /\ (pc'[u] = "unwinding" => left'[u] \in 1..Len(batch'[u]))
    <3>1. CASE u = t
      <4>1. left'[u] = left[t] - 1 /\ batch' = batch
        BY <1>2, <1>6, <3>1 DEF Inv, TypeOK
      <4>. QED
        BY <1>2, <1>9, <3>1, <4>1 DEF Inv, Batches
    <3>2. CASE u # t
      <4>1. batch'[u] = batch[u] /\ left'[u] = left[u] /\ pc'[u] = pc[u]
        BY <1>2, <1>6, <1>9, <3>2, TasksApart DEF Inv, TypeOK
      <4>. QED
        BY <4>1 DEF Inv, Batches
    <3>. QED
      BY <3>1, <3>2
  <2>. QED
    BY <2>2, <2>3 DEF Batches
<1>13. Counts'
  <2>1. ASSUME NEW n \in Motors
        PROVE  Counted(n)'
    <3>1. /\ Moving(n) \in MotorStreams /\ Synced(n) \in MotorStreams
          /\ Moving(n) # Synced(m) /\ (Synced(n) = Synced(m) => n = m)
      BY <1>2, StreamFacts
    <3>2. depth[Moving(n)] \in Nat /\ depth[Synced(n)] \in Nat /\ watchers[n] \in Nat
      BY <3>1 DEF Inv, TypeOK, StreamTypeOK
    <3>3. depth'[Moving(n)] = depth[Moving(n)] /\ Counted(n)
      BY <1>5, <3>1 DEF Inv, TypeOK, StreamTypeOK, Counts
    <3>4. CASE n = m
      <4>1. /\ depth'[Synced(m)] = 0
            /\ watchers'[m] = watchers[m] \/ watchers'[m] = watchers[m] - 1
        BY <1>4, <1>5 DEF Inv, TypeOK, StreamTypeOK
      <4>2. Cardinality(SyncedHolders(m)') = 0
        BY <1>2, FS_EmptySet
      <4>. QED
        <5>1. watchers'[m] >= depth'[Moving(m)] + depth'[Synced(m)]
          BY <1>4, <3>3, <3>4, <4>1 DEF Counted
        <5>2. depth'[Moving(m)] = Cardinality(MovingHolders(m)')
          BY <1>2, <3>3, <3>4 DEF Counted
        <5>. QED
          BY <3>4, <4>1, <4>2, <5>1, <5>2 DEF Counted
    <3>5. CASE n # m
      <4>1. depth'[Synced(n)] = depth[Synced(n)] /\ watchers'[n] = watchers[n]
        BY <1>2, <1>5, <3>1, <3>5 DEF Inv, TypeOK, StreamTypeOK
      <4>. QED
        BY <1>2, <3>3, <3>5, <4>1 DEF Counted
    <3>. QED
      BY <3>4, <3>5
  <2>. QED
    BY <2>1 DEF Counts
<1>. QED
  BY <1>7, <1>8, <1>10, <1>11, <1>12, <1>13 DEF Inv

\* Steps that leave tasks and contexts alone.
LEMMA OutsideInv ==
  ASSUME Inv, UNCHANGED <<taskVars, watchers, depth, listening>>, TypeOK', WireOK'
  PROVE  Inv'
<1>1. Labels' /\ OneSync' /\ Batches'
  BY DEF taskVars, Inv, Labels, OneSync, Active, Batches, Distinct
<1>2. Counts'
  BY ZenonT(60) DEF taskVars, Inv, Counts, Counted, MovingHolders, SyncedHolders
<1>. QED
  BY <1>1, <1>2 DEF Inv

LEMMA DispatchInv ==
  ASSUME Inv, Dispatch
  PROVE  Inv'
<1>1. /\ events # <<>> /\ events \in Seq(Notice) /\ events' = Tail(events)
      /\ UNCHANGED <<taskVars, serverVars, requests, watchers, depth, listening>>
  BY DEF Dispatch, OnPropertyUpdate, OnReply, Inv, WireOK
<1>2. Head(events) \in Notice /\ events' \in Seq(Notice)
  BY <1>1
<1>3. StreamTypeOK'
  <2>1. CASE OnPropertyUpdate
    <3>1. Head(events).property \in Motors /\ Head(events).value \in BOOLEAN
      BY <1>2 DEF Notice
    <3>2. waiting' \subseteq waiting /\ UNCHANGED answers
      BY <2>1 DEF OnPropertyUpdate
    <3>3. cache' \in [Motors -> BOOLEAN \cup {None}]
      BY <2>1, <3>1 DEF OnPropertyUpdate, Inv, TypeOK, StreamTypeOK
    <3>4. initialized' \subseteq (Tasks \cup Motors) \X MotorStreams
      <4>1. initialized \subseteq (Tasks \cup Motors) \X MotorStreams
        BY DEF Inv, TypeOK, StreamTypeOK
      <4>2. \A s \in MotorStreams : listening[s] \subseteq Tasks \cup Motors
        BY DEF Inv, TypeOK, StreamTypeOK
      <4>. QED
        BY <2>1, <4>1, <4>2 DEF OnPropertyUpdate
    <3>. QED
      BY <1>1, <3>2, <3>3, <3>4 DEF Inv, TypeOK, StreamTypeOK
  <2>2. CASE OnReply
    <3>1. Head(events).by \in Tasks /\ Head(events).value \in BOOLEAN
      BY <1>2, <2>2, TasksApart DEF Notice, OnReply
    <3>. QED
      BY <2>2, <3>1 DEF OnReply, Inv, TypeOK, StreamTypeOK
  <2>. QED
    BY <2>1, <2>2 DEF Dispatch
<1>4. TypeOK'
  BY <1>1, <1>3 DEF taskVars, serverVars, Inv, TypeOK
<1>5. WireOK'
  BY <1>1, <1>2 DEF Inv, WireOK
<1>. QED
  BY <1>1, <1>4, <1>5, OutsideInv

\* What the server tells the client.
LEMMA TellType ==
  /\ \A m \in Motors : \A v \in BOOLEAN : \A t \in Motors \cup Tasks : Tell(m, v, t) \in Seq(Notice)
  /\ \A ms \in SUBSET Motors : \A v \in BOOLEAN : TellAll(ms, v) \in Seq(Notice)
<1>1. ASSUME NEW m \in Motors, NEW v \in BOOLEAN, NEW t \in Tasks \cup Motors \cup {None}
      PROVE  Event("EVENT", m, v, t) \in Notice
  BY DEF Notice, Event
<1>2. ASSUME NEW ms \in SUBSET Motors, NEW v \in BOOLEAN
      PROVE  TellAll(ms, v) \in Seq(Notice)
  <2>1. PICK order : order = SetToSeq(ms \cap registered)
    OBVIOUS
  <2>2. order \in Seq(Motors)
    <3>1. IsFiniteSet(ms \cap registered) /\ ms \cap registered \subseteq Motors
      BY MotorsAssumption, FS_Subset
    <3>2. order \in Seq(ms \cap registered)
      BY <2>1, <3>1, SetToSeqProperties
    <3>. QED
      BY <3>1, <3>2
  <2>3. TellAll(ms, v) = [i \in 1..Len(order) |-> Event("EVENT", order[i], v, order[i])]
    BY <2>1, <2>2 DEF TellAll
  <2>4. \A i \in 1..Len(order) : order[i] \in Motors
    BY <2>2
  <2>. QED
    BY <1>1, <2>2, <2>3, <2>4
<1>. QED
  BY <1>1, <1>2 DEF Tell

\* What a message's command says of the rest of it.
LEMMA MessageKinds ==
  ASSUME NEW r \in Message
  PROVE  /\ r.command \in {"REGISTER", "UNREGISTER"} =>
                r.property \in Motors /\ r = Msg(r.command, r.property, None)
         /\ r.command = "CHAN_READ" => r.property \in Motors /\ r.by \in Waits
         /\ r.command = "start_one" =>
                r.property \in Motors /\ r.by \in Moves \cup Syncs /\ r = StartOne(r.property, r.by)
         /\ r.command = "prestart_all" => r = Prestart
         /\ r.command = "start_all" => r = StartAll
         /\ r.command = "abort_all" => r = AbortAll
         /\ r.command \in {"REGISTER", "UNREGISTER", "CHAN_READ", "start_one", "prestart_all",
                           "start_all", "abort_all"}
<1>1. CASE r \in Registration
  BY <1>1 DEF Registration, Msg
<1>2. CASE r \in Reading
  BY <1>2 DEF Reading, Msg
<1>3. CASE r \in Starting
  BY <1>3 DEF Starting, StartOne, Msg
<1>4. CASE r \in Bracket
  BY <1>4 DEF Bracket, Prestart, StartAll, AbortAll, Msg
<1>. QED
  BY <1>1, <1>2, <1>3, <1>4 DEF Message

LEMMA ServerStepInv ==
  ASSUME Inv, ServerStep
  PROVE  Inv'
<1>0. /\ requests \in Seq(Message) /\ events \in Seq(Notice) /\ TypeOK
      /\ UNCHANGED <<streamVars, taskVars>>
      /\ commands \in Seq(SUBSET Motion) /\ buffer \subseteq Motion
      /\ moving \in [Motors -> Tasks \cup {None}] /\ registered \subseteq Motors
      /\ collecting \in BOOLEAN
  BY DEF Inv, WireOK, TypeOK, ServerStep, ServeRegister, ServeUnregister, ServeRead,
         ServePrestartAll, ServeStartOne, ServeStartAll, ServeAbortAll, Serve, Execute, Stop
<1>1. ASSUME NEW command, Serve(command)
      PROVE  /\ Head(requests) \in Message /\ Head(requests).command = command
             /\ requests' \in Seq(Message)
  BY <1>0, <1>1 DEF Serve
<1>2. SUFFICES /\ requests' \in Seq(Message) /\ events' \in Seq(Notice)
               /\ registered' \subseteq Motors /\ moving' \in [Motors -> Tasks \cup {None}]
               /\ collecting' \in BOOLEAN /\ buffer' \subseteq Motion
               /\ commands' \in Seq(SUBSET Motion)
  <2>1. StreamTypeOK'
    BY <1>0 DEF streamVars, TypeOK, StreamTypeOK
  <2>2. TypeOK'
    BY <1>0, <1>2, <2>1 DEF taskVars, TypeOK
  <2>. QED
    BY <1>0, <1>2, <2>2, OutsideInv DEF WireOK, streamVars
<1>3. CASE ServeRegister
  <2>1. Head(requests).property \in Motors
    BY <1>1, <1>3, MessageKinds DEF ServeRegister
  <2>2. Event("EVENT", Head(requests).property, moving[Head(requests).property] # None, None)
            \in Notice
    BY <2>1 DEF Event, Notice
  <2>. QED
    BY <1>0, <1>1, <1>3, <2>1, <2>2 DEF ServeRegister
<1>4. CASE ServeUnregister
  BY <1>0, <1>1, <1>4 DEF ServeUnregister
<1>5. CASE ServeRead
  <2>1. Head(requests).property \in Motors /\ Head(requests).by \in Waits
    BY <1>1, <1>5, MessageKinds DEF ServeRead
  <2>2. Event("REPLY", Head(requests).property, moving[Head(requests).property] # None,
              Head(requests).by) \in Notice
    BY <2>1 DEF Event, Notice
  <2>. QED
    BY <1>0, <1>1, <1>5, <2>2 DEF ServeRead, serverVars
<1>6. CASE ServePrestartAll
  BY <1>0, <1>1, <1>6 DEF ServePrestartAll
<1>7. CASE ServeStartOne
  <2>1. <<Head(requests).property, Head(requests).by>> \in Motion
    BY <1>1, <1>7, MessageKinds, TasksApart DEF ServeStartOne, Motion
  <2>2. buffer' \subseteq Motion
    BY <1>0, <1>7, <2>1 DEF ServeStartOne
  <2>3. commands' \in Seq(SUBSET Motion)
    <3>1. PICK motion \in Motion : motion = <<Head(requests).property, Head(requests).by>>
      BY <2>1
    <3>2. commands' = commands \/ commands' = Append(commands, {motion})
      BY <1>7, <3>1 DEF ServeStartOne
    <3>3. {motion} \in SUBSET Motion
      BY <3>1
    <3>. HIDE DEF Motion
    <3>. QED
      BY SMTT(30), <1>0, <3>2, <3>3
  <2>. QED
    BY <1>0, <1>1, <1>7, <2>2, <2>3 DEF ServeStartOne
<1>8. CASE ServeStartAll
  <2>1. commands' \in Seq(SUBSET Motion)
    <3>1. commands' = commands \/ commands' = Append(commands, buffer)
      BY <1>8 DEF ServeStartAll
    <3>2. PICK S : S = SUBSET Motion
      OBVIOUS
    <3>3. buffer \in S /\ commands \in Seq(S)
      BY <1>0, <3>2
    <3>4. commands' \in Seq(S)
      BY <3>1, <3>3
    <3>. QED
      BY <3>2, <3>4
  <2>. QED
    BY <1>0, <1>1, <1>8, <2>1 DEF ServeStartAll
<1>9. CASE ServeAbortAll
  <2>1. TellAll({m \in Motors : moving[m] # None}, FALSE) \in Seq(Notice)
    BY TellType
  <2>2. events' \in Seq(Notice)
    <3>1. PICK e \in Seq(Notice) : events' = events \o e
      BY <1>9, <2>1 DEF ServeAbortAll
    <3>. QED
      BY <1>0, <3>1
  <2>3. <<>> \in Seq(SUBSET Motion)
    OBVIOUS
  <2>. QED
    BY <1>0, <1>1, <1>9, <2>2, <2>3 DEF ServeAbortAll
<1>10. CASE Execute
  <2>1. Head(commands) \subseteq Motion /\ Tail(commands) \in Seq(SUBSET Motion)
    BY <1>0, <1>10 DEF Execute
  <2>2. TellAll({x[1] : x \in Head(commands)}, TRUE) \in Seq(Notice)
    <3>1. {x[1] : x \in Head(commands)} \in SUBSET Motors
      BY <2>1 DEF Motion
    <3>. QED
      BY <3>1, TellType
  <2>3. moving' \in [Motors -> Tasks \cup {None}]
    <3>1. ASSUME NEW m \in Motors, \E x \in Head(commands) : x[1] = m
          PROVE  (CHOOSE x \in Head(commands) : x[1] = m)[2] \in Tasks
      BY <2>1, <3>1 DEF Motion
    <3>. QED
      BY <1>0, <1>10, <3>1 DEF Execute
  <2>4. events' \in Seq(Notice)
    <3>1. PICK e \in Seq(Notice) : events' = events \o e
      BY <1>10, <2>2 DEF Execute
    <3>. QED
      BY <1>0, <3>1
  <2>5. UNCHANGED <<requests, registered, collecting, buffer>> /\ commands' = Tail(commands)
    BY <1>10 DEF Execute
  <2>. QED
    BY <1>0, <2>1, <2>3, <2>4, <2>5
<1>11. ASSUME NEW m \in Motors, Stop(m)
       PROVE  /\ requests' \in Seq(Message) /\ events' \in Seq(Notice)
               /\ registered' \subseteq Motors /\ moving' \in [Motors -> Tasks \cup {None}]
               /\ collecting' \in BOOLEAN /\ buffer' \subseteq Motion
               /\ commands' \in Seq(SUBSET Motion)
  <2>1. Tell(m, FALSE, m) \in Seq(Notice)
    BY TellType
  <2>2. events' \in Seq(Notice)
    <3>1. PICK e \in Seq(Notice) : events' = events \o e
      BY <1>11, <2>1 DEF Stop
    <3>. QED
      BY <1>0, <3>1
  <2>3. UNCHANGED <<requests, registered, collecting, buffer, commands>>
    BY <1>11 DEF Stop
  <2>4. moving' \in [Motors -> Tasks \cup {None}]
    BY <1>0, <1>11 DEF Stop
  <2>. QED
    BY <1>0, <2>2, <2>3, <2>4
<1>. QED
  BY <1>3, <1>4, <1>5, <1>6, <1>7, <1>8, <1>9, <1>10, <1>11 DEF ServerStep

LEMMA InvInit ==
  ASSUME Init
  PROVE  Inv
<1>1. TypeOK /\ WireOK
  <2>1. StreamTypeOK /\ WireOK
    BY DEF Init, StreamInit, StreamTypeOK, WireOK
  <2>2. <<>> \in Seq(Motors) /\ <<>> \in Seq(SUBSET Motion)
    OBVIOUS
  <2>3. /\ batch \in [Syncs -> Seq(Motors)] /\ left \in [Syncs -> Nat]
        /\ pending \in Seq(Motors) /\ commands \in Seq(SUBSET Motion)
    BY <2>2 DEF Init
  <2>. QED
    BY <2>1, <2>3 DEF Init, TypeOK, Ended
<1>2. Labels /\ OneSync /\ Batches
  BY TasksApart, MotorsAssumption DEF Init, Labels, OneSync, Active, Batches, Distinct
<1>3. ASSUME NEW m \in Motors
      PROVE  Counted(m)
  <2>1. MovingHolders(m) = {} /\ SyncedHolders(m) = {}
    BY TasksApart DEF Init, MovingHolders, SyncedHolders
  <2>2. depth[Moving(m)] = 0 /\ depth[Synced(m)] = 0 /\ watchers[m] = 0
    BY StreamFacts DEF Init, StreamInit
  <2>. QED
    BY <2>1, <2>2, FS_EmptySet DEF Counted
<1>. QED
  BY <1>1, <1>2, <1>3 DEF Inv, Counts

LEMMA InvStep ==
  ASSUME Inv, [Next]_vars
  PROVE  Inv'
<1>1. CASE CallStep
  <2>1. \A t \in Moves \ Children : t \in Moves
    OBVIOUS
  <2>. QED
    BY <1>1, EnterGroupInv, ExitGroupInv, MoveInv, MoveRefusedInv, StartMoveInv, WaitUntilInv,
       SyncQuietInv, SyncStartInv DEF CallStep
<1>2. CASE Dispatch
  BY <1>2, DispatchInv
<1>3. CASE ServerStep
  BY <1>3, ServerStepInv
<1>4. ASSUME NEW t \in Tasks, Resume(t)
      PROVE  Inv'
  <2>1. t \in Children => t \in Moves
    BY MotorsAssumption DEF Children
  <2>. QED
    BY <1>4, <2>1, ReturnInv, MoveInv, MoveRefusedInv, WaitReadInv, SyncUnwindInv DEF Resume
<1>5. CASE UNCHANGED vars
  <2>1. TypeOK' /\ WireOK'
    BY <1>5 DEF vars, streamVars, taskVars, serverVars, Inv, TypeOK, StreamTypeOK, WireOK
  <2>. QED
    BY <1>5, <2>1, OutsideInv DEF vars, streamVars
<1>. QED
  BY <1>1, <1>2, <1>3, <1>4, <1>5 DEF Next

LEMMA Invariance == Spec => []Inv
<1>. QED
  BY InvInit, InvStep, PTL DEF Spec

\* Type correctness: in particular no count of watchers or of subscribers of a
\* stream falls below zero, whatever contexts overlap and however they end.
THEOREM TypeCorrect == Spec => []TypeOK
<1>1. Inv => TypeOK
  BY DEF Inv
<1>. QED
  BY <1>1, Invariance, PTL

(***************************************************************************)
(* What the messages on their way will make of the server's collecting     *)
(* flag and its buffer: NoHalfStart and StartTogether are about what the   *)
(* server has already done, their invariant about what it is going to do.  *)
(***************************************************************************)
Plain(r) == r.command \notin {"prestart_all", "start_one", "start_all", "abort_all"}

\* Message r takes the server from collecting = c, buffer = b to d and e.
Handles(r, c, b, d, e) ==
    /\ r.command = "prestart_all" => d = TRUE /\ e = b
    /\ r.command = "start_one" => d = c /\ e = IF c THEN b \cup {<<r.property, r.by>>} ELSE b
    /\ r.command \in {"start_all", "abort_all"} => d = FALSE /\ e = {}
    /\ Plain(r) => d = c /\ e = b

\* It comes at the right moment: a motion is collected iff it is one of a
\* synchronized context, and what start_all starts is one of the sets in B.
Timely(B, r, c, b) ==
    /\ r.command = "start_one" => (r.by \in Syncs <=> c)
    /\ r.command = "start_all" => b \in B

Handling(B) ==
    {s \in (BOOLEAN \X SUBSET Motion) \X Message \X (BOOLEAN \X SUBSET Motion) :
        /\ Handles(s[2], s[1][1], s[1][2], s[3][1], s[3][2])
        /\ Timely(B, s[2], s[1][1], s[1][2])}
Runs(B, q, c, b, d, e) == Path(BOOLEAN \X SUBSET Motion, Handling(B), q, <<c, b>>, <<d, e>>)

LEMMA HandlingStep ==
  ASSUME NEW B, NEW r \in Message, NEW c \in BOOLEAN, NEW b \in SUBSET Motion,
         NEW d \in BOOLEAN, NEW e \in SUBSET Motion
  PROVE  <<<<c, b>>, r, <<d, e>>>> \in Handling(B)
            <=> Handles(r, c, b, d, e) /\ Timely(B, r, c, b)
BY DEF Handling

LEMMA RunsNone ==
  ASSUME NEW B, NEW c \in BOOLEAN, NEW b \in SUBSET Motion
  PROVE  /\ Runs(B, <<>>, c, b, c, b)
         /\ \A d, e : Runs(B, <<>>, c, b, d, e) => d = c /\ e = b
<1>1. <<c, b>> \in BOOLEAN \X SUBSET Motion
  OBVIOUS
<1>2. ASSUME NEW d, NEW e, Runs(B, <<>>, c, b, d, e)
      PROVE  d = c /\ e = b
  <2>1. <<d, e>> = <<c, b>>
    BY <1>1, <1>2, PathNone DEF Runs
  <2>. QED
    BY <2>1
<1>. QED
  BY <1>1, <1>2, PathNone DEF Runs

LEMMA RunsOne ==
  ASSUME NEW B, NEW r \in Message, NEW c \in BOOLEAN, NEW b \in SUBSET Motion,
         NEW d \in BOOLEAN, NEW e \in SUBSET Motion,
         Handles(r, c, b, d, e), Timely(B, r, c, b)
  PROVE  Runs(B, <<r>>, c, b, d, e)
<1>1. <<c, b>> \in BOOLEAN \X SUBSET Motion /\ <<d, e>> \in BOOLEAN \X SUBSET Motion
  OBVIOUS
<1>2. <<<<c, b>>, r, <<d, e>>>> \in Handling(B)
  BY HandlingStep
<1>. QED
  BY <1>1, <1>2, PathOne DEF Runs

LEMMA RunsConcat ==
  ASSUME NEW S, NEW B, NEW q \in Seq(S), NEW x \in Seq(S), NEW c, NEW b, NEW d, NEW e, NEW c2,
         NEW b2, Runs(B, q, c, b, d, e), Runs(B, x, d, e, c2, b2)
  PROVE  Runs(B, q \o x, c, b, c2, b2)
BY PathConcat DEF Runs

LEMMA RunsHead ==
  ASSUME NEW B, NEW q \in Seq(Message), q # <<>>, NEW c \in BOOLEAN, NEW b \in SUBSET Motion,
         NEW d, NEW e, Runs(B, q, c, b, d, e)
  PROVE  \E c2 \in BOOLEAN, b2 \in SUBSET Motion :
            /\ Handles(Head(q), c, b, c2, b2) /\ Timely(B, Head(q), c, b)
            /\ Runs(B, Tail(q), c2, b2, d, e)
<1>1. PICK z \in BOOLEAN \X SUBSET Motion :
          /\ <<<<c, b>>, Head(q), z>> \in Handling(B)
          /\ Path(BOOLEAN \X SUBSET Motion, Handling(B), Tail(q), z, <<d, e>>)
  BY PathHead DEF Runs
<1>2. PICK c2 \in BOOLEAN, b2 \in SUBSET Motion : z = <<c2, b2>>
  OBVIOUS
<1>3. Head(q) \in Message
  OBVIOUS
<1>4. Handles(Head(q), c, b, c2, b2) /\ Timely(B, Head(q), c, b)
  BY <1>1, <1>2, <1>3, HandlingStep
<1>. QED
  BY <1>1, <1>2, <1>4 DEF Runs

LEMMA RunsMore ==
  ASSUME NEW B, NEW C, B \subseteq C, NEW q, NEW c, NEW b, NEW d, NEW e, Runs(B, q, c, b, d, e)
  PROVE  Runs(C, q, c, b, d, e)
<1>1. Handling(B) \subseteq Handling(C)
  BY DEF Handling, Timely
<1>. QED
  BY <1>1, PathMore DEF Runs

\* Messages that do not concern motions.
LEMMA RunsPlain ==
  ASSUME NEW B, NEW q \in Seq(Registration), NEW c \in BOOLEAN, NEW b \in SUBSET Motion
  PROVE  Runs(B, q, c, b, c, b)
<1>1. ASSUME NEW r \in Registration
      PROVE  <<<<c, b>>, r, <<c, b>>>> \in Handling(B)
  <2>1. r \in Message /\ Plain(r) /\ r.command \in {"REGISTER", "UNREGISTER"}
    BY DEF Message, Plain, Registration, Msg
  <2>2. Handles(r, c, b, c, b) /\ Timely(B, r, c, b)
    BY <2>1 DEF Handles, Timely
  <2>. QED
    BY <2>1, <2>2, HandlingStep
<1>2. <<c, b>> \in BOOLEAN \X SUBSET Motion
  OBVIOUS
<1>. QED
  BY <1>1, <1>2, PathStay DEF Runs

\* The motions of a synchronized context, after prestart_all.
LEMMA RunsStarts ==
  ASSUME NEW B, NEW t \in Syncs, NEW ms \in Seq(Motors), NEW q \in Seq(Message), Len(q) <= Len(ms),
         \A i \in 1..Len(q) : q[i] = StartOne(ms[i], t)
  PROVE  Runs(B, q, TRUE, {}, TRUE, {<<ms[i], t>> : i \in 1..Len(q)})
<1>. DEFINE n == Len(q)
            g(i) == {<<ms[l], t>> : l \in 1..i}
            f == [i \in 0..n |-> <<TRUE, g(i)>>]
<1>1. n \in Nat /\ \A i \in 1..n : ms[i] \in Motors /\ q[i] = StartOne(ms[i], t) /\ q[i] \in Message
  OBVIOUS
<1>. HIDE DEF n
<1>2. \A i \in 0..n : g(i) \in SUBSET Motion
  <2>1. \A i \in 1..n : <<ms[i], t>> \in Motion
    BY <1>1, TasksApart DEF Motion
  <2>. QED
    BY <1>1, <2>1
<1>3. g(0) = {} /\ \A i \in 1..n : g(i) = g(i - 1) \cup {<<ms[i], t>>}
  <2>1. \A i \in 1..n : 1..i = 1..(i - 1) \cup {i}
    BY <1>1
  <2>. QED
    BY <1>1, <2>1
<1>4. g(n) = {<<ms[i], t>> : i \in 1..n}
  OBVIOUS
<1>. HIDE DEF g
<1>5. /\ f \in [0..n -> BOOLEAN \X SUBSET Motion]
      /\ f[0] = <<TRUE, {}>> /\ f[n] = <<TRUE, g(n)>>
      /\ \A i \in 0..n : f[i] = <<TRUE, g(i)>>
  <2>1. \A i \in 0..n : <<TRUE, g(i)>> \in BOOLEAN \X SUBSET Motion
    BY <1>2
  <2>2. 0 \in 0..n /\ n \in 0..n
    BY <1>1
  <2>3. \A i \in 0..n : f[i] = <<TRUE, g(i)>>
    OBVIOUS
  <2>4. f \in [0..n -> BOOLEAN \X SUBSET Motion]
    BY <2>1
  <2>. QED
    BY <1>3, <2>2, <2>3, <2>4
<1>. HIDE DEF f
<1>6. ASSUME NEW i \in 1..n
      PROVE  <<f[i - 1], q[i], f[i]>> \in Handling(B)
  <2>1. i \in 0..n /\ i - 1 \in 0..n
    BY <1>1
  <2>2. /\ q[i].command = "start_one" /\ q[i].property = ms[i] /\ q[i].by = t /\ q[i] \in Message
    <3>1. q[i] = StartOne(ms[i], t) /\ q[i] \in Message
      BY <1>1
    <3>. QED
      BY <3>1 DEF StartOne, Msg
  <2>3. Handles(q[i], TRUE, g(i - 1), TRUE, g(i)) /\ Timely(B, q[i], TRUE, g(i - 1))
    BY <1>3, <2>2 DEF Handles, Timely, Plain
  <2>4. <<<<TRUE, g(i - 1)>>, q[i], <<TRUE, g(i)>>>> \in Handling(B)
    BY <1>2, <2>1, <2>2, <2>3, HandlingStep
  <2>. QED
    BY <1>5, <2>1, <2>4
<1>7. Path(BOOLEAN \X SUBSET Motion, Handling(B), q, <<TRUE, {}>>, <<TRUE, g(n)>>)
  BY <1>5, <1>6 DEF Path, n
<1>. QED
  BY <1>4, <1>7 DEF Runs, n

(***************************************************************************)
(* The invariant of the synchronized starts.  d and e are what collecting  *)
(* and buffer come to when the last message has been handled: the server   *)
(* is only left collecting when a context that will still send abort_all   *)
(* is on its way out.                                                      *)
(***************************************************************************)
Whole(t) == {<<m, t>> : m \in Range(batch[t])}
Begun == {"unwinding"} \cup Ended
WholeBatches == {Whole(t) : t \in {u \in Syncs : pc[u] \in Begun}}
EndOK(d, e) == /\ ~d => e = {}
               /\ d => \E t \in Syncs : pc[t] = "unwinding" /\ t \in raised
InOrder == \E d \in BOOLEAN, e \in SUBSET Motion :
               Runs(WholeBatches, requests, collecting, buffer, d, e) /\ EndOK(d, e)
CommandsOK == \A i \in 1..Len(commands) :
                  \/ commands[i] \in WholeBatches
                  \/ \E m \in Motors, t \in Moves : commands[i] = {<<m, t>>}
StartsOK == InOrder /\ CommandsOK

LEMMA WholeStays ==
  ASSUME \A t \in Syncs : pc[t] \in Begun => pc'[t] \in Begun /\ batch'[t] = batch[t]
  PROVE  WholeBatches \subseteq WholeBatches'
BY DEF WholeBatches, Whole

\* Messages are sent: reg are registrations.
LEMMA SendRuns ==
  ASSUME NEW B, NEW q \in Seq(Message), NEW reg \in Seq(Registration), NEW more \in Seq(Message),
         NEW c, NEW b, NEW d \in BOOLEAN, NEW e \in SUBSET Motion, NEW d2, NEW e2,
         Runs(B, q, c, b, d, e), Runs(B, more, d, e, d2, e2)
  PROVE  Runs(B, q \o reg \o more, c, b, d2, e2)
<1>1. Runs(B, reg, d, e, d, e)
  BY RunsPlain
<1>2. reg \in Seq(Message)
  BY DEF Message
<1>3. Runs(B, q \o reg, c, b, d, e) /\ q \o reg \in Seq(Message)
  BY <1>1, <1>2, RunsConcat
<1>. QED
  BY <1>3, RunsConcat

LEMMA StartingSend ==
  ASSUME Inv, StartsOK, UNCHANGED <<collecting, buffer, commands>>,
         \A t \in Syncs : pc[t] \in Begun => pc'[t] \in Begun /\ batch'[t] = batch[t],
         NEW reg \in Seq(Registration), NEW more \in Seq(Message),
         requests' = requests \o reg \o more,
         \A d \in BOOLEAN, e \in SUBSET Motion : EndOK(d, e) =>
            \E d2 \in BOOLEAN, e2 \in SUBSET Motion :
                Runs(WholeBatches', more, d, e, d2, e2) /\ EndOK(d2, e2)'
  PROVE  StartsOK'
<1>1. WholeBatches \subseteq WholeBatches'
  BY WholeStays
<1>2. CommandsOK'
  BY <1>1 DEF StartsOK, CommandsOK
<1>3. PICK d \in BOOLEAN, e \in SUBSET Motion :
          Runs(WholeBatches, requests, collecting, buffer, d, e) /\ EndOK(d, e)
  BY DEF StartsOK, InOrder
<1>4. PICK d2 \in BOOLEAN, e2 \in SUBSET Motion :
          Runs(WholeBatches', more, d, e, d2, e2) /\ EndOK(d2, e2)'
  BY <1>3
<1>5. Runs(WholeBatches', requests, collecting, buffer, d, e)
  BY <1>1, <1>3, RunsMore
<1>6. Runs(WholeBatches', requests', collecting', buffer', d2, e2)
  BY <1>4, <1>5, SendRuns DEF Inv, WireOK
<1>. QED
  BY <1>2, <1>4, <1>6 DEF StartsOK, InOrder

\* Nothing that concerns motions is sent, and no context with an exception
\* ends.
LEMMA StartingQuiet ==
  ASSUME Inv, StartsOK, UNCHANGED <<collecting, buffer, commands>>,
         \A t \in Syncs : pc[t] \in Begun => pc'[t] \in Begun /\ batch'[t] = batch[t],
         \A t \in Syncs : pc[t] = "unwinding" /\ t \in raised =>
                          pc'[t] = "unwinding" /\ t \in raised',
         \/ requests' = requests
         \/ \E reg \in Seq(Registration) : requests' = requests \o reg \o <<>>
  PROVE  StartsOK'
<1>1. PICK reg \in Seq(Registration) : requests' = requests \o reg \o <<>>
  <2>1. CASE requests' = requests
    <3>1. requests \o <<>> \o <<>> = requests /\ <<>> \in Seq(Registration)
      BY DEF Inv, WireOK
    <3>. QED
      BY <2>1, <3>1
  <2>. QED
    BY <2>1
<1>2. ASSUME NEW d \in BOOLEAN, NEW e \in SUBSET Motion, EndOK(d, e)
      PROVE  Runs(WholeBatches', <<>>, d, e, d, e) /\ EndOK(d, e)'
  <2>1. EndOK(d, e)'
    BY <1>2 DEF EndOK
  <2>. QED
    BY <2>1, RunsNone
<1>3. <<>> \in Seq(Message)
  OBVIOUS
<1>. QED
  BY <1>1, <1>2, <1>3, StartingSend

LEMMA EnterSends ==
  ASSUME StreamTypeOK, WireOK, NEW m \in Motors, NEW o \in Tasks \cup Motors,
         NEW more \in Seq(Message), Enter(o, <<Moving(m)>>, more)
  PROVE  \E reg \in Seq(Registration) : requests' = requests \o reg \o more
<1>1. PICK reg : reg = IF watchers[m] = 0 THEN <<Msg("REGISTER", m, None)>> ELSE <<>>
  OBVIOUS
<1>2. requests' = requests \o reg \o more
  BY <1>1, EnterMoving
<1>3. Msg("REGISTER", m, None) \in Registration
  BY DEF Registration
<1>4. reg \in Seq(Registration)
  BY <1>1, <1>3
<1>. QED
  BY <1>2, <1>4

LEMMA SyncedSends ==
  ASSUME StreamTypeOK, WireOK, NEW t \in Syncs, NEW ms \in Seq(Motors),
         NEW more \in Seq(Message), Enter(t, [i \in 1..Len(ms) |-> Synced(ms[i])], more)
  PROVE  \E reg \in Seq(Registration) : requests' = requests \o reg \o more
BY EnterSynced

LEMMA ExitSends ==
  ASSUME WireOK, NEW s, StreamMotor(s) \in Motors, NEW o, NEW more \in Seq(Message),
         Exit(o, s, more)
  PROVE  \E reg \in Seq(Registration) : requests' = requests \o reg \o more
<1>1. PICK reg : reg = IF ~ExitRaises(o, s) /\ watchers[StreamMotor(s)] = 1
                         THEN <<Msg("UNREGISTER", StreamMotor(s), None)>> ELSE <<>>
  OBVIOUS
<1>2. reg \in Seq(Registration)
  <2>1. Msg("UNREGISTER", StreamMotor(s), None) \in Registration
    BY DEF Registration
  <2>. QED
    BY <1>1, <2>1
<1>3. requests' = requests \o reg \o more
  <2>1. CASE ExitRaises(o, s)
    <3>1. requests \o <<>> = requests
      BY DEF WireOK
    <3>. QED
      BY <1>1, <2>1, <3>1 DEF Exit
  <2>2. CASE ~ExitRaises(o, s)
    BY <1>1, <2>2 DEF Exit
  <2>. QED
    BY <2>1, <2>2
<1>. QED
  BY <1>2, <1>3

\* Groups, waits, and what refuses or only prepares: plain messages at most.
LEMMA StartsPlain ==
  ASSUME Inv, StartsOK,
         \/ \E m \in Motors : EnterGroup(m) \/ ExitGroup(m)
         \/ \E t \in Moves : MoveRefused(t)
         \/ \E t \in Starts : StartMove(t)
         \/ \E t \in Waits : WaitRead(t)
         \/ \E t \in Moves \cup Starts \cup Waits : Return(t)
         \/ \E t \in Syncs : \/ SyncRefused(t) \/ SyncEnter(t) \/ SyncBodyRaises(t)
                             \/ \E m \in Motors : PrepareMove(t, m)
         \/ Dispatch \/ UNCHANGED vars
  PROVE  StartsOK'
<1>1. StreamTypeOK /\ WireOK /\ <<>> \in Seq(Message)
      /\ pc \in [Tasks -> {"idle", "called", "reading", "waiting", "preparing", "unwinding"}
                          \cup Ended]
  BY DEF Inv, TypeOK
<1>2. UNCHANGED <<collecting, buffer, commands, raised, batch>>
  BY DEF EnterGroup, ExitGroup, MoveRefused, StartMove, WaitRead, Return, SyncRefused, SyncEnter,
         SyncBodyRaises, PrepareMove, Dispatch, vars, taskVars, serverVars
<1>. DEFINE Sent == \/ requests' = requests
                    \/ \E reg \in Seq(Registration) : requests' = requests \o reg \o <<>>
            Kept == \A u \in Syncs : /\ pc[u] \in Begun => pc'[u] \in Begun
                                     /\ pc[u] = "unwinding" => pc'[u] = "unwinding"
<1>3. Sent
  <2>1. ASSUME NEW m \in Motors, EnterGroup(m) PROVE Sent
    BY <1>1, <2>1, EnterSends DEF EnterGroup
  <2>2. ASSUME NEW m \in Motors, ExitGroup(m) PROVE Sent
    BY <1>1, <2>2, ExitSends, StreamFacts DEF ExitGroup
  <2>3. ASSUME NEW t \in Starts, StartMove(t) PROVE Sent
    BY <1>1, <2>3, EnterSends, TasksApart DEF StartMove
  <2>4. ASSUME NEW t \in Moves \cup Starts \cup Waits, Return(t) PROVE Sent
    BY <1>1, <2>4, ExitSends, StreamFacts, TasksApart DEF Return
  <2>5. ASSUME \/ \E t \in Moves : MoveRefused(t)
               \/ \E t \in Waits : WaitRead(t)
               \/ \E t \in Syncs : \/ SyncRefused(t) \/ SyncEnter(t) \/ SyncBodyRaises(t)
                                   \/ \E m \in Motors : PrepareMove(t, m)
               \/ Dispatch \/ UNCHANGED vars
        PROVE  Sent
    BY <2>5 DEF MoveRefused, WaitRead, SyncRefused, SyncEnter, SyncBodyRaises, PrepareMove,
                Dispatch, OnPropertyUpdate, OnReply, vars
  <2>. QED
    BY <2>1, <2>2, <2>3, <2>4, <2>5
<1>4. Kept
  <2>1. ASSUME NEW t \in Tasks, NEW l, t \in Syncs => pc[t] \notin Begun \/ l = pc[t],
               pc' = [pc EXCEPT ![t] = l]
        PROVE  Kept
    BY <1>1, <2>1, TasksApart DEF Begun
  <2>2. CASE pc' = pc
    BY <2>2
  <2>3. ASSUME NEW t \in Starts, StartMove(t) PROVE Kept
    <3>1. /\ pc' = [pc EXCEPT ![t] = "waiting", ![Child[t]] = "called"]
          /\ Child[t] \notin Syncs /\ t \notin Syncs
      BY <2>3, TasksApart, MotorsAssumption DEF StartMove
    <3>. QED
      BY <1>1, <3>1, TasksApart
  <2>4. ASSUME NEW t \in Moves, MoveRefused(t) PROVE Kept
    BY <2>1, <2>4, TasksApart DEF MoveRefused, Goto
  <2>5. ASSUME NEW t \in Waits, WaitRead(t) PROVE Kept
    BY <2>1, <2>5, TasksApart DEF WaitRead, Goto
  <2>6. ASSUME NEW t \in Moves \cup Starts \cup Waits, Return(t) PROVE Kept
    BY <2>1, <2>6, TasksApart DEF Return, Goto
  <2>7. ASSUME NEW t \in Syncs, SyncRefused(t) \/ SyncEnter(t) \/ SyncBodyRaises(t) PROVE Kept
    BY <2>1, <2>7, TasksApart DEF SyncRefused, SyncEnter, SyncBodyRaises, Goto, Callable, Begun,
       Ended
  <2>8. ASSUME \/ \E m \in Motors : EnterGroup(m) \/ ExitGroup(m)
               \/ \E t \in Syncs, m \in Motors : PrepareMove(t, m)
               \/ Dispatch \/ UNCHANGED vars
        PROVE  pc' = pc
    BY <2>8 DEF EnterGroup, ExitGroup, PrepareMove, Dispatch, vars, taskVars
  <2>. QED
    BY <2>2, <2>3, <2>4, <2>5, <2>6, <2>7, <2>8
<1>. QED
  BY <1>2, <1>3, <1>4, StartingQuiet

\* A read is a plain message too.
LEMMA StartsWaitUntil ==
  ASSUME Inv, StartsOK, NEW t \in Waits, WaitUntil(t)
  PROVE  StartsOK'
<1>1. PICK more : /\ more = IF cache[MotorOf[t]] = None
                              THEN <<Msg("CHAN_READ", MotorOf[t], t)>> ELSE <<>>
                  /\ Enter(t, <<Moving(MotorOf[t])>>, more)
  BY DEF WaitUntil
<1>2. more \in Seq(Message) /\ MotorOf[t] \in Motors /\ t \in Tasks
  BY <1>1, MessageFacts, TasksApart
<1>3. PICK reg \in Seq(Registration) : requests' = requests \o reg \o more
  BY <1>1, <1>2, EnterSends DEF Inv, TypeOK
<1>4. UNCHANGED <<collecting, buffer, commands, raised, batch>>
      /\ \A u \in Syncs : pc'[u] = pc[u]
  <2>1. PICK l : pc' = [pc EXCEPT ![t] = l]
    BY DEF WaitUntil, Goto
  <2>. QED
    BY <2>1, TasksApart DEF WaitUntil, Inv, TypeOK, serverVars
<1>5. ASSUME NEW d \in BOOLEAN, NEW e \in SUBSET Motion, EndOK(d, e)
      PROVE  Runs(WholeBatches', more, d, e, d, e) /\ EndOK(d, e)'
  <2>1. EndOK(d, e)'
    BY <1>4, <1>5 DEF EndOK
  <2>2. CASE more = <<>>
    BY <2>1, <2>2, RunsNone
  <2>3. CASE more # <<>>
    <3>1. PICK r \in Message : r = Msg("CHAN_READ", MotorOf[t], t)
      BY <1>2, MessageFacts
    <3>2. more = <<r>> /\ r.command = "CHAN_READ"
      BY <1>1, <2>3, <3>1 DEF Msg
    <3>3. Handles(r, d, e, d, e) /\ Timely(WholeBatches', r, d, e)
      BY <3>2 DEF Handles, Timely, Plain
    <3>. QED
      BY <2>1, <3>2, <3>3, RunsOne
  <2>. QED
    BY <2>2, <2>3
<1>. QED
  BY <1>2, <1>3, <1>4, <1>5, StartingSend

\* move() is refused while motors are synchronized, so its start_one comes when
\* the server does not collect.
LEMMA StartsMove ==
  ASSUME Inv, StartsOK, NEW t \in Moves, Move(t)
  PROVE  StartsOK'
<1>1. /\ ~syncing /\ MotorOf[t] \in Motors /\ t \in Tasks /\ t \notin Syncs
      /\ Enter(t, <<Moving(MotorOf[t])>>, <<StartOne(MotorOf[t], t)>>)
      /\ pc' = [pc EXCEPT ![t] = "waiting"]
      /\ UNCHANGED <<collecting, buffer, commands, raised, batch>>
      /\ <<StartOne(MotorOf[t], t)>> \in Seq(Message)
  BY TasksApart, MessageFacts DEF Move, Goto, serverVars
<1>2. PICK reg \in Seq(Registration) :
          requests' = requests \o reg \o <<StartOne(MotorOf[t], t)>>
  BY <1>1, EnterSends DEF Inv, TypeOK
<1>3. \A u \in Syncs : pc'[u] = pc[u]
  BY <1>1, TasksApart DEF Inv, TypeOK
<1>4. ASSUME NEW d \in BOOLEAN, NEW e \in SUBSET Motion, EndOK(d, e)
      PROVE  /\ Runs(WholeBatches', <<StartOne(MotorOf[t], t)>>, d, e, d, e)
             /\ EndOK(d, e)'
  <2>1. ~d
    BY <1>1, <1>4 DEF EndOK, Inv, OneSync, Active
  <2>2. EndOK(d, e)'
    BY <1>4, <2>1 DEF EndOK
  <2>3. PICK r \in Message : r = StartOne(MotorOf[t], t)
    BY <1>1, TasksApart, MessageFacts
  <2>4. r.command = "start_one" /\ r.by = t
    BY <2>3 DEF StartOne, Msg
  <2>5. Handles(r, d, e, d, e) /\ Timely(WholeBatches', r, d, e)
    BY <1>1, <2>1, <2>4 DEF Handles, Timely, Plain
  <2>. QED
    BY <2>2, <2>3, <2>5, RunsOne
<1>. QED
  BY <1>1, <1>2, <1>3, <1>4, StartingSend

\* All the messages of a synchronized context; those before the refused target
\* if one is refused.
LEMMA SyncRuns ==
  ASSUME pending \in Seq(Motors), NEW t \in Syncs, NEW k \in 1..(Len(pending) + 1), NEW B,
         {<<m, t>> : m \in Range(pending)} \in B
  PROVE  \E d \in BOOLEAN, e \in SUBSET Motion :
            /\ Runs(B, SyncMessages(t, k), FALSE, {}, d, e)
            /\ d <=> k <= Len(pending)
            /\ ~d => e = {}
<1>1. PICK q : q = StartEach(t, SubSeq(pending, 1, k - 1))
  OBVIOUS
<1>2. /\ q \in Seq(Message) /\ Len(q) = k - 1 /\ \A i \in 1..Len(q) : q[i] = StartOne(pending[i], t)
      /\ Brackets(k) \in Seq(Message) /\ <<Prestart>> \in Seq(Message)
  BY <1>1, SyncMessagesType, MessageFacts
<1>3. PICK e : e = {<<pending[i], t>> : i \in 1..Len(q)}
  OBVIOUS
<1>4. e \in SUBSET Motion
  <2>1. \A i \in 1..Len(q) : <<pending[i], t>> \in Motion
    BY <1>2, TasksApart DEF Motion
  <2>. QED
    BY <1>3, <2>1
<1>5. Runs(B, <<Prestart>>, FALSE, {}, TRUE, {})
  <2>1. PICK r \in Message : r = Prestart
    BY MessageFacts
  <2>2. r.command = "prestart_all"
    BY <2>1 DEF Prestart, Msg
  <2>3. Handles(r, FALSE, {}, TRUE, {}) /\ Timely(B, r, FALSE, {})
    BY <2>2 DEF Handles, Timely, Plain
  <2>. QED
    BY <2>1, <2>3, RunsOne
<1>6. Runs(B, q, TRUE, {}, TRUE, e)
  <2>1. Len(q) <= Len(pending)
    BY <1>2
  <2>. QED
    BY <1>2, <1>3, <2>1, RunsStarts
<1>7. /\ Runs(B, <<Prestart>> \o q, FALSE, {}, TRUE, e)
      /\ <<Prestart>> \o q \in Seq(Message)
  <2>1. PICK p \in Seq(Message) : p = <<Prestart>>
    BY <1>2
  <2>2. Runs(B, p \o q, FALSE, {}, TRUE, e)
    BY <1>2, <1>5, <1>6, <2>1, RunsConcat
  <2>3. p \o q \in Seq(Message)
    BY <1>2
  <2>. QED
    BY <2>1, <2>2, <2>3
<1>8. SyncMessages(t, k) = <<Prestart>> \o q \o Brackets(k)
  BY <1>1 DEF SyncMessages, Prestarting
<1>9. CASE k <= Len(pending)
  <2>1. Brackets(k) = <<>>
    BY <1>9 DEF Brackets
  <2>2. Runs(B, <<>>, TRUE, e, TRUE, e)
    BY <1>4, RunsNone
  <2>3. Runs(B, SyncMessages(t, k), FALSE, {}, TRUE, e)
    BY <1>2, <1>7, <1>8, <2>1, <2>2, RunsConcat
  <2>. QED
    BY <1>4, <1>9, <2>3
<1>10. CASE k > Len(pending)
  <2>1. Brackets(k) = <<StartAll>> /\ Len(q) = Len(pending)
    BY <1>2, <1>10 DEF Brackets
  <2>2. e = {<<m, t>> : m \in Range(pending)}
    BY <1>3, <2>1 DEF Range
  <2>3. Runs(B, <<StartAll>>, TRUE, e, FALSE, {})
    <3>1. PICK r \in Message : r = StartAll
      BY MessageFacts
    <3>2. r.command = "start_all"
      BY <3>1 DEF StartAll, Msg
    <3>3. Handles(r, TRUE, e, FALSE, {}) /\ Timely(B, r, TRUE, e)
      BY <2>2, <3>2 DEF Handles, Timely, Plain
    <3>. QED
      BY <1>4, <3>1, <3>3, RunsOne
  <2>4. Runs(B, SyncMessages(t, k), FALSE, {}, FALSE, {})
    BY <1>2, <1>7, <1>8, <2>1, <2>3, RunsConcat
  <2>5. ~(k <= Len(pending)) /\ FALSE \in BOOLEAN /\ {} \in SUBSET Motion
    BY <1>10
  <2>. QED
    BY <2>4, <2>5
<1>. QED
  <2>1. k <= Len(pending) \/ k > Len(pending)
    OBVIOUS
  <2>. QED
    BY <1>9, <1>10, <2>1

LEMMA StartsSyncStart ==
  ASSUME Inv, StartsOK, NEW t \in Syncs, SyncStart(t)
  PROVE  StartsOK'
<1>1. PICK k \in 1..(Len(pending) + 1) :
          /\ Enter(t, [i \in 1..Len(pending) |-> Synced(pending[i])], SyncMessages(t, k))
          /\ raised' = IF k > Len(pending) THEN raised ELSE raised \cup {t}
  BY SyncStartHolders
<1>2. /\ pc[t] = "preparing" /\ t \in Tasks
      /\ IF Len(pending) > 0 THEN pc' = [pc EXCEPT ![t] = "unwinding"]
                             ELSE pc' = [pc EXCEPT ![t] = "done"]
      /\ batch' = [batch EXCEPT ![t] = pending]
      /\ pending \in Seq(Motors) /\ SyncMessages(t, k) \in Seq(Message)
      /\ UNCHANGED <<collecting, buffer, commands>>
  <2>1. pending \in Seq(Motors) /\ UNCHANGED serverVars
    BY DEF Inv, TypeOK, SyncStart
  <2>. QED
    BY <2>1, SyncStartHolders, SyncMessagesType, TasksApart DEF serverVars
<1>3. PICK reg \in Seq(Registration) : requests' = requests \o reg \o SyncMessages(t, k)
  <2>1. StreamTypeOK /\ WireOK
    BY DEF Inv, TypeOK
  <2>2. PICK more \in Seq(Message) : more = SyncMessages(t, k)
    BY <1>2
  <2>3. \E reg \in Seq(Registration) : requests' = requests \o reg \o more
    BY <1>1, <1>2, <2>1, <2>2, SyncedSends
  <2>. QED
    BY <2>2, <2>3
<1>4. /\ \A u \in Syncs : u # t => pc'[u] = pc[u] /\ batch'[u] = batch[u]
      /\ batch'[t] = pending
      /\ pc'[t] = IF Len(pending) > 0 THEN "unwinding" ELSE "done"
  BY <1>2, TasksApart DEF Inv, TypeOK
<1>5. {<<m, t>> : m \in Range(pending)} \in WholeBatches'
  <2>1. Whole(t)' = {<<m, t>> : m \in Range(pending)}
    BY <1>4 DEF Whole
  <2>2. pc'[t] \in Begun
    BY <1>4 DEF Begun, Ended
  <2>. QED
    BY <2>1, <2>2 DEF WholeBatches
<1>6. \A u \in Syncs : pc[u] \in Begun => pc'[u] \in Begun /\ batch'[u] = batch[u]
  <2>1. pc[t] \notin Begun
    BY <1>2 DEF Begun, Ended
  <2>. QED
    BY <1>4, <2>1
<1>7. ASSUME NEW d \in BOOLEAN, NEW e \in SUBSET Motion, EndOK(d, e)
      PROVE  \E d2 \in BOOLEAN, e2 \in SUBSET Motion :
                Runs(WholeBatches', SyncMessages(t, k), d, e, d2, e2) /\ EndOK(d2, e2)'
  <2>1. d = FALSE /\ e = {}
    <3>1. \A u \in Syncs : pc[u] # "unwinding"
      BY <1>2 DEF Inv, OneSync, Active
    <3>. QED
      BY <1>7, <3>1 DEF EndOK
  <2>2. PICK d2 \in BOOLEAN, e2 \in SUBSET Motion :
          /\ Runs(WholeBatches', SyncMessages(t, k), FALSE, {}, d2, e2)
          /\ d2 <=> k <= Len(pending)
          /\ ~d2 => e2 = {}
    BY ZenonT(60), <1>2, <1>5, SyncRuns
  <2>3. d2 => pc'[t] = "unwinding" /\ t \in raised'
    BY <1>1, <1>2, <1>4, <2>2
  <2>4. EndOK(d2, e2)'
    BY <2>2, <2>3 DEF EndOK
  <2>. QED
    BY <2>1, <2>2, <2>4
<1>. QED
  BY <1>2, <1>3, <1>6, <1>7, StartingSend

\* The context that leaves the server collecting sends abort_all in the end.
LEMMA StartsSyncUnwind ==
  ASSUME Inv, StartsOK, NEW t \in Syncs, SyncUnwind(t)
  PROVE  StartsOK'
<1>1. PICK m : m = batch[t][left[t]]
  OBVIOUS
<1>2. /\ pc[t] = "unwinding" /\ m \in Motors /\ t \in Tasks
      /\ IF left[t] = 1
           THEN \E l \in {"aborted", "done"} : pc' = [pc EXCEPT ![t] = l]
           ELSE UNCHANGED pc
  BY <1>1, SyncUnwindHolders, TasksApart
<1>3. PICK err \in BOOLEAN :
          /\ t \in raised => err
          /\ Exit(t, Synced(m), IF left[t] = 1 /\ err THEN Aborting(t) ELSE <<>>)
          /\ left[t] # 1 => UNCHANGED pc
  BY <1>1 DEF SyncUnwind
<1>4. PICK more : more = IF left[t] = 1 /\ err THEN <<AbortAll>> ELSE <<>>
  OBVIOUS
<1>5. more \in Seq(Message) /\ Exit(t, Synced(m), more)
  BY <1>3, <1>4, MessageFacts DEF Aborting
<1>6. PICK reg \in Seq(Registration) : requests' = requests \o reg \o more
  BY <1>2, <1>5, StreamFacts, ExitSends DEF Inv
<1>7. /\ UNCHANGED <<batch, collecting, buffer, commands>>
      /\ raised \subseteq raised'
  BY DEF SyncUnwind, serverVars
<1>8. /\ \A u \in Syncs : u # t => pc'[u] = pc[u] /\ pc[u] # "unwinding"
      /\ pc'[t] \in Begun
      /\ left[t] # 1 => pc'[t] = "unwinding"
  <2>1. \A u \in Syncs : u # t => pc'[u] = pc[u]
    BY <1>2, TasksApart DEF Inv, TypeOK
  <2>2. \A u \in Syncs : u # t => pc[u] # "unwinding"
    BY <1>2 DEF Inv, OneSync, Active
  <2>3. left[t] # 1 => pc'[t] = "unwinding"
    BY <1>2
  <2>4. left[t] = 1 => pc'[t] \in Ended
    BY <1>2 DEF Inv, TypeOK, Ended
  <2>. QED
    BY <2>1, <2>2, <2>3, <2>4 DEF Begun
<1>9. \A u \in Syncs : pc[u] \in Begun => pc'[u] \in Begun /\ batch'[u] = batch[u]
  BY <1>7, <1>8
<1>10. ASSUME NEW d \in BOOLEAN, NEW e \in SUBSET Motion, EndOK(d, e)
       PROVE  \E d2 \in BOOLEAN, e2 \in SUBSET Motion :
                Runs(WholeBatches', more, d, e, d2, e2) /\ EndOK(d2, e2)'
  <2>1. CASE left[t] = 1 /\ err
    <3>1. PICK r \in Message : r = AbortAll
      BY MessageFacts
    <3>2. r.command = "abort_all" /\ more = <<r>>
      BY <1>4, <2>1, <3>1 DEF AbortAll, Msg
    <3>3. Handles(r, d, e, FALSE, {}) /\ Timely(WholeBatches', r, d, e)
      BY <3>2 DEF Handles, Timely, Plain
    <3>4. Runs(WholeBatches', more, d, e, FALSE, {})
      BY <3>2, <3>3, RunsOne
    <3>5. EndOK(FALSE, {})'
      BY DEF EndOK
    <3>. QED
      BY <3>4, <3>5
  <2>2. CASE ~(left[t] = 1 /\ err)
    <3>1. Runs(WholeBatches', more, d, e, d, e)
      BY <1>4, <2>2, RunsNone
    <3>2. d => t \in raised
      BY <1>8, <1>10 DEF EndOK
    <3>3. d => pc'[t] = "unwinding" /\ t \in raised'
      BY <1>3, <1>7, <1>8, <2>2, <3>2
    <3>4. EndOK(d, e)'
      BY <1>10, <3>3 DEF EndOK
    <3>. QED
      BY <3>1, <3>4
  <2>. QED
    BY <2>1, <2>2
<1>. QED
  BY <1>5, <1>6, <1>7, <1>9, <1>10, StartingSend

\* The server takes the first message.
LEMMA StartsServe ==
  ASSUME Inv, StartsOK, NEW command, Serve(command), CommandsOK',
         \A d \in BOOLEAN, e \in SUBSET Motion :
            /\ Handles(Head(requests), collecting, buffer, d, e)
            /\ Timely(WholeBatches, Head(requests), collecting, buffer)
            => collecting' = d /\ buffer' = e
  PROVE  StartsOK'
<1>1. requests \in Seq(Message) /\ requests # <<>> /\ requests' = Tail(requests)
      /\ UNCHANGED <<pc, batch, raised>>
  BY DEF Inv, WireOK, Serve, taskVars
<1>2. WholeBatches' = WholeBatches
  BY <1>1 DEF WholeBatches, Whole
<1>3. PICK d \in BOOLEAN, e \in SUBSET Motion :
          Runs(WholeBatches, requests, collecting, buffer, d, e) /\ EndOK(d, e)
  BY DEF StartsOK, InOrder
<1>4. PICK c2 \in BOOLEAN, b2 \in SUBSET Motion :
          /\ Handles(Head(requests), collecting, buffer, c2, b2)
          /\ Timely(WholeBatches, Head(requests), collecting, buffer)
          /\ Runs(WholeBatches, Tail(requests), c2, b2, d, e)
  <2>1. collecting \in BOOLEAN /\ buffer \in SUBSET Motion
    BY DEF Inv, TypeOK
  <2>. QED
    BY SMTT(30), <1>1, <1>3, <2>1, RunsHead
<1>5. collecting' = c2 /\ buffer' = b2
  BY <1>4
<1>6. Runs(WholeBatches', requests', collecting', buffer', d, e)
  BY <1>1, <1>2, <1>4, <1>5
<1>7. EndOK(d, e)'
  BY <1>1, <1>3 DEF EndOK
<1>. QED
  BY <1>6, <1>7 DEF StartsOK, InOrder

LEMMA StartsServer ==
  ASSUME Inv, StartsOK, ServerStep
  PROVE  StartsOK'
<1>1. /\ requests \in Seq(Message) /\ commands \in Seq(SUBSET Motion) /\ buffer \subseteq Motion
      /\ collecting \in BOOLEAN /\ CommandsOK
      /\ UNCHANGED taskVars
  BY DEF Inv, WireOK, TypeOK, StartsOK, ServerStep, ServeRegister, ServeUnregister, ServeRead,
         ServePrestartAll, ServeStartOne, ServeStartAll, ServeAbortAll, Serve, Execute, Stop
<1>2. WholeBatches' = WholeBatches
  BY <1>1 DEF WholeBatches, Whole, taskVars
<1>3. Serve(Head(requests).command) => Head(requests) \in Message
  BY <1>1 DEF Serve
<1>4. commands' = commands => CommandsOK'
  BY <1>1, <1>2 DEF CommandsOK
<1>5. \A b : (b \in WholeBatches \/ \E m \in Motors, t \in Moves : b = {<<m, t>>})
             /\ commands' = Append(commands, b) => CommandsOK'
  <2>1. ASSUME NEW b, b \in WholeBatches \/ \E m \in Motors, t \in Moves : b = {<<m, t>>},
               commands' = Append(commands, b)
        PROVE  CommandsOK'
    <3>1. /\ Len(commands') = Len(commands) + 1 /\ Len(commands) \in Nat
          /\ \A i \in 1..Len(commands) : commands'[i] = commands[i]
          /\ commands'[Len(commands) + 1] = b
      BY <1>1, <2>1
    <3>2. \A i \in 1..Len(commands') : i \in 1..Len(commands) \/ i = Len(commands) + 1
      BY <3>1
    <3>. QED
      BY <1>1, <1>2, <2>1, <3>1, <3>2 DEF CommandsOK
  <2>. QED
    BY <2>1
<1>6. CASE ServeRegister \/ ServeUnregister \/ ServeRead
  <2>1. PICK command \in {"REGISTER", "UNREGISTER", "CHAN_READ"} : Serve(command)
    BY <1>6 DEF ServeRegister, ServeUnregister, ServeRead
  <2>2. UNCHANGED <<collecting, buffer, commands>>
    BY <1>6 DEF ServeRegister, ServeUnregister, ServeRead, serverVars
  <2>3. Head(requests).command = command
    BY <2>1 DEF Serve
  <2>. QED
    BY <1>4, <2>1, <2>2, <2>3, StartsServe DEF Handles, Plain
<1>7. CASE ServePrestartAll
  BY <1>4, <1>7, StartsServe DEF ServePrestartAll, Serve, Handles
<1>8. CASE ServeStartOne
  <2>1. PICK r : r = Head(requests)
    OBVIOUS
  <2>2. /\ r.command = "start_one" /\ r.property \in Motors /\ r.by \in Moves \cup Syncs
        /\ Serve("start_one")
        /\ IF collecting
             THEN buffer' = buffer \cup {<<r.property, r.by>>} /\ UNCHANGED commands
             ELSE commands' = Append(commands, {<<r.property, r.by>>}) /\ UNCHANGED buffer
        /\ UNCHANGED collecting
    BY <1>3, <1>8, <2>1, MessageKinds DEF ServeStartOne, Serve
  <2>3. Timely(WholeBatches, r, collecting, buffer)
    <3>1. PICK d \in BOOLEAN, e \in SUBSET Motion :
              Runs(WholeBatches, requests, collecting, buffer, d, e)
      BY DEF StartsOK, InOrder
    <3>. QED
      BY <1>1, <2>1, <2>2, <3>1, RunsHead DEF Serve
  <2>4. CommandsOK'
    <3>1. CASE collecting
      BY <1>4, <2>2, <3>1
    <3>2. CASE ~collecting
      <4>1. r.by \in Moves
        BY <2>2, <2>3, <3>2 DEF Timely
      <4>. QED
        BY <1>5, <2>2, <3>2, <4>1
    <3>. QED
      BY <3>1, <3>2
  <2>5. ASSUME NEW d \in BOOLEAN, NEW e \in SUBSET Motion, Handles(r, collecting, buffer, d, e)
        PROVE  collecting' = d /\ buffer' = e
    BY <2>2, <2>5 DEF Handles
  <2>. QED
    BY <2>1, <2>2, <2>4, <2>5, StartsServe
<1>9. CASE ServeStartAll
  <2>1. PICK r : r = Head(requests)
    OBVIOUS
  <2>2. /\ r.command = "start_all" /\ Serve("start_all")
        /\ commands' = IF buffer = {} THEN commands ELSE Append(commands, buffer)
        /\ buffer' = {} /\ collecting' = FALSE
    BY <1>9, <2>1 DEF ServeStartAll, Serve
  <2>3. buffer \in WholeBatches
    <3>1. PICK d \in BOOLEAN, e \in SUBSET Motion :
              Runs(WholeBatches, requests, collecting, buffer, d, e)
      BY DEF StartsOK, InOrder
    <3>2. Timely(WholeBatches, r, collecting, buffer)
      BY <1>1, <2>1, <2>2, <3>1, RunsHead DEF Serve
    <3>. QED
      BY <2>2, <3>2 DEF Timely
  <2>4. CommandsOK'
    BY <1>4, <1>5, <2>2, <2>3
  <2>5. ASSUME NEW d \in BOOLEAN, NEW e \in SUBSET Motion, Handles(r, collecting, buffer, d, e)
        PROVE  collecting' = d /\ buffer' = e
    BY <2>2, <2>5 DEF Handles
  <2>. QED
    BY <2>1, <2>2, <2>4, <2>5, StartsServe
<1>10. CASE ServeAbortAll
  <2>1. /\ Head(requests).command = "abort_all" /\ Serve("abort_all")
        /\ buffer' = {} /\ collecting' = FALSE /\ commands' = <<>>
    BY <1>10 DEF ServeAbortAll, Serve
  <2>2. CommandsOK'
    BY <2>1 DEF CommandsOK
  <2>3. ASSUME NEW d \in BOOLEAN, NEW e \in SUBSET Motion,
               Handles(Head(requests), collecting, buffer, d, e)
        PROVE  collecting' = d /\ buffer' = e
    BY <2>1, <2>3 DEF Handles
  <2>. QED
    BY <2>1, <2>2, <2>3, StartsServe
<1>11. CASE Execute
  <2>1. /\ UNCHANGED <<requests, collecting, buffer>>
        /\ commands # <<>> /\ commands' = Tail(commands)
    BY <1>11 DEF Execute
  <2>2. CommandsOK'
    <3>1. /\ Len(commands') = Len(commands) - 1 /\ Len(commands) \in Nat
          /\ \A i \in 1..Len(commands') : commands'[i] = commands[i + 1]
      BY <1>1, <2>1
    <3>2. \A i \in 1..Len(commands') : i + 1 \in 1..Len(commands)
      BY <3>1
    <3>. QED
      BY SMTT(30), <1>1, <1>2, <3>1, <3>2 DEF CommandsOK
  <2>. QED
    BY <1>1, <1>2, <2>1, <2>2 DEF StartsOK, InOrder, EndOK, taskVars
<1>12. ASSUME NEW m \in Motors, Stop(m)
       PROVE  StartsOK'
  <2>1. UNCHANGED <<requests, collecting, buffer, commands>>
    BY <1>12 DEF Stop
  <2>. QED
    BY <1>1, <1>2, <1>4, <2>1 DEF StartsOK, InOrder, EndOK, taskVars
<1>. QED
  BY <1>6, <1>7, <1>8, <1>9, <1>10, <1>11, <1>12 DEF ServerStep

LEMMA StartsInit ==
  ASSUME Init
  PROVE  StartsOK
<1>1. requests = <<>> /\ collecting = FALSE /\ buffer = {} /\ commands = <<>>
  BY DEF Init, StreamInit
<1>2. Runs(WholeBatches, requests, collecting, buffer, FALSE, {})
  BY <1>1, RunsNone
<1>3. EndOK(FALSE, {}) /\ {} \in SUBSET Motion
  BY DEF EndOK
<1>4. InOrder
  BY <1>2, <1>3 DEF InOrder
<1>. QED
  BY <1>1, <1>4 DEF StartsOK, CommandsOK

LEMMA StartsStep ==
  ASSUME Inv, StartsOK, [Next]_vars
  PROVE  StartsOK'
<1>0. \A t \in Children : t \in Moves
  BY MotorsAssumption DEF Children
<1>1. CASE CallStep
  BY <1>1, StartsPlain, StartsMove, StartsWaitUntil, StartsSyncStart DEF CallStep
<1>2. CASE Dispatch
  BY <1>2, StartsPlain
<1>3. CASE ServerStep
  BY <1>3, StartsServer
<1>4. ASSUME NEW t \in Tasks, Resume(t)
      PROVE  StartsOK'
  BY <1>0, <1>4, StartsPlain, StartsMove, StartsSyncUnwind DEF Resume
<1>5. CASE UNCHANGED vars
  BY <1>5, StartsPlain
<1>. QED
  BY <1>1, <1>2, <1>3, <1>4, <1>5 DEF Next

LEMMA StartsInvariance == Spec => []StartsOK
<1>1. Init => StartsOK
  BY StartsInit
<1>2. Inv /\ StartsOK /\ [Next]_vars => StartsOK'
  BY StartsStep
<1>. QED
  BY <1>1, <1>2, Invariance, PTL DEF Spec

\* However a synchronized context ends, normally, by a timeout, by a target
\* that is refused on the way, its flags in the client are cleared with it and
\* not before, and the server is not left collecting motions: the messages that
\* are still on their way end with start_all or abort_all.
THEOREM NeverHalfStarted == Spec => []NoHalfStart
<1>1. Inv /\ StartsOK => NoHalfStart
  <2>. SUFFICES ASSUME Inv, StartsOK, \A t \in Syncs : pc[t] # "unwinding", requests = <<>>
                PROVE  ~collecting /\ buffer = {}
    BY DEF NoHalfStart, Inv, OneSync, Active
  <2>1. PICK d \in BOOLEAN, e \in SUBSET Motion :
            Runs(WholeBatches, requests, collecting, buffer, d, e) /\ EndOK(d, e)
    BY DEF StartsOK, InOrder
  <2>2. collecting \in BOOLEAN /\ buffer \in SUBSET Motion
    BY DEF Inv, TypeOK
  <2>3. d = collecting /\ e = buffer
    BY <2>1, <2>2, RunsNone
  <2>. QED
    BY <2>1, <2>3 DEF EndOK
<1>. QED
  BY <1>1, Invariance, StartsInvariance, PTL

\* The motors of a synchronized context start with one command, all of them,
\* and no motor of another task with them.
THEOREM StartedTogether == Spec => []StartTogether
<1>1. Inv /\ StartsOK => StartTogether
  <2>. SUFFICES ASSUME Inv, StartsOK, NEW i \in 1..Len(commands), NEW x \in commands[i],
                       x[2] \in Syncs
                PROVE  commands[i] = {<<m, x[2]>> : m \in Range(batch[x[2]])}
    <3>1. Inv => DOMAIN commands = 1..Len(commands)
      <4>1. Inv => commands \in Seq(SUBSET Motion)
        BY DEF Inv, TypeOK
      <4>. QED
        BY <4>1
    <3>. QED
      BY <3>1 DEF StartTogether
  <2>1. CASE commands[i] \in WholeBatches
    <3>1. PICK t \in Syncs : commands[i] = {<<m, t>> : m \in Range(batch[t])}
      BY <2>1 DEF WholeBatches, Whole
    <3>2. x[2] = t
      BY <3>1
    <3>. QED
      BY <3>1, <3>2
  <2>2. CASE \E m \in Motors, t \in Moves : commands[i] = {<<m, t>>}
    BY <2>2, TasksApart
  <2>. QED
    BY <2>1, <2>2 DEF StartsOK, CommandsOK
<1>. QED
  BY <1>1, Invariance, StartsInvariance, PTL

(***************************************************************************)
(* What the messages on their way will make of the registrations: the      *)
(* server will know exactly the motors somebody watches.                   *)
(***************************************************************************)
Knowing(x, r) == IF r.command = "REGISTER" THEN x \cup {r.property}
                 ELSE IF r.command = "UNREGISTER" THEN x \ {r.property}
                 ELSE x
Telling == {s \in (SUBSET Motors) \X Message \X (SUBSET Motors) : s[3] = Knowing(s[1], s[2])}
Tells(q, x, y) == Path(SUBSET Motors, Telling, q, x, y)
Watched == {m \in Motors : watchers[m] > 0}
Told == Tells(requests, registered, Watched)

Silent == Message \ Registration

LEMMA TellingStep ==
  ASSUME NEW r \in Message, NEW x \in SUBSET Motors, NEW y \in SUBSET Motors
  PROVE  <<x, r, y>> \in Telling <=> y = Knowing(x, r)
BY DEF Telling

LEMMA TellsRegister ==
  ASSUME NEW m \in Motors, NEW x \in SUBSET Motors
  PROVE  /\ Tells(<<Msg("REGISTER", m, None)>>, x, x \cup {m})
         /\ Tells(<<Msg("UNREGISTER", m, None)>>, x, x \ {m})
<1>1. PICK r \in Message : r = Msg("REGISTER", m, None)
  BY DEF Message, Registration
<1>2. PICK u \in Message : u = Msg("UNREGISTER", m, None)
  BY DEF Message, Registration
<1>3. x \cup {m} \in SUBSET Motors /\ x \ {m} \in SUBSET Motors
  OBVIOUS
<1>4. r.command = "REGISTER" /\ r.property = m /\ u.command = "UNREGISTER" /\ u.property = m
  BY <1>1, <1>2 DEF Msg
<1>5. <<x, r, x \cup {m}>> \in Telling /\ <<x, u, x \ {m}>> \in Telling
  BY <1>3, <1>4, TellingStep DEF Knowing
<1>6. Tells(<<r>>, x, x \cup {m}) /\ Tells(<<u>>, x, x \ {m})
  BY <1>3, <1>5, PathOne DEF Tells
<1>. QED
  BY <1>1, <1>2, <1>6

LEMMA TellsSilent ==
  ASSUME NEW q \in Seq(Silent), NEW x \in SUBSET Motors
  PROVE  Tells(q, x, x)
<1>1. ASSUME NEW r \in Silent
      PROVE  <<x, r, x>> \in Telling
  <2>1. r \in Message /\ r.command \notin {"REGISTER", "UNREGISTER"}
    BY MessageKinds DEF Silent, Registration
  <2>. QED
    BY <2>1, TellingStep DEF Knowing
<1>. QED
  BY <1>1, PathStay DEF Tells

\* Several motors at once.
LEMMA TellsRegisters ==
  ASSUME NEW ms \in Seq(Motors), NEW rs \in Seq(Registration), Registers(ms, rs),
         NEW x \in SUBSET Motors
  PROVE  Tells(rs, x, x \cup {m \in Range(ms) : watchers[m] = 0})
<1>. DEFINE n == Len(rs)
            g(i) == x \cup {rs[l].property : l \in 1..i}
            f == [i \in 0..n |-> g(i)]
<1>0. Range(ms) \subseteq Motors
  BY DEF Range
<1>1. /\ n \in Nat
      /\ \A i \in 1..n : /\ rs[i] \in Message /\ rs[i].command = "REGISTER"
                         /\ rs[i].property \in Range(ms) /\ watchers[rs[i].property] = 0
  <2>1. ASSUME NEW i \in 1..n
        PROVE  /\ rs[i] \in Message /\ rs[i].command = "REGISTER"
               /\ rs[i].property \in Range(ms) /\ watchers[rs[i].property] = 0
    <3>1. rs[i] \in Range(rs) /\ rs[i] \in Message
      BY DEF Range, Message
    <3>2. PICK m \in Range(ms) : watchers[m] = 0 /\ rs[i] = Msg("REGISTER", m, None)
      BY <3>1 DEF Registers
    <3>. QED
      BY <3>1, <3>2 DEF Msg
  <2>. QED
    BY <2>1
<1>2. g(n) = x \cup {m \in Range(ms) : watchers[m] = 0}
  <2>1. ASSUME NEW m \in Range(ms), watchers[m] = 0
        PROVE  \E l \in 1..n : rs[l].property = m
    <3>1. Msg("REGISTER", m, None) \in Range(rs)
      BY <2>1 DEF Registers
    <3>2. PICK l \in 1..n : rs[l] = Msg("REGISTER", m, None)
      BY <3>1 DEF Range
    <3>. QED
      BY <3>2 DEF Msg
  <2>2. \A l \in 1..n : rs[l].property \in {m \in Range(ms) : watchers[m] = 0}
    BY <1>1
  <2>. QED
    BY <2>1, <2>2
<1>. HIDE DEF n
<1>3. \A i \in 0..n : g(i) \in SUBSET Motors
  <2>1. \A i \in 1..n : rs[i].property \in Motors
    BY <1>0, <1>1
  <2>. QED
    BY <1>1, <2>1
<1>4. g(0) = x /\ \A i \in 1..n : g(i) = g(i - 1) \cup {rs[i].property}
  <2>1. \A i \in 1..n : 1..i = 1..(i - 1) \cup {i}
    BY <1>1
  <2>. QED
    BY <1>1, <2>1
<1>. HIDE DEF g
<1>5. /\ f \in [0..n -> SUBSET Motors] /\ f[0] = x /\ f[n] = g(n)
      /\ \A i \in 0..n : f[i] = g(i)
  BY <1>1, <1>3, <1>4
<1>. HIDE DEF f
<1>6. ASSUME NEW i \in 1..n
      PROVE  <<f[i - 1], rs[i], f[i]>> \in Telling
  <2>1. i \in 0..n /\ i - 1 \in 0..n
    BY <1>1
  <2>2. g(i) = g(i - 1) \cup {rs[i].property} /\ rs[i] \in Message /\ rs[i].command = "REGISTER"
    BY <1>1, <1>4
  <2>3. <<g(i - 1), rs[i], g(i)>> \in Telling
    <3>1. g(i) = Knowing(g(i - 1), rs[i])
      BY <2>2 DEF Knowing
    <3>. QED
      BY <1>3, <2>1, <2>2, <3>1, TellingStep
  <2>. QED
    BY <1>5, <2>1, <2>3
<1>7. Tells(rs, x, g(n))
  BY <1>5, <1>6 DEF Tells, Path, n
<1>. QED
  BY <1>2, <1>7

LEMMA ToldSend ==
  ASSUME WireOK, Told, registered' = registered,
         NEW reg \in Seq(Registration), NEW more \in Seq(Silent),
         requests' = requests \o reg \o more, Tells(reg, Watched, Watched')
  PROVE  Told'
<1>1. /\ reg \in Seq(Message) /\ more \in Seq(Message) /\ requests \in Seq(Message)
      /\ requests \o reg \in Seq(Message)
  BY DEF WireOK, Message, Silent
<1>2. Tells(requests \o reg, registered, Watched')
  BY <1>1, PathConcat DEF Told, Tells
<1>3. Tells(more, Watched', Watched')
  BY TellsSilent DEF Watched
<1>4. Tells(requests \o reg \o more, registered, Watched')
  BY <1>1, <1>2, <1>3, PathConcat DEF Tells
<1>. QED
  BY <1>4 DEF Told

LEMMA ToldEnter ==
  ASSUME StreamTypeOK, WireOK, Told, registered' = registered, NEW m \in Motors,
         NEW o \in Tasks \cup Motors, NEW more \in Seq(Silent), Enter(o, <<Moving(m)>>, more)
  PROVE  Told'
<1>1. more \in Seq(Message)
  BY DEF Silent
<1>2. PICK reg : reg = IF watchers[m] = 0 THEN <<Msg("REGISTER", m, None)>> ELSE <<>>
  OBVIOUS
<1>3. /\ watchers' = [watchers EXCEPT ![m] = @ + 1]
      /\ requests' = requests \o reg \o more
  BY <1>1, <1>2, EnterMoving
<1>4. reg \in Seq(Registration)
  <2>1. Msg("REGISTER", m, None) \in Registration
    BY DEF Registration
  <2>. QED
    BY <1>2, <2>1
<1>5. Watched' = Watched \cup {m} /\ Watched \in SUBSET Motors
      /\ (watchers[m] # 0 => Watched' = Watched)
  <2>1. watchers \in [Motors -> Nat]
    BY DEF StreamTypeOK
  <2>. QED
    BY <1>3, <2>1 DEF Watched
<1>6. Tells(reg, Watched, Watched')
  <2>1. CASE watchers[m] = 0
    BY <1>2, <1>5, <2>1, TellsRegister
  <2>2. CASE watchers[m] # 0
    <3>1. <<>> \in Seq(Silent)
      OBVIOUS
    <3>. QED
      BY <1>2, <1>5, <2>2, <3>1, TellsSilent
  <2>. QED
    BY <2>1, <2>2
<1>. QED
  BY <1>3, <1>4, <1>6, ToldSend

LEMMA ToldExit ==
  ASSUME StreamTypeOK, WireOK, Told, registered' = registered, NEW s \in MotorStreams,
         StreamMotor(s) \in Motors, watchers[StreamMotor(s)] > 0, depth[s] > 0,
         NEW o, NEW more \in Seq(Silent), Exit(o, s, more)
  PROVE  Told'
<1>. DEFINE m == StreamMotor(s)
<1>1. more \in Seq(Message)
  BY DEF Silent
<1>2. PICK reg : reg = IF ~ExitRaises(o, s) /\ watchers[m] = 1
                         THEN <<Msg("UNREGISTER", m, None)>> ELSE <<>>
  OBVIOUS
<1>3. /\ ExitRaises(o, s) => watchers' = watchers
      /\ ~ExitRaises(o, s) => watchers' = [watchers EXCEPT ![m] = @ - 1]
      /\ requests' = requests \o reg \o more
  <2>1. requests \o <<>> = requests
    BY DEF WireOK
  <2>. QED
    BY <1>1, <1>2, <2>1, ExitContext
<1>4. reg \in Seq(Registration)
  <2>1. Msg("UNREGISTER", m, None) \in Registration
    BY DEF Registration
  <2>. QED
    BY <1>2, <2>1
<1>5. Watched \in SUBSET Motors /\ watchers \in [Motors -> Nat] /\ m \in Motors
  BY DEF Watched, StreamTypeOK
<1>6. Tells(reg, Watched, Watched')
  <2>. HIDE DEF m
  <2>1. CASE ~ExitRaises(o, s) /\ watchers[m] = 1
    <3>1. Watched' = Watched \ {m}
      BY <1>3, <1>5, <2>1 DEF Watched
    <3>. QED
      BY <1>2, <1>5, <2>1, <3>1, TellsRegister
  <2>2. CASE ~(~ExitRaises(o, s) /\ watchers[m] = 1)
    <3>1. Watched' = Watched
      <4>1. CASE ExitRaises(o, s)
        BY <1>3, <4>1 DEF Watched
      <4>2. CASE ~ExitRaises(o, s)
        <5>1. watchers[m] > 1 /\ watchers' = [watchers EXCEPT ![m] = @ - 1]
          <6>1. watchers[m] > 0
            BY DEF m
          <6>. QED
            BY <1>3, <1>5, <2>2, <4>2, <6>1
        <5>. QED
          BY <1>5, <5>1 DEF Watched
      <4>. QED
        BY <4>1, <4>2
    <3>2. reg = <<>> /\ <<>> \in Seq(Silent)
      BY <1>2, <2>2
    <3>. QED
      BY <1>5, <3>1, <3>2, TellsSilent
  <2>. QED
    BY <2>1, <2>2
<1>. QED
  BY <1>3, <1>4, <1>6, ToldSend

LEMMA ToldSynced ==
  ASSUME StreamTypeOK, WireOK, Told, registered' = registered, NEW t \in Syncs,
         NEW ms \in Seq(Motors), NEW more \in Seq(Silent),
         Enter(t, [i \in 1..Len(ms) |-> Synced(ms[i])], more)
  PROVE  Told'
<1>1. more \in Seq(Message)
  BY DEF Silent
<1>2. watchers' = [m \in Motors |-> IF m \in Range(ms) THEN watchers[m] + 1 ELSE watchers[m]]
  BY <1>1, EnterSynced
<1>3. PICK reg \in Seq(Registration) : requests' = requests \o reg \o more /\ Registers(ms, reg)
  BY <1>1, EnterSynced
<1>4. Watched' = Watched \cup {m \in Range(ms) : watchers[m] = 0} /\ Watched \in SUBSET Motors
  <2>1. watchers \in [Motors -> Nat] /\ Range(ms) \subseteq Motors
    BY DEF StreamTypeOK, Range
  <2>. QED
    BY <1>2, <2>1 DEF Watched
<1>5. Tells(reg, Watched, Watched')
  BY <1>3, <1>4, TellsRegisters
<1>. QED
  BY <1>3, <1>5, ToldSend

(***************************************************************************)
(* Contexts that do not overlap outside a group.  The owner of a stream's  *)
(* closure is then the context that is left last, so that nothing is left  *)
(* behind.                                                                 *)
(***************************************************************************)
Alone(m) ==
    /\ watchers[m] = depth[Moving(m)] + depth[Synced(m)]
    /\ listening[Moving(m)] = IF m \in open THEN {m} ELSE MovingHolders(m)
    /\ listening[Synced(m)] = SyncedHolders(m)
    /\ m \notin open => \A o, u \in MovingHolders(m) \cup SyncedHolders(m) : o = u
Called == \A t \in Moves : pc[t] = "called" => MotorOf[t] \in open
Tidy == (\A m \in Motors : Alone(m)) /\ Called /\ Told

LEMMA AloneSame ==
  ASSUME NEW n \in Motors, Alone(n), (n \in open') <=> (n \in open),
         watchers'[n] = watchers[n], depth'[Moving(n)] = depth[Moving(n)],
         depth'[Synced(n)] = depth[Synced(n)],
         listening'[Moving(n)] = listening[Moving(n)],
         listening'[Synced(n)] = listening[Synced(n)],
         MovingHolders(n)' = MovingHolders(n), SyncedHolders(n)' = SyncedHolders(n)
  PROVE  Alone(n)'
BY DEF Alone

LEMMA NobodyHolds ==
  ASSUME Inv, NEW m \in Motors
  PROVE  /\ depth[Moving(m)] \in Nat /\ depth[Synced(m)] \in Nat /\ watchers[m] \in Nat
         /\ depth[Moving(m)] = 0 <=> MovingHolders(m) = {}
         /\ depth[Synced(m)] = 0 <=> SyncedHolders(m) = {}
         /\ depth[Moving(m)] = 1 <=> \E o : MovingHolders(m) = {o}
         /\ depth[Synced(m)] = 1 <=> \E o : SyncedHolders(m) = {o}
         /\ watchers[m] = 0 => MovingHolders(m) = {} /\ SyncedHolders(m) = {}
<1>1. Moving(m) \in MotorStreams /\ Synced(m) \in MotorStreams
  BY StreamFacts
<1>2. depth[Moving(m)] \in Nat /\ depth[Synced(m)] \in Nat /\ watchers[m] \in Nat
  BY <1>1 DEF Inv, TypeOK, StreamTypeOK
<1>3. Counted(m)
  BY DEF Inv, Counts
<1>4. IsFiniteSet(MovingHolders(m)) /\ IsFiniteSet(SyncedHolders(m))
  BY HoldersFinite
<1>5. /\ Cardinality(MovingHolders(m)) = 0 <=> MovingHolders(m) = {}
      /\ Cardinality(SyncedHolders(m)) = 0 <=> SyncedHolders(m) = {}
      /\ Cardinality(MovingHolders(m)) = 1 <=> \E o : MovingHolders(m) = {o}
      /\ Cardinality(SyncedHolders(m)) = 1 <=> \E o : SyncedHolders(m) = {o}
  BY <1>4, FS_EmptySet, FS_Singleton
<1>6. /\ depth[Moving(m)] = Cardinality(MovingHolders(m))
      /\ depth[Synced(m)] = Cardinality(SyncedHolders(m))
      /\ watchers[m] >= depth[Moving(m)] + depth[Synced(m)]
  BY <1>3 DEF Counted
<1>7. watchers[m] = 0 => depth[Moving(m)] = 0 /\ depth[Synced(m)] = 0
  BY <1>2, <1>6
<1>. QED
  BY <1>2, <1>5, <1>6, <1>7

\* Outside a group, what may be used is not used by anybody.
LEMMA UsableAlone ==
  ASSUME ~Overlaps, NEW m, Usable(m)
  PROVE  m \in open \/ watchers[m] = 0
BY DEF Usable

\* A task enters.
LEMMA AloneJoin ==
  ASSUME Inv, \A n \in Motors : Alone(n), NEW m \in Motors, NEW t \in Tasks,
         m \in open \/ watchers[m] = 0, open' = open,
         MovingHolders(m)' = MovingHolders(m) \cup {t},
         \A n \in Motors \ {m} : MovingHolders(n)' = MovingHolders(n),
         \A n \in Motors : SyncedHolders(n)' = SyncedHolders(n),
         NEW more \in Seq(Message), Enter(t, <<Moving(m)>>, more)
  PROVE  \A n \in Motors : Alone(n)'
<1>1. /\ depth' = [depth EXCEPT ![Moving(m)] = @ + 1]
      /\ listening' = IF depth[Moving(m)] = 0
                        THEN [listening EXCEPT ![Moving(m)] = @ \cup {t}] ELSE listening
      /\ watchers' = [watchers EXCEPT ![m] = @ + 1]
  BY EnterMoving, TasksApart DEF Inv, TypeOK
<1>2. /\ depth \in [MotorStreams -> Nat] /\ watchers \in [Motors -> Nat]
      /\ listening \in [MotorStreams -> SUBSET (Tasks \cup Motors)]
  BY DEF Inv, TypeOK, StreamTypeOK
<1>3. ASSUME NEW n \in Motors
      PROVE  Alone(n)'
  <2>1. /\ Moving(n) \in MotorStreams /\ Synced(n) \in MotorStreams /\ Moving(m) \in MotorStreams
        /\ Synced(n) # Moving(m) /\ (Moving(n) = Moving(m) => n = m)
    BY StreamFacts
  <2>2. CASE n # m
    BY <1>1, <1>2, <2>1, <2>2, AloneSame
  <2>3. CASE n = m
    <3>1. /\ watchers'[m] = watchers[m] + 1 /\ depth'[Moving(m)] = depth[Moving(m)] + 1
          /\ depth'[Synced(m)] = depth[Synced(m)] /\ listening'[Synced(m)] = listening[Synced(m)]
      BY <1>1, <1>2, <2>1, <2>3
    <3>2. Alone(m)
      OBVIOUS
    <3>3. watchers'[m] = depth'[Moving(m)] + depth'[Synced(m)]
      BY <3>1, <3>2, NobodyHolds DEF Alone
    <3>4. listening'[Synced(m)] = SyncedHolders(m)'
      BY <3>1, <3>2 DEF Alone
    <3>5. CASE m \in open
      <4>1. m \in MovingHolders(m)
        BY <3>5 DEF MovingHolders
      <4>2. listening' = listening
        BY <1>1, <4>1, NobodyHolds
      <4>. QED
        BY <2>3, <3>2, <3>3, <3>4, <3>5, <4>2 DEF Alone
    <3>6. CASE m \notin open
      <4>1. MovingHolders(m) = {} /\ SyncedHolders(m) = {} /\ depth[Moving(m)] = 0
        BY <3>6, NobodyHolds
      <4>2. listening'[Moving(m)] = {t}
        BY <1>1, <1>2, <2>1, <2>3, <3>2, <3>6, <4>1 DEF Alone
      <4>3. MovingHolders(m)' = {t} /\ SyncedHolders(m)' = {}
        BY <4>1
      <4>. QED
        BY <2>3, <3>3, <3>4, <3>6, <4>2, <4>3 DEF Alone
    <3>. QED
      BY <3>5, <3>6
  <2>. QED
    BY <2>2, <2>3
<1>. QED
  BY <1>3

\* A task leaves.
LEMMA AloneLeave ==
  ASSUME Inv, \A n \in Motors : Alone(n), NEW m \in Motors, NEW t \in Tasks,
         t \in MovingHolders(m), open' = open,
         MovingHolders(m)' = MovingHolders(m) \ {t},
         \A n \in Motors \ {m} : MovingHolders(n)' = MovingHolders(n),
         \A n \in Motors : SyncedHolders(n)' = SyncedHolders(n),
         Exit(t, Moving(m), <<>>)
  PROVE  \A n \in Motors : Alone(n)'
<1>1. /\ Moving(m) \in MotorStreams /\ StreamMotor(Moving(m)) = m
      /\ depth[Moving(m)] > 0 /\ watchers[m] > 0
  BY StreamFacts, CountsBeforeLeave DEF Inv
<1>2. /\ depth \in [MotorStreams -> Nat] /\ watchers \in [Motors -> Nat]
      /\ listening \in [MotorStreams -> SUBSET (Tasks \cup Motors)]
      /\ Alone(m)
  BY DEF Inv, TypeOK, StreamTypeOK
<1>3. /\ depth[Moving(m)] = 1 => m \notin open
      /\ m \notin open => /\ MovingHolders(m) = {t} /\ SyncedHolders(m) = {}
                          /\ depth[Moving(m)] = 1 /\ listening[Moving(m)] = {t}
  <2>1. ASSUME depth[Moving(m)] = 1, m \in open
        PROVE  FALSE
    <3>1. m \in MovingHolders(m)
      BY <2>1 DEF MovingHolders
    <3>2. m = t
      BY <2>1, <3>1, NobodyHolds
    <3>. QED
      BY <3>2, TasksApart
  <2>2. ASSUME m \notin open
        PROVE  /\ MovingHolders(m) = {t} /\ SyncedHolders(m) = {}
               /\ depth[Moving(m)] = 1 /\ listening[Moving(m)] = {t}
    <3>1. MovingHolders(m) = {t}
      BY <1>2, <2>2 DEF Alone
    <3>2. SyncedHolders(m) = {}
      <4>1. \A u \in SyncedHolders(m) : u = t /\ u \in Syncs /\ pc[u] = "unwinding"
        BY <1>2, <2>2 DEF Alone, SyncedHolders
      <4>2. ~(t \in Syncs /\ pc[t] = "unwinding")
        BY TasksApart DEF MovingHolders
      <4>. QED
        BY <4>1, <4>2
    <3>. QED
      BY <1>2, <2>2, <3>1, <3>2, NobodyHolds DEF Alone
  <2>. QED
    BY <2>1, <2>2
<1>4. ~ExitRaises(t, Moving(m))
  BY <1>3 DEF ExitRaises
<1>5. /\ depth' = [depth EXCEPT ![Moving(m)] = @ - 1]
      /\ listening' = IF depth[Moving(m)] = 1 THEN [listening EXCEPT ![Moving(m)] = @ \ {t}]
                                              ELSE listening
      /\ watchers' = [watchers EXCEPT ![m] = @ - 1]
  <2>1. <<>> \in Seq(Message) /\ StreamTypeOK /\ WireOK
    BY DEF Inv, TypeOK
  <2>. QED
    BY <1>1, <1>4, <2>1, ExitContext
<1>6. ASSUME NEW n \in Motors
      PROVE  Alone(n)'
  <2>1. /\ Moving(n) \in MotorStreams /\ Synced(n) \in MotorStreams /\ Moving(m) \in MotorStreams
        /\ Synced(n) # Moving(m) /\ (Moving(n) = Moving(m) => n = m)
    BY StreamFacts
  <2>2. CASE n # m
    BY <1>2, <1>5, <2>1, <2>2, AloneSame
  <2>3. CASE n = m
    <3>1. /\ watchers'[m] = watchers[m] - 1 /\ depth'[Moving(m)] = depth[Moving(m)] - 1
          /\ depth'[Synced(m)] = depth[Synced(m)] /\ listening'[Synced(m)] = listening[Synced(m)]
      BY <1>2, <1>5, <2>1, <2>3
    <3>2. watchers'[m] = depth'[Moving(m)] + depth'[Synced(m)]
      BY <1>2, <3>1, NobodyHolds DEF Alone
    <3>3. listening'[Synced(m)] = SyncedHolders(m)'
      BY <1>2, <3>1 DEF Alone
    <3>4. CASE m \in open
      BY <1>2, <1>3, <1>5, <2>3, <3>2, <3>3, <3>4 DEF Alone
    <3>5. CASE m \notin open
      <4>1. listening'[Moving(m)] = {} /\ MovingHolders(m)' = {} /\ SyncedHolders(m)' = {}
        BY <1>2, <1>3, <1>5, <2>1, <2>3, <3>5
      <4>. QED
        BY <2>3, <3>2, <3>3, <3>5, <4>1 DEF Alone
    <3>. QED
      BY <3>4, <3>5
  <2>. QED
    BY <2>2, <2>3
<1>. QED
  BY <1>6

\* A group opens and closes while no task of the program is under way.
LEMMA Nobody ==
  ASSUME Inv, \A t \in Tasks : pc[t] \in {"idle"} \cup Ended, NEW m \in Motors
  PROVE  MovingHolders(m) = {m} \cap open /\ SyncedHolders(m) = {}
BY TasksApart DEF MovingHolders, SyncedHolders, Ended

LEMMA TidyEnterGroup ==
  ASSUME Inv, Tidy, NEW m \in Motors, EnterGroup(m)
  PROVE  Tidy'
<1>1. /\ Enter(m, <<Moving(m)>>, <<>>) /\ m \notin open /\ open' = open \cup {m}
      /\ UNCHANGED <<pc, batch, left, registered>> /\ \A t \in Tasks : pc[t] = "idle"
      /\ <<>> \in Seq(Message) /\ <<>> \in Seq(Silent)
  BY DEF EnterGroup, serverVars
<1>2. /\ depth' = [depth EXCEPT ![Moving(m)] = @ + 1]
      /\ listening' = IF depth[Moving(m)] = 0
                        THEN [listening EXCEPT ![Moving(m)] = @ \cup {m}] ELSE listening
      /\ watchers' = [watchers EXCEPT ![m] = @ + 1]
  BY <1>1, EnterMoving DEF Inv, TypeOK
<1>3. /\ depth \in [MotorStreams -> Nat] /\ watchers \in [Motors -> Nat]
      /\ listening \in [MotorStreams -> SUBSET (Tasks \cup Motors)]
  BY DEF Inv, TypeOK, StreamTypeOK
<1>4. ASSUME NEW n \in Motors
      PROVE  Alone(n)'
  <2>1. /\ Moving(n) \in MotorStreams /\ Synced(n) \in MotorStreams /\ Moving(m) \in MotorStreams
        /\ Synced(n) # Moving(m) /\ (Moving(n) = Moving(m) => n = m)
    BY StreamFacts
  <2>2. /\ SyncedHolders(n)' = SyncedHolders(n)
        /\ n # m => MovingHolders(n)' = MovingHolders(n)
    BY <1>1 DEF SyncedHolders, MovingHolders
  <2>3. Alone(n)
    BY DEF Tidy
  <2>4. CASE n # m
    <3>1. n \in open' <=> n \in open
      BY <1>1, <2>4
    <3>. QED
      BY <1>2, <1>3, <2>1, <2>2, <2>3, <2>4, <3>1, AloneSame
  <2>5. CASE n = m
    <3>1. MovingHolders(m) = {} /\ SyncedHolders(m) = {}
      BY <1>1, Nobody
    <3>2. depth[Moving(m)] = 0 /\ depth[Synced(m)] = 0 /\ watchers[m] = 0
      BY <2>3, <2>5, <3>1, NobodyHolds DEF Alone
    <3>3. /\ watchers'[m] = 1 /\ depth'[Moving(m)] = 1 /\ depth'[Synced(m)] = 0
          /\ listening'[Synced(m)] = listening[Synced(m)]
          /\ listening'[Moving(m)] = listening[Moving(m)] \cup {m}
      BY <1>2, <1>3, <2>1, <2>5, <3>2
    <3>4. listening'[Moving(m)] = {m}
      BY <1>1, <2>3, <2>5, <3>1, <3>3 DEF Alone
    <3>. QED
      BY <1>1, <2>2, <2>3, <2>5, <3>3, <3>4 DEF Alone
  <2>. QED
    BY <2>4, <2>5
<1>5. Called'
  BY <1>1 DEF Tidy, Called
<1>6. Told'
  BY <1>1, ToldEnter DEF Tidy, Inv, TypeOK
<1>. QED
  BY <1>4, <1>5, <1>6 DEF Tidy

LEMMA TidyExitGroup ==
  ASSUME Inv, Tidy, NEW m \in Motors, ExitGroup(m)
  PROVE  Tidy'
<1>1. /\ Exit(m, Moving(m), <<>>) /\ m \in open /\ open' = open \ {m}
      /\ UNCHANGED <<pc, batch, left, registered>>
      /\ \A t \in Tasks : pc[t] \in {"idle"} \cup Ended
      /\ <<>> \in Seq(Message) /\ <<>> \in Seq(Silent)
  BY DEF ExitGroup, serverVars
<1>2. /\ MovingHolders(m) = {m} /\ SyncedHolders(m) = {}
      /\ depth[Moving(m)] = 1 /\ depth[Synced(m)] = 0
  BY <1>1, Nobody, NobodyHolds
<1>3. /\ Moving(m) \in MotorStreams /\ StreamMotor(Moving(m)) = m
      /\ listening[Moving(m)] = {m} /\ watchers[m] = 1 /\ Alone(m)
  <2>1. Alone(m)
    BY DEF Tidy
  <2>. QED
    BY <1>1, <1>2, <2>1, StreamFacts DEF Alone
<1>4. /\ depth' = [depth EXCEPT ![Moving(m)] = @ - 1]
      /\ listening' = [listening EXCEPT ![Moving(m)] = @ \ {m}]
      /\ watchers' = [watchers EXCEPT ![m] = @ - 1]
  <2>1. ~ExitRaises(m, Moving(m))
    BY <1>3 DEF ExitRaises
  <2>2. StreamTypeOK /\ WireOK /\ depth[Moving(m)] > 0 /\ watchers[m] > 0
    BY <1>2, <1>3 DEF Inv, TypeOK
  <2>3. PICK s : s = Moving(m)
    OBVIOUS
  <2>4. PICK more \in Seq(Message) : more = <<>>
    BY <1>1
  <2>5. /\ s \in MotorStreams /\ Exit(m, s, more) /\ ~ExitRaises(m, s)
        /\ StreamMotor(s) = m /\ depth[s] > 0
    BY <1>1, <1>3, <2>1, <2>2, <2>3, <2>4
  <2>6. /\ depth' = [depth EXCEPT ![s] = @ - 1]
        /\ listening' = IF depth[s] = 1 THEN [listening EXCEPT ![s] = @ \ {m}] ELSE listening
        /\ watchers' = [watchers EXCEPT ![StreamMotor(s)] = @ - 1]
    BY <2>2, <2>5, ExitContext
  <2>. QED
    BY <1>2, <1>3, <2>3, <2>6
<1>5. /\ depth \in [MotorStreams -> Nat] /\ watchers \in [Motors -> Nat]
      /\ listening \in [MotorStreams -> SUBSET (Tasks \cup Motors)]
  BY DEF Inv, TypeOK, StreamTypeOK
<1>6. ASSUME NEW n \in Motors
      PROVE  Alone(n)'
  <2>1. /\ Moving(n) \in MotorStreams /\ Synced(n) \in MotorStreams
        /\ Synced(n) # Moving(m) /\ (Moving(n) = Moving(m) => n = m)
    BY StreamFacts
  <2>2. /\ SyncedHolders(n)' = SyncedHolders(n)
        /\ n # m => MovingHolders(n)' = MovingHolders(n)
    BY <1>1 DEF SyncedHolders, MovingHolders
  <2>3. CASE n # m
    <3>1. (n \in open' <=> n \in open) /\ Alone(n)
      BY <1>1, <2>3 DEF Tidy
    <3>. QED
      BY <1>3, <1>4, <1>5, <2>1, <2>2, <2>3, <3>1, AloneSame
  <2>4. CASE n = m
    <3>1. MovingHolders(m)' = {} /\ SyncedHolders(m)' = {}
      <4>1. MovingHolders(m)' = MovingHolders(m) \ {m}
        BY <1>1, TasksApart DEF MovingHolders
      <4>. QED
        BY <1>2, <2>2, <2>4, <4>1
    <3>2. /\ watchers'[m] = 0 /\ depth'[Moving(m)] = 0 /\ depth'[Synced(m)] = 0
          /\ listening'[Moving(m)] = {} /\ listening'[Synced(m)] = listening[Synced(m)]
      BY <1>2, <1>3, <1>4, <1>5, <2>1, <2>4
    <3>. QED
      BY <1>1, <1>2, <1>3, <2>4, <3>1, <3>2 DEF Alone
  <2>. QED
    BY <2>3, <2>4
<1>7. Called'
  BY <1>1, TasksApart DEF Called, Ended
<1>8. Told'
  <2>1. StreamTypeOK /\ WireOK /\ depth[Moving(m)] > 0 /\ watchers[m] > 0
    BY <1>2, <1>3 DEF Inv, TypeOK
  <2>. QED
    BY <1>1, <1>3, <2>1, ToldExit DEF Tidy
<1>. QED
  BY <1>6, <1>7, <1>8 DEF Tidy

\* Tasks that enter a context on their motor.
LEMMA TidyEnter ==
  ASSUME Inv, Tidy, NEW t \in Moves \cup Starts \cup Waits,
         MotorOf[t] \in open \/ watchers[MotorOf[t]] = 0,
         UNCHANGED <<open, batch, left, registered>>,
         pc[t] \notin {"waiting", "reading"}, pc'[t] \in {"waiting", "reading"},
         \A u \in Tasks \ {t} :
            /\ pc[u] \in {"waiting", "reading"} <=> pc'[u] \in {"waiting", "reading"}
            /\ pc[u] = "unwinding" <=> pc'[u] = "unwinding",
         NEW more \in Seq(Silent), Enter(t, <<Moving(MotorOf[t])>>, more), Called'
  PROVE  Tidy'
<1>1. /\ MotorOf[t] \in Motors
      /\ MovingHolders(MotorOf[t])' = MovingHolders(MotorOf[t]) \cup {t}
      /\ \A n \in Motors \ {MotorOf[t]} : MovingHolders(n)' = MovingHolders(n)
      /\ \A n \in Motors : SyncedHolders(n)' = SyncedHolders(n)
  BY HoldersJoin
<1>2. more \in Seq(Message) /\ t \in Tasks /\ \A n \in Motors : Alone(n)
  BY TasksApart DEF Silent, Tidy
<1>3. \A n \in Motors : Alone(n)'
  BY <1>1, <1>2, AloneJoin
<1>4. Told'
  BY <1>1, <1>2, ToldEnter DEF Tidy, Inv, TypeOK
<1>. QED
  BY <1>3, <1>4 DEF Tidy

LEMMA SilentFacts ==
  /\ \A m \in Motors : \A t \in Moves \cup Syncs : <<StartOne(m, t)>> \in Seq(Silent)
  /\ \A m \in Motors : \A t \in Waits : <<Msg("CHAN_READ", m, t)>> \in Seq(Silent)
  /\ <<>> \in Seq(Silent) /\ <<AbortAll>> \in Seq(Silent)
  /\ \A m \in Motors : \A t \in Moves \cup Syncs : StartOne(m, t) \in Silent
  /\ Prestart \in Silent /\ StartAll \in Silent
<1>1. \A r \in Message : r.command \notin {"REGISTER", "UNREGISTER"} => r \in Silent
  BY DEF Silent, Registration, Msg
<1>2. /\ \A m \in Motors : \A t \in Moves \cup Syncs : StartOne(m, t).command = "start_one"
      /\ \A m \in Motors : \A t \in Waits : Msg("CHAN_READ", m, t).command = "CHAN_READ"
      /\ AbortAll.command = "abort_all"
      /\ Prestart.command = "prestart_all" /\ StartAll.command = "start_all"
  BY DEF StartOne, AbortAll, Prestart, StartAll, Msg
<1>3. /\ \A m \in Motors : \A t \in Moves \cup Syncs : StartOne(m, t) \in Silent
      /\ \A m \in Motors : \A t \in Waits : Msg("CHAN_READ", m, t) \in Silent
      /\ AbortAll \in Silent /\ Prestart \in Silent /\ StartAll \in Silent
  BY <1>1, <1>2, MessageFacts
<1>. QED
  BY <1>3

LEMMA TidyMove ==
  ASSUME ~Overlaps, Inv, Tidy, NEW t \in Moves, Move(t)
  PROVE  Tidy'
<1>1. /\ pc[t] \in {"idle", "called"} /\ pc' = [pc EXCEPT ![t] = "waiting"]
      /\ MotorOf[t] \in Motors /\ t \in Tasks
      /\ Enter(t, <<Moving(MotorOf[t])>>, <<StartOne(MotorOf[t], t)>>)
      /\ UNCHANGED <<open, batch, left, registered>>
      /\ <<StartOne(MotorOf[t], t)>> \in Seq(Silent)
      /\ \A u \in Tasks : u # t => pc'[u] = pc[u]
      /\ pc'[t] = "waiting"
  <2>1. pc' = [pc EXCEPT ![t] = "waiting"]
    BY DEF Move, Goto
  <2>. QED
    BY <2>1, MayMoveFacts, TasksApart, SilentFacts DEF Move, serverVars, Inv, TypeOK
<1>2. MotorOf[t] \in open \/ watchers[MotorOf[t]] = 0
  BY UsableAlone DEF Move, MayMove, Tidy, Called
<1>3. Called'
  BY <1>1, TasksApart DEF Tidy, Called
<1>. QED
  BY <1>1, <1>2, <1>3, TidyEnter

LEMMA TidyStartMove ==
  ASSUME ~Overlaps, Inv, Tidy, NEW t \in Starts, StartMove(t)
  PROVE  Tidy'
<1>1. /\ pc[t] = "idle" /\ pc' = [pc EXCEPT ![t] = "waiting", ![Child[t]] = "called"]
      /\ Child[t] \in Moves /\ Child[t] # t /\ Child[t] \in Tasks /\ Child[t] \notin Syncs
      /\ pc[Child[t]] = "idle" /\ t \in Tasks
      /\ Enter(t, <<Moving(MotorOf[t])>>, <<>>)
      /\ UNCHANGED <<open, batch, left, registered>>
      /\ MotorOf[t] \in open
  BY TasksApart, MotorsAssumption DEF StartMove, Callable, Inv, Labels, serverVars, Usable
<1>2. /\ pc'[t] = "waiting" /\ pc'[Child[t]] = "called"
      /\ \A u \in Tasks : u \notin {t, Child[t]} => pc'[u] = pc[u]
  BY <1>1 DEF Inv, TypeOK
<1>3. Called'
  <2>1. MotorOf[Child[t]] = MotorOf[t]
    BY MotorsAssumption
  <2>2. ASSUME NEW u \in Moves, pc'[u] = "called"
        PROVE  MotorOf[u] \in open
    <3>1. CASE u = Child[t]
      BY <1>1, <2>1, <3>1
    <3>2. CASE u # Child[t]
      BY <1>2, <2>2, <3>2, TasksApart DEF Tidy, Called
    <3>. QED
      BY <3>1, <3>2
  <2>. QED
    BY <1>1, <2>2 DEF Called
<1>. QED
  BY <1>1, <1>2, <1>3, SilentFacts, TidyEnter

LEMMA TidyWaitUntil ==
  ASSUME ~Overlaps, Inv, Tidy, NEW t \in Waits, WaitUntil(t)
  PROVE  Tidy'
<1>1. PICK l \in {"reading", "waiting"} : pc' = [pc EXCEPT ![t] = l]
  BY DEF WaitUntil, Goto
<1>2. PICK more \in Seq(Silent) : Enter(t, <<Moving(MotorOf[t])>>, more)
  BY SilentFacts, TasksApart DEF WaitUntil
<1>3. /\ pc[t] = "idle" /\ t \in Tasks /\ UNCHANGED <<open, batch, left, registered>>
      /\ MotorOf[t] \in open \/ watchers[MotorOf[t]] = 0
  BY TasksApart, UsableAlone DEF WaitUntil, Callable, serverVars
<1>4. pc'[t] = l /\ \A u \in Tasks : u # t => pc'[u] = pc[u]
  BY <1>1, <1>3 DEF Inv, TypeOK
<1>5. Called'
  BY <1>3, <1>4, TasksApart DEF Tidy, Called
<1>. QED
  BY <1>2, <1>3, <1>4, <1>5, TidyEnter

LEMMA TidyReturn ==
  ASSUME Inv, Tidy, NEW t \in Moves \cup Starts \cup Waits, Return(t)
  PROVE  Tidy'
<1>1. /\ pc[t] = "waiting" /\ t \in Tasks /\ MotorOf[t] \in Motors
      /\ Exit(t, Moving(MotorOf[t]), <<>>)
      /\ UNCHANGED <<open, batch, left, registered>>
  BY TasksApart DEF Return, serverVars
<1>2. PICK l \in {"failed", "done"} : pc' = [pc EXCEPT ![t] = l]
  BY DEF Return, Goto
<1>3. pc'[t] = l /\ \A u \in Tasks : u # t => pc'[u] = pc[u]
  BY <1>1, <1>2 DEF Inv, TypeOK
<1>4. /\ t \in MovingHolders(MotorOf[t])
      /\ MovingHolders(MotorOf[t])' = MovingHolders(MotorOf[t]) \ {t}
      /\ \A n \in Motors \ {MotorOf[t]} : MovingHolders(n)' = MovingHolders(n)
      /\ \A n \in Motors : SyncedHolders(n)' = SyncedHolders(n)
  BY <1>1, <1>3, HoldersLeave
<1>5. \A n \in Motors : Alone(n)'
  <2>1. \A n \in Motors : Alone(n)
    BY DEF Tidy
  <2>. QED
    BY <1>1, <1>4, <2>1, AloneLeave
<1>6. Called'
  BY <1>1, <1>3, TasksApart DEF Tidy, Called
<1>7. Told'
  <2>1. /\ Moving(MotorOf[t]) \in MotorStreams /\ StreamMotor(Moving(MotorOf[t])) = MotorOf[t]
        /\ depth[Moving(MotorOf[t])] > 0 /\ watchers[MotorOf[t]] > 0
    BY <1>1, <1>4, StreamFacts, CountsBeforeLeave DEF Inv
  <2>2. StreamTypeOK /\ WireOK /\ Told
    BY DEF Inv, TypeOK, Tidy
  <2>. QED
    BY <1>1, <2>1, <2>2, SilentFacts, ToldExit
<1>. QED
  BY <1>5, <1>6, <1>7 DEF Tidy

LEMMA SyncSilent ==
  ASSUME pending \in Seq(Motors), NEW t \in Syncs, NEW k \in 1..(Len(pending) + 1)
  PROVE  SyncMessages(t, k) \in Seq(Silent)
<1>1. PICK q : q = StartEach(t, SubSeq(pending, 1, k - 1))
  OBVIOUS
<1>2. /\ q \in Seq(Message) /\ Len(q) = k - 1
      /\ \A i \in 1..(k - 1) : q[i] = StartOne(pending[i], t)
  BY <1>1, SyncMessagesType
<1>3. q \in Seq(Silent)
  <2>1. \A i \in 1..Len(q) : q[i] \in Silent
    <3>1. ASSUME NEW i \in 1..(k - 1)
          PROVE  q[i] \in Silent
      <4>1. q[i] = StartOne(pending[i], t) /\ pending[i] \in Motors
        BY <1>2
      <4>. QED
        BY <4>1, SilentFacts
    <3>. QED
      BY <1>2, <3>1
  <2>2. q = [i \in 1..Len(q) |-> q[i]] /\ Len(q) \in Nat
    BY <1>2
  <2>. QED
    BY <2>1, <2>2
<1>4. <<Prestart>> \in Seq(Silent) /\ Brackets(k) \in Seq(Silent)
  BY SilentFacts DEF Brackets
<1>. QED
  BY <1>1, <1>3, <1>4 DEF SyncMessages, Prestarting

LEMMA TidySyncStart ==
  ASSUME ~Overlaps, Inv, Tidy, NEW t \in Syncs, SyncStart(t)
  PROVE  Tidy'
<1>1. PICK k \in 1..(Len(pending) + 1) :
          Enter(t, [i \in 1..Len(pending) |-> Synced(pending[i])], SyncMessages(t, k))
  BY SyncStartHolders
<1>2. /\ pending \in Seq(Motors) /\ Range(pending) \subseteq Motors /\ t \in Tasks
      /\ SyncMessages(t, k) \in Seq(Silent) /\ SyncMessages(t, k) \in Seq(Message)
      /\ StreamTypeOK /\ WireOK
      /\ UNCHANGED <<open, registered>>
  <2>1. pending \in Seq(Motors) /\ StreamTypeOK /\ WireOK
    BY DEF Inv, TypeOK
  <2>2. Range(pending) \subseteq Motors
    BY <2>1 DEF Range
  <2>. QED
    BY <2>1, <2>2, SyncSilent, SyncMessagesType, TasksApart DEF SyncStart, serverVars
<1>3. /\ depth' = [s \in MotorStreams |->
                     IF s \in {Synced(m) : m \in Range(pending)} THEN depth[s] + 1 ELSE depth[s]]
      /\ listening' = [s \in MotorStreams |->
                         IF s \in {Synced(m) : m \in Range(pending)} /\ depth[s] = 0
                           THEN listening[s] \cup {t} ELSE listening[s]]
      /\ watchers' = [m \in Motors |->
                        IF m \in Range(pending) THEN watchers[m] + 1 ELSE watchers[m]]
  BY <1>1, <1>2, EnterSynced
<1>4. \A m \in Range(pending) : m \in open \/ watchers[m] = 0
  <2>1. Range(pending) = {pending[i] : i \in 1..Len(pending)}
    BY <1>2 DEF Range
  <2>2. \A i \in 1..Len(pending) : Usable(pending[i])
    BY DEF SyncStart
  <2>. QED
    BY <2>1, <2>2, UsableAlone
<1>5. ASSUME NEW n \in Motors
      PROVE  Alone(n)'
  <2>1. /\ MovingHolders(n)' = MovingHolders(n)
        /\ SyncedHolders(n) = {}
        /\ SyncedHolders(n)' = IF n \in Range(pending) THEN {t} ELSE {}
    BY SyncStartHolders
  <2>2. /\ Moving(n) \in MotorStreams /\ Synced(n) \in MotorStreams
        /\ Moving(n) \notin {Synced(m) : m \in Range(pending)}
        /\ Synced(n) \in {Synced(m) : m \in Range(pending)} <=> n \in Range(pending)
    BY <1>2, StreamFacts
  <2>3. depth[Synced(n)] = 0 /\ Alone(n)
    BY <2>1, NobodyHolds DEF Tidy
  <2>4. depth'[Moving(n)] = depth[Moving(n)] /\ listening'[Moving(n)] = listening[Moving(n)]
    BY <1>3, <2>2
  <2>5. CASE n \in Range(pending)
    <3>1. /\ depth'[Synced(n)] = 1 /\ watchers'[n] = watchers[n] + 1
          /\ listening'[Synced(n)] = listening[Synced(n)] \cup {t}
      BY <1>3, <2>2, <2>3, <2>5
    <3>2. listening'[Synced(n)] = {t}
      BY <2>1, <2>3, <3>1 DEF Alone
    <3>3. n \notin open => MovingHolders(n) = {}
      BY <1>4, <2>5, NobodyHolds
    <3>4. watchers'[n] = depth'[Moving(n)] + depth'[Synced(n)]
      BY <2>3, <2>4, <3>1, NobodyHolds DEF Alone
    <3>5. listening'[Moving(n)] = IF n \in open THEN {n} ELSE MovingHolders(n)
      BY <2>3, <2>4 DEF Alone
    <3>6. n \notin open => \A o, u \in MovingHolders(n)' \cup SyncedHolders(n)' : o = u
      BY <2>1, <2>5, <3>3
    <3>. QED
      BY <1>2, <2>1, <2>5, <3>2, <3>4, <3>5, <3>6 DEF Alone
  <2>6. CASE n \notin Range(pending)
    <3>1. /\ depth'[Synced(n)] = depth[Synced(n)] /\ watchers'[n] = watchers[n]
          /\ listening'[Synced(n)] = listening[Synced(n)]
      BY <1>3, <2>2, <2>6
    <3>2. n \in open' <=> n \in open
      BY <1>2
    <3>3. SyncedHolders(n)' = SyncedHolders(n)
      BY <2>1, <2>6
    <3>. QED
      BY <2>1, <2>3, <2>4, <3>1, <3>2, <3>3, AloneSame
  <2>. QED
    BY <2>5, <2>6
<1>6. Called'
  <2>1. \A u \in Moves : pc'[u] = pc[u]
    <3>1. \E l : pc' = [pc EXCEPT ![t] = l]
      BY SyncStartHolders
    <3>. QED
      BY <3>1, TasksApart DEF Inv, TypeOK
  <2>. QED
    BY <1>2, <2>1 DEF Tidy, Called
<1>7. Told'
  BY <1>1, <1>2, ToldSynced DEF Tidy
<1>. QED
  BY <1>5, <1>6, <1>7 DEF Tidy

LEMMA TidySyncUnwind ==
  ASSUME Inv, Tidy, NEW t \in Syncs, SyncUnwind(t)
  PROVE  Tidy'
<1>1. PICK m : m = batch[t][left[t]]
  OBVIOUS
<1>2. /\ pc[t] = "unwinding" /\ m \in Motors
      /\ SyncedHolders(m) = {t} /\ SyncedHolders(m)' = {}
      /\ \A n \in Motors : MovingHolders(n)' = MovingHolders(n)
      /\ \A n \in Motors \ {m} : SyncedHolders(n)' = SyncedHolders(n)
  BY <1>1, SyncUnwindHolders
<1>3. PICK more \in Seq(Silent) : Exit(t, Synced(m), more)
  BY <1>1, SilentFacts DEF SyncUnwind, Aborting
<1>4. /\ Synced(m) \in MotorStreams /\ StreamMotor(Synced(m)) = m
      /\ depth[Synced(m)] = 1 /\ listening[Synced(m)] = {t} /\ watchers[m] > 0 /\ Alone(m)
      /\ UNCHANGED <<open, registered>>
  <2>1. Alone(m) /\ UNCHANGED <<open, registered>>
    BY <1>2 DEF Tidy, SyncUnwind, serverVars
  <2>2. depth[Synced(m)] = 1 /\ depth[Moving(m)] \in Nat
    BY <1>2, NobodyHolds
  <2>3. watchers[m] > 0
    BY <2>1, <2>2 DEF Alone
  <2>. QED
    BY <1>2, <2>1, <2>2, <2>3, StreamFacts DEF Alone
<1>5. /\ depth' = [depth EXCEPT ![Synced(m)] = @ - 1]
      /\ listening' = [listening EXCEPT ![Synced(m)] = @ \ {t}]
      /\ watchers' = [watchers EXCEPT ![m] = @ - 1]
  <2>1. ~ExitRaises(t, Synced(m))
    BY <1>4 DEF ExitRaises
  <2>2. StreamTypeOK /\ WireOK /\ depth[Synced(m)] > 0 /\ more \in Seq(Message)
    BY <1>4 DEF Inv, TypeOK, Silent
  <2>3. PICK s : s = Synced(m)
    OBVIOUS
  <2>4. /\ depth' = [depth EXCEPT ![s] = @ - 1]
        /\ listening' = IF depth[s] = 1 THEN [listening EXCEPT ![s] = @ \ {t}] ELSE listening
        /\ watchers' = [watchers EXCEPT ![StreamMotor(s)] = @ - 1]
    BY ZenonT(60), <1>2, <1>3, <1>4, <2>1, <2>2, <2>3, ExitContext
  <2>. QED
    BY <1>4, <2>3, <2>4
<1>6. /\ depth \in [MotorStreams -> Nat] /\ watchers \in [Motors -> Nat]
      /\ listening \in [MotorStreams -> SUBSET (Tasks \cup Motors)]
  BY DEF Inv, TypeOK, StreamTypeOK
<1>7. ASSUME NEW n \in Motors
      PROVE  Alone(n)'
  <2>1. /\ Moving(n) \in MotorStreams /\ Synced(n) \in MotorStreams
        /\ Moving(n) # Synced(m) /\ (Synced(n) = Synced(m) => n = m)
    BY <1>2, StreamFacts
  <2>2. CASE n # m
    <3>1. Alone(n) /\ (n \in open' <=> n \in open)
      BY <1>4 DEF Tidy
    <3>. QED
      BY <1>2, <1>5, <1>6, <2>1, <2>2, <3>1, AloneSame
  <2>3. CASE n = m
    <3>1. /\ watchers'[m] = watchers[m] - 1 /\ depth'[Synced(m)] = 0
          /\ depth'[Moving(m)] = depth[Moving(m)]
          /\ listening'[Moving(m)] = listening[Moving(m)] /\ listening'[Synced(m)] = {}
      BY <1>4, <1>5, <1>6, <2>1, <2>3
    <3>2. watchers'[m] = depth'[Moving(m)] + depth'[Synced(m)]
      BY <1>2, <1>4, <3>1, NobodyHolds DEF Alone
    <3>3. m \notin open => \A o, u \in MovingHolders(m)' \cup SyncedHolders(m)' : o = u
      BY <1>2, <1>4 DEF Alone
    <3>4. listening'[Moving(m)] = IF m \in open THEN {m} ELSE MovingHolders(m)'
      BY <1>2, <1>4, <3>1 DEF Alone
    <3>. QED
      BY <1>2, <1>4, <2>3, <3>1, <3>2, <3>3, <3>4 DEF Alone
  <2>. QED
    BY <2>2, <2>3
<1>8. Called'
  <2>1. \A u \in Moves : pc'[u] = pc[u]
    <3>1. \E l : pc' = [pc EXCEPT ![t] = l] \/ pc' = pc
      BY DEF SyncUnwind, Goto
    <3>. QED
      BY <3>1, TasksApart DEF Inv, TypeOK
  <2>. QED
    BY <1>4, <2>1 DEF Tidy, Called
<1>9. Told'
  <2>1. StreamTypeOK /\ WireOK /\ depth[Synced(m)] > 0 /\ Told
    BY <1>4 DEF Inv, TypeOK, Tidy
  <2>. QED
    BY <1>2, <1>3, <1>4, <2>1, ToldExit
<1>. QED
  BY <1>7, <1>8, <1>9 DEF Tidy

\* Steps without a context.
LEMMA TidySame ==
  ASSUME Tidy, UNCHANGED <<watchers, depth, listening, open, batch, left>>, Told',
         \A t \in Tasks : /\ pc[t] \in {"waiting", "reading"} <=> pc'[t] \in {"waiting", "reading"}
                          /\ pc[t] = "unwinding" <=> pc'[t] = "unwinding"
                          /\ pc'[t] = "called" => pc[t] = "called"
  PROVE  Tidy'
<1>1. ASSUME NEW m \in Motors
      PROVE  Alone(m)'
  BY HoldersSame, AloneSame DEF Tidy
<1>2. Called'
  BY TasksApart DEF Tidy, Called
<1>. QED
  BY <1>1, <1>2 DEF Tidy

LEMMA TidyQuiet ==
  ASSUME Inv, Tidy,
         \/ \E t \in Moves : MoveRefused(t)
         \/ \E t \in Waits : WaitRead(t)
         \/ \E t \in Syncs : \/ SyncRefused(t) \/ SyncEnter(t) \/ SyncBodyRaises(t)
                             \/ \E m \in Motors : PrepareMove(t, m)
         \/ Dispatch \/ UNCHANGED vars
  PROVE  Tidy'
<1>1. UNCHANGED <<watchers, depth, listening, open, batch, left, requests, registered>>
  BY DEF MoveRefused, WaitRead, SyncRefused, SyncEnter, SyncBodyRaises, PrepareMove, Dispatch,
         OnPropertyUpdate, OnReply, vars, streamVars, taskVars, serverVars
<1>2. Told'
  BY <1>1 DEF Tidy, Told, Watched
<1>. DEFINE Same == \A t \in Tasks :
                 /\ pc[t] \in {"waiting", "reading"} <=> pc'[t] \in {"waiting", "reading"}
                 /\ pc[t] = "unwinding" <=> pc'[t] = "unwinding"
                 /\ pc'[t] = "called" => pc[t] = "called"
<1>3. Same
  <2>0. pc \in [Tasks -> {"idle", "called", "reading", "waiting", "preparing", "unwinding"}
                         \cup Ended]
    BY DEF Inv, TypeOK
  <2>1. ASSUME NEW t \in Moves, MoveRefused(t) PROVE Same
    <3>1. pc[t] \in {"idle", "called"} /\ pc' = [pc EXCEPT ![t] = "failed"]
      BY <2>1, MayMoveFacts DEF MoveRefused, Goto
    <3>. QED
      BY <2>0, <3>1
  <2>2. ASSUME NEW t \in Waits, WaitRead(t) PROVE Same
    BY <2>0, <2>2 DEF WaitRead, Goto
  <2>3. ASSUME NEW t \in Syncs, SyncRefused(t) \/ SyncEnter(t) \/ SyncBodyRaises(t) PROVE Same
    BY <2>0, <2>3 DEF SyncRefused, SyncEnter, SyncBodyRaises, Callable, Goto
  <2>4. ASSUME \/ \E t \in Syncs, m \in Motors : PrepareMove(t, m)
               \/ Dispatch \/ UNCHANGED vars
        PROVE  Same
    BY <2>4 DEF PrepareMove, Dispatch, vars, taskVars
  <2>. QED
    BY <2>1, <2>2, <2>3, <2>4
<1>. QED
  BY <1>1, <1>2, <1>3, TidySame

LEMMA TidyServer ==
  ASSUME Inv, Tidy, ServerStep
  PROVE  Tidy'
<1>1. UNCHANGED <<streamVars, taskVars>> /\ requests \in Seq(Message)
      /\ registered \in SUBSET Motors /\ Watched' = Watched
  BY DEF Inv, WireOK, TypeOK, ServerStep, ServeRegister, ServeUnregister, ServeRead,
         ServePrestartAll, ServeStartOne, ServeStartAll, ServeAbortAll, Serve, Execute, Stop,
         streamVars, Watched
<1>2. Told'
  <2>1. CASE UNCHANGED <<requests, registered>>
    BY <1>1, <2>1 DEF Tidy, Told
  <2>2. ASSUME requests # <<>>, requests' = Tail(requests),
               registered' = Knowing(registered, Head(requests))
        PROVE  Told'
    <3>1. Head(requests) \in Message
      BY <1>1, <2>2
    <3>2. PICK z \in SUBSET Motors :
              <<registered, Head(requests), z>> \in Telling /\ Tells(Tail(requests), z, Watched)
      BY <1>1, <2>2, PathHead DEF Tidy, Told, Tells
    <3>3. z = registered'
      BY <1>1, <2>2, <3>1, <3>2, TellingStep
    <3>. QED
      BY <1>1, <2>2, <3>2, <3>3 DEF Told
  <2>3. CASE ServeRegister \/ ServeUnregister
    BY <2>2, <2>3 DEF ServeRegister, ServeUnregister, Serve, Knowing
  <2>4. CASE ServeRead \/ ServePrestartAll \/ ServeStartOne \/ ServeStartAll \/ ServeAbortAll
    BY <2>2, <2>4 DEF ServeRead, ServePrestartAll, ServeStartOne, ServeStartAll, ServeAbortAll,
                      Serve, Knowing, serverVars
  <2>5. CASE Execute \/ \E m \in Motors : Stop(m)
    BY <2>1, <2>5 DEF Execute, Stop
  <2>. QED
    BY <2>3, <2>4, <2>5 DEF ServerStep
<1>. QED
  BY <1>1, <1>2, TidySame DEF streamVars, taskVars

LEMMA TidyInit ==
  ASSUME Init
  PROVE  Tidy
<1>1. ASSUME NEW m \in Motors
      PROVE  Alone(m)
  <2>1. MovingHolders(m) = {} /\ SyncedHolders(m) = {}
    BY TasksApart DEF Init, MovingHolders, SyncedHolders
  <2>2. /\ depth[Moving(m)] = 0 /\ depth[Synced(m)] = 0 /\ watchers[m] = 0
        /\ listening[Moving(m)] = {} /\ listening[Synced(m)] = {} /\ open = {}
    BY StreamFacts DEF Init, StreamInit
  <2>. QED
    BY <2>1, <2>2 DEF Alone
<1>2. Called
  BY TasksApart DEF Init, Called
<1>3. Told
  <2>1. Watched = {} /\ requests = <<>> /\ registered = {} /\ {} \in SUBSET Motors
    BY DEF Init, StreamInit, Watched
  <2>. QED
    BY <2>1, PathNone DEF Told, Tells
<1>. QED
  BY <1>1, <1>2, <1>3 DEF Tidy

LEMMA TidyStep ==
  ASSUME ~Overlaps, Inv, Tidy, [Next]_vars
  PROVE  Tidy'
<1>0. \A t \in Children : t \in Moves
  BY MotorsAssumption DEF Children
<1>1. CASE CallStep
  <2>1. \A t \in Moves \ Children : t \in Moves
    OBVIOUS
  <2>. QED
    BY <1>1, <2>1, TidyEnterGroup, TidyExitGroup, TidyMove, TidyStartMove, TidyWaitUntil,
       TidySyncStart, TidyQuiet DEF CallStep
<1>2. CASE Dispatch
  BY <1>2, TidyQuiet
<1>3. CASE ServerStep
  BY <1>3, TidyServer
<1>4. ASSUME NEW t \in Tasks, Resume(t)
      PROVE  Tidy'
  BY <1>0, <1>4, TidyReturn, TidyMove, TidySyncUnwind, TidyQuiet DEF Resume
<1>5. CASE UNCHANGED vars
  BY <1>5, TidyQuiet
<1>. QED
  BY <1>1, <1>2, <1>3, <1>4, <1>5 DEF Next

\* When contexts of a property only overlap inside a group, every closure that
\* was registered is removed, every count returns to zero and the server
\* forgets the registration, whichever way the contexts end.
THEOREM NothingLeft ==
  ASSUME ~Overlaps
  PROVE  Spec => []NoLeak
<1>1. Init => Tidy
  BY TidyInit
<1>2. Inv /\ Tidy /\ [Next]_vars => Tidy'
  BY TidyStep
<1>3. Inv /\ Tidy => NoLeak
  <2>. SUFFICES ASSUME Inv, Tidy, \A t \in Tasks : pc[t] \in {"idle"} \cup Ended, open = {}
                PROVE  /\ \A m \in Motors : watchers[m] = 0
                       /\ \A s \in MotorStreams : listening[s] = {} /\ depth[s] = 0
                       /\ requests = <<>> => registered = {}
    BY DEF NoLeak
  <2>1. ASSUME NEW m \in Motors
        PROVE  /\ watchers[m] = 0 /\ depth[Moving(m)] = 0 /\ depth[Synced(m)] = 0
               /\ listening[Moving(m)] = {} /\ listening[Synced(m)] = {}
    <3>1. MovingHolders(m) = {} /\ SyncedHolders(m) = {}
      BY Nobody
    <3>. QED
      BY <3>1, NobodyHolds DEF Tidy, Alone
  <2>2. \A s \in MotorStreams : listening[s] = {} /\ depth[s] = 0
    BY <2>1 DEF MotorStreams
  <2>3. ASSUME requests = <<>>
        PROVE  registered = {}
    <3>1. registered \in SUBSET Motors /\ Tells(<<>>, registered, Watched)
      BY <2>3 DEF Inv, TypeOK, Tidy, Told
    <3>2. Watched = registered
      BY <3>1, PathNone DEF Tells
    <3>. QED
      BY <2>1, <3>2 DEF Watched
  <2>. QED
    BY <2>1, <2>2, <2>3
<1>. QED
  BY <1>1, <1>2, <1>3, Invariance, PTL DEF Spec

(***************************************************************************)
(* What a motion, once it is sent off, still has before it.                *)
(***************************************************************************)
IsStart(r, m) == r.command = "start_one" /\ r.property = m
IsEvent(e, m) == e.command = "EVENT" /\ e.property = m
IsStand(e, m) == IsEvent(e, m) /\ e.value = FALSE
Register(m) == Msg("REGISTER", m, None)

NoStart(q, m)    == \A i \in DOMAIN q : ~IsStart(q[i], m)
NoRegister(q, m) == \A i \in DOMAIN q : q[i] # Register(m)
OneRegister(q, m) == \A i, k \in DOMAIN q : q[i] = Register(m) /\ q[k] = Register(m) => i = k
NoEvent(e, m)    == \A i \in DOMAIN e : ~IsEvent(e[i], m)
NoStand(e, m)    == \A i \in DOMAIN e : ~IsStand(e[i], m)
StandFirst(e, m) == \A i \in DOMAIN e : IsStand(e[i], m) =>
                        \A k \in 1..(i - 1) : ~IsEvent(e[k], m)

\* One start of m, that of t, and any registration of m before it.
StartsOnce(q, m, t) == \E j \in DOMAIN q :
    /\ q[j] = StartOne(m, t)
    /\ \A i \in DOMAIN q : /\ IsStart(q[i], m) => i = j
                           /\ q[i] = Register(m) => i < j

LEMMA ConcatElements ==
  ASSUME NEW S, NEW a \in Seq(S), NEW b \in Seq(S)
  PROVE  /\ a \o b \in Seq(S)
         /\ \A i \in DOMAIN a : i \in DOMAIN (a \o b) /\ (a \o b)[i] = a[i]
         /\ \A i \in DOMAIN b : Len(a) + i \in DOMAIN (a \o b) /\ (a \o b)[Len(a) + i] = b[i]
         /\ \A i \in DOMAIN (a \o b) : i \in DOMAIN a \/ \E k \in DOMAIN b : i = Len(a) + k
         /\ DOMAIN a = 1..Len(a) /\ DOMAIN b = 1..Len(b) /\ Len(a) \in Nat /\ Len(b) \in Nat
<1>1. PICK c : c = a \o b
  OBVIOUS
<1>2. /\ c \in Seq(S) /\ Len(c) = Len(a) + Len(b)
      /\ \A i \in 1..Len(a) : c[i] = a[i]
      /\ \A i \in 1..Len(b) : c[Len(a) + i] = b[i]
      /\ Len(a) \in Nat /\ Len(b) \in Nat
  BY <1>1
<1>3. DOMAIN a = 1..Len(a) /\ DOMAIN b = 1..Len(b) /\ DOMAIN c = 1..(Len(a) + Len(b))
  BY <1>2
<1>4. ASSUME NEW i \in DOMAIN c, i \notin DOMAIN a
      PROVE  \E k \in DOMAIN b : i = Len(a) + k
  <2>1. i - Len(a) \in DOMAIN b /\ i = Len(a) + (i - Len(a))
    BY <1>2, <1>3, <1>4
  <2>. QED
    BY <2>1
<1>. QED
  BY <1>1, <1>2, <1>3, <1>4

LEMMA TailElements ==
  ASSUME NEW S, NEW a \in Seq(S), a # <<>>
  PROVE  /\ Tail(a) \in Seq(S) /\ 1 \in DOMAIN a /\ Head(a) = a[1]
         /\ DOMAIN a = 1..Len(a) /\ DOMAIN Tail(a) = 1..(Len(a) - 1) /\ Len(a) \in Nat
         /\ \A i \in DOMAIN Tail(a) : i + 1 \in DOMAIN a /\ Tail(a)[i] = a[i + 1]
         /\ \A i \in DOMAIN a : i # 1 => i - 1 \in DOMAIN Tail(a) /\ Tail(a)[i - 1] = a[i]
<1>1. /\ Tail(a) \in Seq(S) /\ Len(a) \in Nat /\ Len(a) # 0 /\ Head(a) = a[1]
      /\ Len(Tail(a)) = Len(a) - 1 /\ \A i \in 1..(Len(a) - 1) : Tail(a)[i] = a[i + 1]
  BY EmptySeq
<1>2. DOMAIN a = 1..Len(a) /\ DOMAIN Tail(a) = 1..(Len(a) - 1)
  BY <1>1
<1>3. ASSUME NEW i \in DOMAIN a, i # 1
      PROVE  i - 1 \in DOMAIN Tail(a) /\ Tail(a)[i - 1] = a[i]
  <2>1. i - 1 \in 1..(Len(a) - 1) /\ (i - 1) + 1 = i
    BY <1>1, <1>2, <1>3
  <2>. QED
    BY <1>1, <1>2, <2>1
<1>. QED
  BY <1>1, <1>2, <1>3

LEMMA ConcatRequests ==
  ASSUME NEW S, NEW q \in Seq(S), NEW x \in Seq(S), NEW m, NEW t
  PROVE  /\ NoStart(q \o x, m) <=> NoStart(q, m) /\ NoStart(x, m)
         /\ NoRegister(q \o x, m) <=> NoRegister(q, m) /\ NoRegister(x, m)
         /\ NoEvent(q \o x, m) <=> NoEvent(q, m) /\ NoEvent(x, m)
         /\ NoStand(q \o x, m) <=> NoStand(q, m) /\ NoStand(x, m)
<1>1. PICK c : c = q \o x
  OBVIOUS
<1>2. /\ \A i \in DOMAIN q : i \in DOMAIN c /\ c[i] = q[i]
      /\ \A i \in DOMAIN x : Len(q) + i \in DOMAIN c /\ c[Len(q) + i] = x[i]
      /\ \A i \in DOMAIN c : i \in DOMAIN q \/ \E k \in DOMAIN x : i = Len(q) + k
  BY <1>1, ConcatElements
<1>3. NoStart(c, m) <=> NoStart(q, m) /\ NoStart(x, m)
  BY <1>2 DEF NoStart
<1>4. NoRegister(c, m) <=> NoRegister(q, m) /\ NoRegister(x, m)
  BY <1>2 DEF NoRegister
<1>5. NoEvent(c, m) <=> NoEvent(q, m) /\ NoEvent(x, m)
  BY <1>2 DEF NoEvent
<1>6. NoStand(c, m) <=> NoStand(q, m) /\ NoStand(x, m)
  BY <1>2 DEF NoStand
<1>. QED
  BY <1>1, <1>3, <1>4, <1>5, <1>6

LEMMA ConcatOnce ==
  ASSUME NEW S, NEW q \in Seq(S), NEW x \in Seq(S), NEW m, NEW t
  PROVE  /\ OneRegister(q, m) /\ NoRegister(x, m) => OneRegister(q \o x, m)
         /\ NoRegister(q, m) /\ OneRegister(x, m) => OneRegister(q \o x, m)
         /\ StartsOnce(q, m, t) /\ NoStart(x, m) /\ NoRegister(x, m) => StartsOnce(q \o x, m, t)
         /\ NoStart(q, m) /\ StartsOnce(x, m, t) => StartsOnce(q \o x, m, t)
         /\ StandFirst(q, m) /\ NoStand(x, m) => StandFirst(q \o x, m)
         /\ NoEvent(q, m) /\ StandFirst(x, m) => StandFirst(q \o x, m)
<1>1. PICK c : c = q \o x
  OBVIOUS
<1>2. /\ \A i \in DOMAIN q : i \in DOMAIN c /\ c[i] = q[i]
      /\ \A i \in DOMAIN x : Len(q) + i \in DOMAIN c /\ c[Len(q) + i] = x[i]
      /\ \A i \in DOMAIN c : i \in DOMAIN q \/ \E k \in DOMAIN x : i = Len(q) + k
      /\ DOMAIN q = 1..Len(q) /\ DOMAIN x = 1..Len(x) /\ Len(q) \in Nat /\ Len(x) \in Nat
  BY <1>1, ConcatElements
<1>3. OneRegister(q, m) /\ NoRegister(x, m) => OneRegister(c, m)
  BY <1>2 DEF NoRegister, OneRegister
<1>4. NoRegister(q, m) /\ OneRegister(x, m) => OneRegister(c, m)
  BY <1>2 DEF NoRegister, OneRegister
<1>5. StartsOnce(q, m, t) /\ NoStart(x, m) /\ NoRegister(x, m) => StartsOnce(c, m, t)
  BY <1>2 DEF NoRegister, NoStart, StartsOnce
<1>6. NoStart(q, m) /\ StartsOnce(x, m, t) => StartsOnce(c, m, t)
  <2>. SUFFICES ASSUME NoStart(q, m), StartsOnce(x, m, t) PROVE StartsOnce(c, m, t)
    OBVIOUS
  <2>1. PICK j \in DOMAIN x : /\ x[j] = StartOne(m, t)
                              /\ \A i \in DOMAIN x : /\ IsStart(x[i], m) => i = j
                                                     /\ x[i] = Register(m) => i < j
    BY DEF StartsOnce
  <2>2. Len(q) + j \in DOMAIN c /\ c[Len(q) + j] = StartOne(m, t)
    BY <1>2, <2>1
  <2>3. ASSUME NEW i \in DOMAIN c
        PROVE  /\ IsStart(c[i], m) => i = Len(q) + j
               /\ c[i] = Register(m) => i < Len(q) + j
    <3>1. CASE i \in DOMAIN q
      BY <1>2, <3>1 DEF NoStart
    <3>2. ASSUME NEW k \in DOMAIN x, i = Len(q) + k
          PROVE  /\ IsStart(c[i], m) => i = Len(q) + j
                 /\ c[i] = Register(m) => i < Len(q) + j
      BY <1>2, <2>1, <3>2
    <3>. QED
      BY <1>2, <3>1, <3>2
  <2>. QED
    BY <2>2, <2>3 DEF StartsOnce
<1>7. StandFirst(q, m) /\ NoStand(x, m) => StandFirst(c, m)
  <2>. SUFFICES ASSUME StandFirst(q, m), NoStand(x, m), NEW i \in DOMAIN c, IsStand(c[i], m),
                       NEW k \in 1..(i - 1)
                PROVE  ~IsEvent(c[k], m)
    BY DEF StandFirst
  <2>1. i \in DOMAIN q
    BY <1>2 DEF NoStand
  <2>2. k \in DOMAIN q
    BY <1>2, <2>1
  <2>. QED
    BY <1>2, <2>1, <2>2 DEF StandFirst
<1>8. NoEvent(q, m) /\ StandFirst(x, m) => StandFirst(c, m)
  <2>. SUFFICES ASSUME NoEvent(q, m), StandFirst(x, m), NEW i \in DOMAIN c, IsStand(c[i], m),
                       NEW k \in 1..(i - 1)
                PROVE  ~IsEvent(c[k], m)
    BY DEF StandFirst
  <2>1. PICK j \in DOMAIN x : i = Len(q) + j
    BY <1>2 DEF NoEvent, IsStand
  <2>2. CASE k \in DOMAIN q
    BY <1>2, <2>2 DEF NoEvent
  <2>3. CASE k \notin DOMAIN q
    <3>1. k - Len(q) \in 1..(j - 1) /\ k - Len(q) \in DOMAIN x /\ k = Len(q) + (k - Len(q))
      BY <1>2, <2>1, <2>3
    <3>2. c[k] = x[k - Len(q)] /\ IsStand(x[j], m)
      BY <1>2, <2>1, <3>1
    <3>. QED
      BY <3>1, <3>2 DEF StandFirst
  <2>. QED
    BY <2>2, <2>3
<1>. QED
  BY <1>1, <1>3, <1>4, <1>5, <1>6, <1>7, <1>8

LEMMA TailRequests ==
  ASSUME NEW S, NEW q \in Seq(S), q # <<>>, NEW m, NEW t
  PROVE  /\ NoStart(q, m) => NoStart(Tail(q), m)
         /\ NoRegister(q, m) => NoRegister(Tail(q), m)
         /\ OneRegister(q, m) => OneRegister(Tail(q), m)
         /\ OneRegister(q, m) /\ Head(q) = Register(m) => NoRegister(Tail(q), m)
         /\ NoRegister(Tail(q), m) /\ Head(q) # Register(m) => NoRegister(q, m)
         /\ NoStart(Tail(q), m) /\ ~IsStart(Head(q), m) => NoStart(q, m)
         /\ StartsOnce(q, m, t) /\ ~IsStart(Head(q), m) => StartsOnce(Tail(q), m, t)
         /\ StartsOnce(q, m, t) /\ IsStart(Head(q), m) =>
                Head(q) = StartOne(m, t) /\ NoStart(Tail(q), m) /\ NoRegister(Tail(q), m)
<1>1. PICK c : c = Tail(q)
  OBVIOUS
<1>2. /\ 1 \in DOMAIN q /\ Head(q) = q[1]
      /\ DOMAIN q = 1..Len(q) /\ DOMAIN c = 1..(Len(q) - 1) /\ Len(q) \in Nat
      /\ \A i \in DOMAIN c : i + 1 \in DOMAIN q /\ c[i] = q[i + 1]
      /\ \A i \in DOMAIN q : i # 1 => i - 1 \in DOMAIN c /\ c[i - 1] = q[i]
  BY <1>1, TailElements
<1>3. /\ NoStart(q, m) => NoStart(c, m)
      /\ NoRegister(q, m) => NoRegister(c, m)
  BY <1>2 DEF NoStart, NoRegister
<1>4. /\ OneRegister(q, m) => OneRegister(c, m)
      /\ OneRegister(q, m) /\ Head(q) = Register(m) => NoRegister(c, m)
  BY <1>2 DEF OneRegister, NoRegister
<1>5. NoRegister(c, m) /\ Head(q) # Register(m) => NoRegister(q, m)
  BY <1>2 DEF NoRegister
<1>6. NoStart(c, m) /\ ~IsStart(Head(q), m) => NoStart(q, m)
  BY <1>2 DEF NoStart
<1>7. ASSUME StartsOnce(q, m, t), ~IsStart(Head(q), m)
      PROVE  StartsOnce(c, m, t)
  <2>1. PICK j \in DOMAIN q : /\ q[j] = StartOne(m, t)
                              /\ \A i \in DOMAIN q : /\ IsStart(q[i], m) => i = j
                                                     /\ q[i] = Register(m) => i < j
    BY <1>7 DEF StartsOnce
  <2>2. j # 1
    BY <1>2, <1>7, <2>1 DEF IsStart, StartOne, Msg
  <2>3. j - 1 \in DOMAIN c /\ c[j - 1] = StartOne(m, t)
    BY <1>2, <2>1, <2>2
  <2>4. ASSUME NEW i \in DOMAIN c
        PROVE  (IsStart(c[i], m) => i = j - 1) /\ (c[i] = Register(m) => i < j - 1)
    BY <1>2, <2>1
  <2>. QED
    BY <2>3, <2>4 DEF StartsOnce
<1>8. ASSUME StartsOnce(q, m, t), IsStart(Head(q), m)
      PROVE  Head(q) = StartOne(m, t) /\ NoStart(c, m) /\ NoRegister(c, m)
  <2>1. PICK j \in DOMAIN q : /\ q[j] = StartOne(m, t)
                              /\ \A i \in DOMAIN q : /\ IsStart(q[i], m) => i = j
                                                     /\ q[i] = Register(m) => i < j
    BY <1>8 DEF StartsOnce
  <2>2. j = 1
    BY <1>2, <1>8, <2>1
  <2>. QED
    BY <1>2, <2>1, <2>2 DEF NoStart, NoRegister
<1>. QED
  BY <1>1, <1>3, <1>4, <1>5, <1>6, <1>7, <1>8

LEMMA TailEvents ==
  ASSUME NEW S, NEW e \in Seq(S), e # <<>>, NEW m
  PROVE  /\ NoEvent(e, m) => NoEvent(Tail(e), m) /\ ~IsEvent(Head(e), m)
         /\ NoStand(e, m) => NoStand(Tail(e), m)
         /\ StandFirst(e, m) => StandFirst(Tail(e), m)
         /\ StandFirst(e, m) /\ IsEvent(Head(e), m) => NoStand(Tail(e), m)
         /\ NoStand(Tail(e), m) /\ ~IsStand(Head(e), m) => NoStand(e, m)
<1>1. PICK c : c = Tail(e)
  OBVIOUS
<1>2. /\ 1 \in DOMAIN e /\ Head(e) = e[1]
      /\ DOMAIN e = 1..Len(e) /\ DOMAIN c = 1..(Len(e) - 1) /\ Len(e) \in Nat
      /\ \A i \in DOMAIN c : i + 1 \in DOMAIN e /\ c[i] = e[i + 1]
      /\ \A i \in DOMAIN e : i # 1 => i - 1 \in DOMAIN c /\ c[i - 1] = e[i]
  BY <1>1, TailElements
<1>3. /\ NoEvent(e, m) => NoEvent(c, m) /\ ~IsEvent(Head(e), m)
      /\ NoStand(e, m) => NoStand(c, m)
  BY <1>2 DEF NoEvent, NoStand
<1>4. ASSUME StandFirst(e, m), NEW i \in DOMAIN c, IsStand(c[i], m)
      PROVE  /\ \A k \in 1..(i - 1) : ~IsEvent(c[k], m)
             /\ ~IsEvent(Head(e), m)
  <2>1. /\ i + 1 \in DOMAIN e /\ IsStand(e[i + 1], m)
        /\ \A k \in 1..((i + 1) - 1) : ~IsEvent(e[k], m)
    BY <1>2, <1>4 DEF StandFirst
  <2>2. 1 \in 1..((i + 1) - 1)
    BY <1>2
  <2>3. ASSUME NEW k \in 1..(i - 1) PROVE k \in DOMAIN c /\ k + 1 \in 1..((i + 1) - 1)
    BY <1>2
  <2>. QED
    BY <1>2, <2>1, <2>2, <2>3
<1>5. /\ StandFirst(e, m) => StandFirst(c, m)
      /\ StandFirst(e, m) /\ IsEvent(Head(e), m) => NoStand(c, m)
  BY <1>4 DEF StandFirst, NoStand
<1>6. NoStand(c, m) /\ ~IsStand(Head(e), m) => NoStand(e, m)
  BY <1>2 DEF NoStand
<1>. QED
  BY <1>1, <1>3, <1>5, <1>6

(***************************************************************************)
(* A motion that is not mixed is in one place only, as the only one of its *)
(* motor.  The client's own notice that the motor stands is still to come: *)
(* a move_done = False that is on its way, or will be for a registration   *)
(* that is, finds a closure that takes it for its first event.             *)
(***************************************************************************)
NoneCollected(m) == \A x \in buffer : x[1] # m
NoneQueued(m)    == \A i \in DOMAIN commands : \A x \in commands[i] : x[1] # m
Collected(m, t)  == <<m, t>> \in buffer /\ \A x \in buffer : x[1] = m => x = <<m, t>>
Queued(m, t) == \E j \in DOMAIN commands :
    /\ <<m, t>> \in commands[j]
    /\ \A i \in DOMAIN commands : \A x \in commands[i] : x[1] = m => i = j /\ x = <<m, t>>
SentOnly(m, t) == /\ StartsOnce(requests, m, t)
                  /\ NoneCollected(m) /\ NoneQueued(m) /\ moving[m] = None
Received(m, t) == /\ NoStart(requests, m) /\ NoRegister(requests, m)
                  /\ \/ Collected(m, t) /\ NoneQueued(m) /\ moving[m] = None
                     \/ NoneCollected(m) /\ Queued(m, t) /\ moving[m] = None
                     \/ NoneCollected(m) /\ NoneQueued(m) /\ moving[m] = t
Placed(m, t) == SentOnly(m, t) \/ Received(m, t)

Deaf(s) == \A o \in listening[s] : <<o, s>> \notin initialized
Unheard(m, s) ==
    /\ StandFirst(events, m)
    /\ NoStand(events, m) \/ Deaf(s)
    /\ NoRegister(requests, m) \/ (Deaf(s) /\ OneRegister(requests, m) /\ NoEvent(events, m))

StreamOf(t, m) == IF t \in Syncs THEN Synced(m) ELSE Moving(m)
Holds(t, m)  == pc[t] \in {"waiting", "unwinding"} /\ m \in TaskMotors(t)
Awaits(t, m) == Waiter(t, StreamOf(t, m), FALSE) \in waiting
Goes(t, m) == Holds(t, m) /\ Awaits(t, m) /\ Placed(m, t) /\ Unheard(m, StreamOf(t, m))
GoesOn == \A t \in Moves \cup Syncs : t \notin mixed \cup raised =>
              \A m \in Motors : t \in Motions(m) => Goes(t, m)

\* What the contexts and the groups leave of earlier registrations.
Surplus(s) == IF depth[s] = 0 THEN listening[s] # {}
              ELSE \E a, b \in listening[s] : a # b
Spare(m) == LET n == depth[Moving(m)] + depth[Synced(m)] IN
    /\ Surplus(Moving(m)) \/ Surplus(Synced(m)) => watchers[m] >= n + 1
    /\ Surplus(Moving(m)) /\ Surplus(Synced(m)) => watchers[m] >= n + 2
Quiet(m) == \A x \in initialized : x[2] # Moving(m) /\ x[2] # Synced(m)
Unused(m) == /\ NoRegister(requests, m) /\ m \notin registered
             /\ NoEvent(events, m) /\ Quiet(m)
Echoed(m) ==
    /\ NoRegister(requests, m) \/ /\ OneRegister(requests, m) /\ m \notin registered
                                  /\ NoEvent(events, m) /\ Quiet(m)
    /\ \A i \in DOMAIN events : IsEvent(events[i], m) /\ events[i].by = None =>
          /\ NoRegister(requests, m) /\ Quiet(m)
          /\ \A k \in 1..(i - 1) : ~IsEvent(events[k], m)
Groups == /\ (\A t \in Tasks : pc[t] = "idle") => \A m \in Motors \ open : Unused(m)
          /\ \A m \in open : Echoed(m)
Raising == \A t \in raised : pc[t] \in {"unwinding", "aborted"}

Calm == (\A m \in Motors : Spare(m)) /\ Groups /\ Raising /\ GoesOn

HeldOpen == \A t \in Moves \cup Syncs : \A m \in Motors : Holds(t, m) =>
    depth[StreamOf(t, m)] > 0 /\ watchers[m] > 0 /\ StreamOf(t, m) \in MotorStreams

LEMMA HoldsDepth == Inv => HeldOpen
<1>. SUFFICES ASSUME Inv, NEW t \in Moves \cup Syncs, NEW m \in Motors, Holds(t, m)
              PROVE  /\ depth[StreamOf(t, m)] > 0 /\ watchers[m] > 0
                     /\ StreamOf(t, m) \in MotorStreams
  BY DEF HeldOpen
<1>1. t \in Tasks
  BY TasksApart
<1>2. CASE t \in Syncs
  <2>1. pc[t] = "unwinding"
    BY <1>2 DEF Holds, Inv, Labels, Ended
  <2>2. t \in SyncedHolders(m)
    BY <1>2, <2>1 DEF Holds, TaskMotors, SyncedHolders
  <2>. QED
    BY <1>2, <2>2, NobodyHolds, StreamFacts DEF StreamOf
<1>3. CASE t \notin Syncs
  <2>1. pc[t] = "waiting" /\ MotorOf[t] = m
    BY <1>3 DEF Holds, Inv, Labels, Ended, TaskMotors
  <2>2. t \in MovingHolders(m)
    BY <1>3, <2>1 DEF MovingHolders
  <2>. QED
    BY <1>3, <2>2, NobodyHolds, StreamFacts DEF StreamOf
<1>. QED
  BY <1>2, <1>3

\* Where a motion of the client can come from.
LEMMA MotionsSent ==
  ASSUME WireOK, UNCHANGED <<buffer, commands, moving>>, NEW x \in Seq(Message),
         requests' = requests \o x, NEW t, NEW m
  PROVE  t \in Motions(m)' => t \in Motions(m) \/ \E i \in DOMAIN x : x[i] = StartOne(m, t)
<1>. SUFFICES ASSUME t \in Motions(m)', t \notin Motions(m)
              PROVE  \E i \in DOMAIN x : x[i] = StartOne(m, t)
  OBVIOUS
<1>1. PICK c : c = requests \o x
  OBVIOUS
<1>2. /\ \A i \in DOMAIN requests : i \in DOMAIN c /\ c[i] = requests[i]
      /\ \A i \in DOMAIN x : Len(requests) + i \in DOMAIN c /\ c[Len(requests) + i] = x[i]
      /\ \A i \in DOMAIN c : i \in DOMAIN requests \/ \E k \in DOMAIN x : i = Len(requests) + k
  BY <1>1, ConcatElements DEF WireOK
<1>3. PICK i \in DOMAIN c : /\ c[i].property = m /\ c[i].by = t
                            /\ c[i].command = "start_one"
  BY <1>1 DEF Motions
<1>4. i \notin DOMAIN requests
  BY <1>2, <1>3 DEF Motions
<1>5. PICK k \in DOMAIN x : i = Len(requests) + k
  BY <1>2, <1>4
<1>6. x[k] \in Message /\ x[k] = c[i]
  BY <1>2, <1>5
<1>7. x[k] = StartOne(m, t)
  BY <1>3, <1>6, MessageKinds
<1>. QED
  BY <1>7

\* A motion goes on while the client does other things.
LEMMA GoesWhile ==
  ASSUME WireOK, NEW t, NEW m, NEW s, Placed(m, t), Unheard(m, s),
         UNCHANGED <<events, buffer, commands, moving>>, initialized' \subseteq initialized,
         listening'[s] = listening[s], NEW x \in Seq(Message), requests' = requests \o x,
         NoStart(x, m), NoRegister(x, m)
  PROVE  Placed(m, t)' /\ Unheard(m, s)'
<1>1. requests \in Seq(Message)
  BY DEF WireOK
<1>2. Placed(m, t)'
  <2>1. CASE SentOnly(m, t)
    <3>1. StartsOnce(requests, m, t)'
      BY <1>1, <2>1, ConcatOnce DEF SentOnly
    <3>. QED
      BY <2>1, <3>1 DEF SentOnly, Placed, NoneCollected, NoneQueued
  <2>2. CASE Received(m, t)
    <3>1. NoStart(requests, m)' /\ NoRegister(requests, m)'
      BY <1>1, <2>2, ConcatRequests DEF Received
    <3>. QED
      BY <2>2, <3>1 DEF Received, Placed, NoneCollected, NoneQueued, Collected, Queued
  <2>. QED
    BY <2>1, <2>2 DEF Placed
<1>3. Unheard(m, s)'
  <2>1. Deaf(s) => Deaf(s)'
    BY DEF Deaf
  <2>2. NoRegister(requests, m) => NoRegister(requests, m)'
    BY <1>1, ConcatRequests
  <2>3. OneRegister(requests, m) => OneRegister(requests, m)'
    BY <1>1, ConcatOnce
  <2>4. StandFirst(events, m)' /\ NoStand(events, m)' = NoStand(events, m)
        /\ NoEvent(events, m)' = NoEvent(events, m)
    BY DEF Unheard
  <2>. QED
    BY <2>1, <2>2, <2>3, <2>4 DEF Unheard
<1>. QED
  BY <1>2, <1>3

\* A motion begins.
LEMMA GoesOff ==
  ASSUME Inv, NEW m \in Motors, NEW s \in {Moving(m), Synced(m)}, NEW t,
         Spare(m), m \in open => Echoed(m), Resting(m),
         UNCHANGED <<events, buffer, commands, moving>>, initialized' \subseteq initialized,
         listening'[s] \subseteq listening[s] \cup {t}, <<t, s>> \notin initialized',
         NEW rs \in Seq(Message), NEW more \in Seq(Message),
         requests' = requests \o (rs \o more),
         NoStart(rs, m), OneRegister(rs, m), watchers[m] > 0 => NoRegister(rs, m),
         NoRegister(more, m), StartsOnce(more, m, t)
  PROVE  Placed(m, t)' /\ Unheard(m, s)'
<1>1. /\ requests \in Seq(Message) /\ events \in Seq(Notice) /\ rs \o more \in Seq(Message)
      /\ watchers[m] \in Nat /\ depth[Moving(m)] \in Nat /\ depth[Synced(m)] \in Nat
  BY NobodyHolds DEF Inv, WireOK
<1>2. m \in open => watchers[m] > 0
  <2>1. m \in open => m \in MovingHolders(m)
    BY DEF MovingHolders
  <2>. QED
    BY <1>1, <2>1, NobodyHolds
<1>3. Motions(m) = {}
  BY DEF Resting
<1>4. /\ NoStart(requests, m) /\ NoneCollected(m) /\ NoneQueued(m) /\ moving[m] = None
  <2>1. NoStart(requests, m)
    <3>. SUFFICES ASSUME NEW i \in DOMAIN requests, IsStart(requests[i], m) PROVE FALSE
      BY DEF NoStart
    <3>1. requests[i] \in Message
      BY <1>1
    <3>2. requests[i].by \in Tasks
      BY <3>1, MessageKinds, TasksApart DEF IsStart
    <3>. QED
      BY <1>3, <3>2 DEF Motions, IsStart
  <2>2. NoneCollected(m)
    BY <1>3 DEF Motions, NoneCollected, Inv, TypeOK, Motion
  <2>3. NoneQueued(m)
    <3>. SUFFICES ASSUME NEW i \in DOMAIN commands, NEW x \in commands[i], x[1] = m PROVE FALSE
      BY DEF NoneQueued
    <3>1. commands[i] \subseteq Motion
      BY DEF Inv, TypeOK
    <3>2. x[2] \in Tasks /\ x = <<m, x[2]>>
      BY <3>1 DEF Motion
    <3>. QED
      BY <1>3, <3>2 DEF Motions
  <2>4. moving[m] = None
    BY <1>3 DEF Motions, Inv, TypeOK
  <2>. QED
    BY <2>1, <2>2, <2>3, <2>4
<1>5. Placed(m, t)'
  <2>1. StartsOnce(rs \o more, m, t)
    BY ConcatOnce
  <2>2. StartsOnce(requests, m, t)'
    BY <1>1, <1>4, <2>1, ConcatOnce
  <2>. QED
    BY <1>4, <2>2 DEF Placed, SentOnly, NoneCollected, NoneQueued
<1>6. Quiet(m) => Deaf(s)'
  BY DEF Quiet, Deaf
<1>7. watchers[m] = 0 => Deaf(s)'
  <2>1. watchers[m] = 0 => ~Surplus(s) /\ depth[s] = 0
    <3>1. watchers[m] = 0 => depth[Moving(m)] = 0 /\ depth[Synced(m)] = 0
      BY <1>1, NobodyHolds
    <3>2. watchers[m] = 0 => ~Surplus(Moving(m)) /\ ~Surplus(Synced(m))
      BY <1>1 DEF Spare
    <3>. QED
      BY <3>1, <3>2
  <2>2. watchers[m] = 0 => listening[s] = {}
    BY <2>1 DEF Surplus
  <2>. QED
    BY <2>2 DEF Deaf
<1>8. \A i \in DOMAIN events : IsEvent(events[i], m) =>
          /\ m \in open /\ NoRegister(requests, m) /\ Quiet(m)
          /\ \A k \in 1..(i - 1) : ~IsEvent(events[k], m)
  BY DEF Resting, IsEvent, Echoed
<1>9. NoRegister(requests, m) \/ m \in open
  BY DEF Resting, NoRegister, Register
<1>10. StandFirst(events, m)'
  BY <1>8 DEF StandFirst, IsStand
<1>11. NoStand(events, m)' \/ Deaf(s)'
  BY <1>6, <1>8 DEF NoStand, IsStand
<1>12. NoRegister(requests, m)' \/ (Deaf(s)' /\ OneRegister(requests, m)' /\ NoEvent(events, m)')
  <2>1. NoRegister(rs \o more, m) <=> NoRegister(rs, m)
    BY ConcatRequests
  <2>2. OneRegister(rs \o more, m)
    BY ConcatOnce
  <2>3. CASE NoRegister(requests, m) /\ NoRegister(rs, m)
    BY <1>1, <2>1, <2>3, ConcatRequests
  <2>4. CASE ~NoRegister(rs, m)
    <3>1. watchers[m] = 0 /\ m \notin open
      BY <1>1, <1>2, <2>4
    <3>2. NoRegister(requests, m) /\ NoEvent(events, m)
      BY <1>8, <1>9, <3>1 DEF NoEvent
    <3>3. OneRegister(requests, m)'
      BY <1>1, <2>2, <3>2, ConcatOnce
    <3>. QED
      BY <1>7, <3>1, <3>2, <3>3
  <2>5. CASE ~NoRegister(requests, m)
    <3>1. m \in open /\ Echoed(m) /\ NoRegister(rs, m)
      BY <1>2, <1>9, <2>5
    <3>2. OneRegister(requests, m) /\ NoEvent(events, m) /\ Quiet(m)
      BY <2>5, <3>1 DEF Echoed
    <3>3. OneRegister(requests, m)'
      BY <1>1, <2>1, <3>1, <3>2, ConcatOnce
    <3>. QED
      BY <1>6, <3>2, <3>3
  <2>. QED
    BY <2>3, <2>4, <2>5
<1>. QED
  BY <1>5, <1>10, <1>11, <1>12 DEF Unheard

(***************************************************************************)
(* Contexts: registrations are only sent for motors nobody watches, each   *)
(* once, and taken back when nobody does; the closures of a stream stay    *)
(* while a context on it is open, that of a group has heard what it has.   *)
(***************************************************************************)
Unregister(m) == Msg("UNREGISTER", m, None)
NoUnregister(q, m) == \A i \in DOMAIN q : q[i] # Unregister(m)
IsRead(r, m) == r.command = "CHAN_READ" /\ r.property = m
NoRead(q, m) == \A i \in DOMAIN q : ~IsRead(q[i], m)

Registrar(rs) == \A m \in Motors : /\ NoStart(rs, m) /\ OneRegister(rs, m) /\ NoRead(rs, m)
                                   /\ watchers[m] > 0 => NoRegister(rs, m)
                                   /\ watchers'[m] > 0 => NoUnregister(rs, m)
SameClosures == \A s \in MotorStreams : depth[s] > 0 /\ depth'[s] > 0 =>
                    listening'[s] = listening[s]
Heard(m) == <<m, Moving(m)>> \in initialized
Sends(more) == /\ initialized' \subseteq initialized /\ SameClosures
               /\ \A m \in open : Heard(m) => Heard(m)'
               /\ \E rs \in Seq(Message) : requests' = requests \o (rs \o more) /\ Registrar(rs)

LEMMA ThreeRequests ==
  ASSUME NEW S, NEW a \in Seq(S), NEW b \in Seq(S), NEW c \in Seq(S)
  PROVE  a \o b \o c = a \o (b \o c)
BY ConcatAssociative

LEMMA RegistrarOne ==
  /\ Registrar(<<>>)
  /\ \A m \in Motors : watchers[m] = 0 => Registrar(<<Register(m)>>)
  /\ \A m \in Motors : watchers'[m] = 0 => Registrar(<<Unregister(m)>>)
<1>1. Registrar(<<>>)
  BY DEF Registrar, NoStart, OneRegister, NoRegister, NoUnregister, NoRead, IsRead
<1>2. ASSUME NEW m \in Motors, watchers[m] = 0
      PROVE  Registrar(<<Register(m)>>)
  <2>1. PICK q : q = <<Register(m)>>
    OBVIOUS
  <2>2. DOMAIN q = {1} /\ q[1] = Register(m)
    BY <2>1
  <2>3. \A n \in Motors : /\ ~IsStart(Register(m), n) /\ Register(m) # Unregister(n)
                          /\ Register(m) = Register(n) => watchers[n] = 0
                          /\ Register(m).command # "CHAN_READ"
    BY <1>2 DEF IsStart, Register, Unregister, Msg
  <2>4. Registrar(q)
    BY <2>2, <2>3 DEF Registrar, NoStart, OneRegister, NoRegister, NoUnregister, NoRead, IsRead
  <2>. QED
    BY <2>1, <2>4
<1>3. ASSUME NEW m \in Motors, watchers'[m] = 0
      PROVE  Registrar(<<Unregister(m)>>)
  <2>1. PICK q : q = <<Unregister(m)>>
    OBVIOUS
  <2>2. DOMAIN q = {1} /\ q[1] = Unregister(m)
    BY <2>1
  <2>3. \A n \in Motors : /\ ~IsStart(Unregister(m), n) /\ Unregister(m) # Register(n)
                          /\ Unregister(m) = Unregister(n) => watchers'[n] = 0
                          /\ Unregister(m).command # "CHAN_READ"
    BY <1>3 DEF IsStart, Register, Unregister, Msg
  <2>4. Registrar(q)
    BY <2>2, <2>3 DEF Registrar, NoStart, OneRegister, NoRegister, NoUnregister, NoRead, IsRead
  <2>. QED
    BY <2>1, <2>4
<1>. QED
  BY <1>1, <1>2, <1>3

LEMMA EnterMovingSends ==
  ASSUME StreamTypeOK, WireOK, NEW m \in Motors, NEW o \in (Tasks \cup Motors) \ open,
         NEW more \in Seq(Message), Enter(o, <<Moving(m)>>, more)
  PROVE  Sends(more)
<1>1. PICK rs : rs = IF watchers[m] = 0 THEN <<Register(m)>> ELSE <<>>
  OBVIOUS
<1>2. /\ depth' = [depth EXCEPT ![Moving(m)] = @ + 1]
      /\ listening' = IF depth[Moving(m)] = 0
                        THEN [listening EXCEPT ![Moving(m)] = @ \cup {o}] ELSE listening
      /\ initialized' = initialized \ {<<o, Moving(m)>>}
      /\ requests' = requests \o rs \o more
  BY <1>1, EnterMoving DEF Register
<1>3. Register(m) \in Message
  BY DEF Message, Registration, Register
<1>4. rs \in Seq(Message) /\ requests \in Seq(Message)
  BY <1>1, <1>3 DEF WireOK
<1>5. requests' = requests \o (rs \o more)
  BY <1>2, <1>4, ThreeRequests
<1>6. Registrar(rs)
  BY <1>1, RegistrarOne
<1>7. SameClosures
  BY <1>2 DEF SameClosures, StreamTypeOK
<1>8. \A n \in open : Heard(n) => Heard(n)'
  BY <1>2 DEF Heard
<1>. QED
  BY <1>2, <1>4, <1>5, <1>6, <1>7, <1>8 DEF Sends

LEMMA EnterSyncedSends ==
  ASSUME StreamTypeOK, WireOK, NEW t \in Syncs, NEW ms \in Seq(Motors), Distinct(ms),
         t \notin open,
         NEW more \in Seq(Message), Enter(t, [i \in 1..Len(ms) |-> Synced(ms[i])], more)
  PROVE  Sends(more)
<1>1. /\ depth' = [s \in MotorStreams |->
                     IF s \in {Synced(m) : m \in Range(ms)} THEN depth[s] + 1 ELSE depth[s]]
      /\ listening' = [s \in MotorStreams |->
                         IF s \in {Synced(m) : m \in Range(ms)} /\ depth[s] = 0
                           THEN listening[s] \cup {t} ELSE listening[s]]
      /\ initialized' = initialized \ ({t} \X {Synced(m) : m \in Range(ms)})
  BY EnterSynced
<1>2. PICK rs \in Seq(Registration) :
        /\ requests' = requests \o rs \o more /\ Registers(ms, rs)
        /\ \A m \in Motors : NotTwice(rs, Msg("REGISTER", m, None))
  BY EnterSynced
<1>3. rs \in Seq(Message) /\ requests \in Seq(Message)
  BY DEF Message, WireOK
<1>4. requests' = requests \o (rs \o more)
  BY <1>2, <1>3, ThreeRequests
<1>5. Registrar(rs)
  <2>1. ASSUME NEW i \in DOMAIN rs
        PROVE  \E n \in Range(ms) : watchers[n] = 0 /\ rs[i] = Register(n)
    <3>1. rs[i] \in Range(rs)
      BY DEF Range
    <3>. QED
      BY <1>2, <3>1 DEF Registers, Register
  <2>2. \A m, n : /\ ~IsStart(Register(m), n) /\ (Register(m) = Register(n) => m = n)
                   /\ Register(m) # Unregister(n) /\ Register(m).command # "CHAN_READ"
    BY DEF IsStart, Register, Unregister, Msg
  <2>3. \A m \in Motors : NoStart(rs, m)
    BY <2>1, <2>2 DEF NoStart
  <2>4. \A m \in Motors : OneRegister(rs, m)
    BY <1>2 DEF OneRegister, NotTwice, Register
  <2>5. ASSUME NEW m \in Motors, watchers[m] > 0, NEW i \in DOMAIN rs
        PROVE  rs[i] # Register(m)
    <3>1. PICK n \in Range(ms) : watchers[n] = 0 /\ rs[i] = Register(n)
      BY <2>1
    <3>2. n # m
      BY <2>5, <3>1
    <3>. QED
      BY <2>2, <3>1, <3>2
  <2>6. \A m \in Motors : NoUnregister(rs, m) /\ NoRead(rs, m)
    BY <2>1, <2>2 DEF NoUnregister, NoRead, IsRead
  <2>. QED
    BY <2>3, <2>4, <2>5, <2>6 DEF Registrar, NoRegister
<1>6. SameClosures
  BY <1>1 DEF SameClosures
<1>7. \A n \in open : Heard(n) => Heard(n)'
  BY <1>1 DEF Heard
<1>. QED
  BY <1>1, <1>3, <1>4, <1>5, <1>6, <1>7 DEF Sends

LEMMA ExitSendsMore ==
  ASSUME StreamTypeOK, WireOK, NEW s \in MotorStreams, NEW o, NEW more \in Seq(Message),
         Exit(o, s, more),
         watchers[StreamMotor(s)] > 0, depth[s] > 0, StreamMotor(s) \in Motors
  PROVE  Sends(more)
<1>1. PICK m \in Motors : m = StreamMotor(s)
  OBVIOUS
<1>2. PICK rs : rs = IF ~ExitRaises(o, s) /\ watchers[m] = 1
                       THEN <<Unregister(m)>> ELSE <<>>
  OBVIOUS
<1>3. /\ depth' = [depth EXCEPT ![s] = @ - 1] /\ initialized' = initialized
      /\ \/ listening' = listening
         \/ depth[s] = 1 /\ listening' = [listening EXCEPT ![s] = @ \ {o}]
      /\ requests' = requests \o rs \o more
  <2>1. requests \o <<>> = requests
    BY DEF WireOK
  <2>2. /\ depth' = [depth EXCEPT ![s] = @ - 1] /\ initialized' = initialized
        /\ ExitRaises(o, s) => /\ listening' = listening
                               /\ requests' = requests \o more
        /\ ~ExitRaises(o, s) =>
              /\ listening' = IF depth[s] = 1 THEN [listening EXCEPT ![s] = @ \ {o}]
                                              ELSE listening
              /\ requests' = requests
                    \o (IF watchers[m] = 1 THEN <<Unregister(m)>> ELSE <<>>) \o more
    BY <1>1, ExitContext DEF Unregister
  <2>3. CASE ExitRaises(o, s)
    BY <1>2, <2>1, <2>2, <2>3
  <2>4. CASE ~ExitRaises(o, s)
    BY <1>2, <2>2, <2>4
  <2>. QED
    BY <2>3, <2>4
<1>4. rs \in Seq(Message) /\ requests \in Seq(Message)
  BY <1>2, MessageFacts DEF WireOK, Unregister
<1>5. requests' = requests \o (rs \o more)
  BY <1>3, <1>4, ThreeRequests
<1>6. Registrar(rs)
  <2>1. ~ExitRaises(o, s) => watchers' = [watchers EXCEPT ![m] = @ - 1]
    BY <1>1, ExitContext
  <2>2. watchers \in [Motors -> Nat]
    BY DEF StreamTypeOK
  <2>3. ~ExitRaises(o, s) /\ watchers[m] = 1 => watchers'[m] = 0
    BY <2>1, <2>2
  <2>. QED
    BY <1>2, <2>3, RegistrarOne
<1>7. SameClosures
  <2>1. depth \in [MotorStreams -> Nat]
    BY DEF StreamTypeOK
  <2>. QED
    BY <1>3, <2>1 DEF SameClosures, StreamTypeOK
<1>8. \A n \in open : Heard(n) => Heard(n)'
  BY <1>3 DEF Heard
<1>. QED
  BY <1>3, <1>4, <1>5, <1>6, <1>7, <1>8 DEF Sends

LEMMA QuietSends ==
  ASSUME WireOK, UNCHANGED <<requests, depth, listening, initialized>>
  PROVE  Sends(<<>>)
<1>1. <<>> \in Seq(Message) /\ requests \o (<<>> \o <<>>) = requests
  BY DEF WireOK
<1>. QED
  BY <1>1, RegistrarOne DEF Sends, SameClosures, Heard

LEMMA SilentNoRegister ==
  ASSUME NEW more \in Seq(Silent)
  PROVE  more \in Seq(Message) /\ \A m \in Motors : NoRegister(more, m)
<1>1. \A i \in DOMAIN more : more[i] \in Silent
  OBVIOUS
<1>2. \A m \in Motors : Register(m) \notin Silent
  BY DEF Silent, Registration, Register
<1>. QED
  BY <1>1, <1>2 DEF NoRegister, Silent

\* How the invariant is kept by a step of the client: what goes on, goes on,
\* and what begins does.
LEMMA GoesClient ==
  ASSUME Inv, Inv', GoesOn, NEW more \in Seq(Silent), Sends(more),
         UNCHANGED <<events, serverVars>>, mixed \subseteq mixed', raised \subseteq raised',
         \A t \in Moves \cup Syncs : \A m \in Motors :
            Goes(t, m) /\ t \in Motions(m) /\ t \notin (mixed \cup raised)' =>
                Holds(t, m)' /\ Awaits(t, m)' /\ NoStart(more, m),
         \A t \in Moves \cup Syncs : \A m \in Motors :
            t \notin (mixed \cup raised)' /\ (\E i \in DOMAIN more : more[i] = StartOne(m, t)) =>
                \/ t \in Motions(m)
                \/ Goes(t, m)'
  PROVE  GoesOn'
<1>. SUFFICES ASSUME NEW t \in Moves \cup Syncs, t \notin (mixed \cup raised)', NEW m \in Motors,
                     t \in Motions(m)'
              PROVE  Goes(t, m)'
  BY DEF GoesOn
<1>1. more \in Seq(Message) /\ NoRegister(more, m)
  BY SilentNoRegister
<1>2. PICK rs \in Seq(Message) : requests' = requests \o (rs \o more) /\ Registrar(rs)
  BY DEF Sends
<1>3. initialized' \subseteq initialized /\ SameClosures /\ WireOK
      /\ UNCHANGED <<buffer, commands, moving>>
  BY DEF Sends, Inv, serverVars
<1>4. rs \o more \in Seq(Message)
  BY <1>1
<1>5. CASE t \in Motions(m)
  <2>1. Goes(t, m)
    BY <1>5 DEF GoesOn
  <2>2. Holds(t, m)' /\ Awaits(t, m)' /\ NoStart(more, m)
    BY <1>5, <2>1
  <2>3. PICK s : s = StreamOf(t, m)
    OBVIOUS
  <2>4. s \in MotorStreams /\ depth[s] > 0 /\ watchers[m] > 0
    BY <2>1, <2>3, HoldsDepth DEF Goes, HeldOpen
  <2>5. depth'[s] > 0
    <3>1. HeldOpen'
      BY HoldsDepth, PTL
    <3>2. Holds(t, m)' => (depth[StreamOf(t, m)])' > 0
      BY <3>1 DEF HeldOpen
    <3>3. StreamOf(t, m)' = s
      BY <2>3 DEF StreamOf
    <3>. QED
      BY <2>2, <3>2, <3>3
  <2>6. listening'[s] = listening[s]
    BY <1>3, <2>4, <2>5 DEF SameClosures
  <2>7. NoStart(rs, m) /\ NoRegister(rs, m)
    BY <1>2, <2>4 DEF Registrar
  <2>8. NoStart(rs \o more, m) /\ NoRegister(rs \o more, m)
    BY <1>1, <2>2, <2>7, ConcatRequests
  <2>9. Placed(m, t) /\ Unheard(m, s)
    BY <2>1, <2>3 DEF Goes
  <2>10. Placed(m, t)' /\ Unheard(m, s)'
    BY <1>2, <1>3, <1>4, <2>6, <2>8, <2>9, GoesWhile
  <2>. QED
    BY <2>2, <2>3, <2>10 DEF Goes, StreamOf
<1>6. CASE t \notin Motions(m)
  <2>1. PICK x \in Seq(Message) : x = rs \o more
    BY <1>4
  <2>2. PICK i \in DOMAIN x : x[i] = StartOne(m, t)
    BY <1>2, <1>3, <1>6, <2>1, MotionsSent
  <2>3. \E k \in DOMAIN more : more[k] = StartOne(m, t)
    <3>1. /\ i \in DOMAIN rs => x[i] = rs[i]
          /\ i \in DOMAIN rs \/ \E k \in DOMAIN more : i = Len(rs) + k /\ x[i] = more[k]
      BY <1>1, <2>1, ConcatElements
    <3>2. i \notin DOMAIN rs
      BY SMTT(30), <1>2, <2>2, <3>1 DEF Registrar, NoStart, IsStart, StartOne, Msg
    <3>. QED
      BY <2>2, <3>1, <3>2
  <2>. QED
    BY <1>6, <2>3
<1>. QED
  BY <1>5, <1>6

LEMMA GroupsClient ==
  ASSUME Inv, Groups, NEW more \in Seq(Silent), Sends(more),
         UNCHANGED <<events, registered>>, open' \subseteq open,
         NEW t \in Tasks, pc'[t] # "idle"
  PROVE  Groups'
<1>. SUFFICES ASSUME NEW m \in open PROVE Echoed(m)'
  BY DEF Groups
<1>1. m \in Motors /\ watchers[m] > 0 /\ requests \in Seq(Message) /\ Echoed(m)
  <2>1. m \in Motors /\ m \in MovingHolders(m)
    BY DEF Inv, TypeOK, MovingHolders
  <2>2. watchers[m] \in Nat /\ watchers[m] # 0
    BY <2>1, NobodyHolds
  <2>. QED
    BY <2>1, <2>2 DEF Inv, WireOK, Groups
<1>2. PICK x \in Seq(Message) : requests' = requests \o x /\ NoRegister(x, m)
  <2>1. PICK rs \in Seq(Message) : requests' = requests \o (rs \o more) /\ Registrar(rs)
    BY DEF Sends
  <2>2. more \in Seq(Message) /\ NoRegister(more, m) /\ NoRegister(rs, m)
    BY <1>1, <2>1, SilentNoRegister DEF Registrar
  <2>3. rs \o more \in Seq(Message) /\ NoRegister(rs \o more, m)
    BY <2>2, ConcatRequests
  <2>. QED
    BY <2>1, <2>3
<1>3. /\ NoRegister(requests, m) => NoRegister(requests, m)'
      /\ OneRegister(requests, m) => OneRegister(requests, m)'
  BY <1>1, <1>2, ConcatRequests, ConcatOnce
<1>4. Quiet(m) => Quiet(m)'
  BY DEF Sends, Quiet
<1>5. NoRegister(requests, m)' \/ (/\ OneRegister(requests, m)' /\ m \notin registered'
                                   /\ NoEvent(events, m)' /\ Quiet(m)')
  BY <1>1, <1>3, <1>4 DEF Echoed, NoEvent
<1>6. \A i \in DOMAIN events' : IsEvent(events'[i], m) /\ events'[i].by = None =>
         /\ NoRegister(requests, m)' /\ Quiet(m)'
         /\ \A k \in 1..(i - 1) : ~IsEvent(events'[k], m)
  BY <1>1, <1>3, <1>4 DEF Echoed
<1>. QED
  BY <1>5, <1>6 DEF Echoed

(***************************************************************************)
(* The closures an exit left behind are counted for ever.                  *)
(***************************************************************************)
LEMMA SpareStep ==
  ASSUME Inv, NEW m \in Motors, Spare(m), NEW s, NEW r,
         (s = Moving(m) /\ r = Synced(m)) \/ (s = Synced(m) /\ r = Moving(m)),
         depth'[s] \in Nat, depth'[r] = depth[r], listening'[r] = listening[r],
         \/ /\ depth'[s] = depth[s] + 1 /\ watchers'[m] = watchers[m] + 1
            /\ Surplus(s)' => Surplus(s)
         \/ /\ depth[s] = depth'[s] + 1 /\ watchers'[m] = watchers[m] - 1
            /\ Surplus(s)' => Surplus(s)
         \/ depth[s] = depth'[s] + 1 /\ watchers'[m] = watchers[m]
  PROVE  Spare(m)'
<1>1. /\ depth[Moving(m)] \in Nat /\ depth[Synced(m)] \in Nat /\ watchers[m] \in Nat
      /\ watchers[m] >= depth[Moving(m)] + depth[Synced(m)]
  BY NobodyHolds DEF Inv, Counts, Counted
<1>2. Surplus(r)' = Surplus(r)
  BY DEF Surplus
<1>3. /\ Surplus(Moving(m)) \/ Surplus(Synced(m)) =>
            watchers[m] >= depth[Moving(m)] + depth[Synced(m)] + 1
      /\ Surplus(Moving(m)) /\ Surplus(Synced(m)) =>
            watchers[m] >= depth[Moving(m)] + depth[Synced(m)] + 2
  BY DEF Spare
<1>4. Moving(m)' = Moving(m) /\ Synced(m)' = Synced(m)
  BY DEF Moving, Synced
<1>5. /\ Surplus(Moving(m))' \/ Surplus(Synced(m))' =>
            watchers'[m] >= depth'[Moving(m)] + depth'[Synced(m)] + 1
      /\ Surplus(Moving(m))' /\ Surplus(Synced(m))' =>
            watchers'[m] >= depth'[Moving(m)] + depth'[Synced(m)] + 2
  <2>1. CASE s = Moving(m) /\ r = Synced(m)
    BY <1>1, <1>2, <1>3, <2>1
  <2>2. CASE s = Synced(m) /\ r = Moving(m)
    BY <1>1, <1>2, <1>3, <2>2
  <2>. QED
    BY <2>1, <2>2
<1>. QED
  BY <1>5 DEF Spare

LEMMA SpareSame ==
  ASSUME NEW m \in Motors, Spare(m), watchers'[m] = watchers[m],
         depth'[Moving(m)] = depth[Moving(m)], listening'[Moving(m)] = listening[Moving(m)],
         depth'[Synced(m)] = depth[Synced(m)], listening'[Synced(m)] = listening[Synced(m)]
  PROVE  Spare(m)'
BY DEF Spare, Surplus

LEMMA SurplusJoin ==
  ASSUME NEW s, NEW o, depth[s] \in Nat, depth'[s] = depth[s] + 1,
         listening'[s] = IF depth[s] = 0 THEN listening[s] \cup {o} ELSE listening[s]
  PROVE  Surplus(s)' => Surplus(s)
BY DEF Surplus

LEMMA SpareEnter ==
  ASSUME Inv, \A n \in Motors : Spare(n), NEW m \in Motors, NEW o \in Tasks \cup Motors,
         NEW more \in Seq(Message), Enter(o, <<Moving(m)>>, more)
  PROVE  \A n \in Motors : Spare(n)'
<1>1. /\ depth' = [depth EXCEPT ![Moving(m)] = @ + 1]
      /\ listening' = IF depth[Moving(m)] = 0
                        THEN [listening EXCEPT ![Moving(m)] = @ \cup {o}] ELSE listening
      /\ watchers' = [watchers EXCEPT ![m] = @ + 1]
  BY EnterMoving DEF Inv, TypeOK
<1>2. /\ depth \in [MotorStreams -> Nat] /\ watchers \in [Motors -> Nat]
      /\ listening \in [MotorStreams -> SUBSET (Tasks \cup Motors)]
  BY DEF Inv, TypeOK, StreamTypeOK
<1>3. ASSUME NEW n \in Motors
      PROVE  Spare(n)'
  <2>1. /\ Moving(n) \in MotorStreams /\ Synced(n) \in MotorStreams /\ Moving(m) \in MotorStreams
        /\ Synced(n) # Moving(m) /\ (Moving(n) = Moving(m) => n = m)
    BY StreamFacts
  <2>2. CASE n # m
    BY <1>1, <1>2, <2>1, <2>2, SpareSame
  <2>3. CASE n = m
    <3>1. /\ watchers'[m] = watchers[m] + 1 /\ depth'[Moving(m)] = depth[Moving(m)] + 1
          /\ depth'[Moving(m)] \in Nat /\ depth[Moving(m)] \in Nat
          /\ depth'[Synced(m)] = depth[Synced(m)] /\ listening'[Synced(m)] = listening[Synced(m)]
          /\ listening'[Moving(m)] = IF depth[Moving(m)] = 0 THEN listening[Moving(m)] \cup {o}
                                                             ELSE listening[Moving(m)]
      BY <1>1, <1>2, <2>1, <2>3
    <3>2. Surplus(Moving(m))' => Surplus(Moving(m))
      <4>1. PICK s : s = Moving(m)
        OBVIOUS
      <4>2. Surplus(s)' => Surplus(s)
        BY <3>1, <4>1, SurplusJoin
      <4>. QED
        BY <4>1, <4>2
    <3>. QED
      BY <2>3, <3>1, <3>2, SpareStep
  <2>. QED
    BY <2>2, <2>3
<1>. QED
  BY <1>3

LEMMA SpareExit ==
  ASSUME Inv, \A n \in Motors : Spare(n), NEW m \in Motors, NEW s \in {Moving(m), Synced(m)},
         NEW o, NEW more \in Seq(Message), Exit(o, s, more), watchers[m] > 0, depth[s] > 0
  PROVE  \A n \in Motors : Spare(n)'
<1>1. s \in MotorStreams /\ StreamMotor(s) = m /\ StreamTypeOK /\ WireOK
  BY StreamFacts DEF Inv, TypeOK
<1>2. /\ depth' = [depth EXCEPT ![s] = @ - 1]
      /\ ExitRaises(o, s) => listening' = listening /\ watchers' = watchers
      /\ ~ExitRaises(o, s) =>
            /\ listening' = IF depth[s] = 1 THEN [listening EXCEPT ![s] = @ \ {o}] ELSE listening
            /\ watchers' = [watchers EXCEPT ![m] = @ - 1]
  BY <1>1, ExitContext
<1>3. /\ depth \in [MotorStreams -> Nat] /\ watchers \in [Motors -> Nat]
      /\ listening \in [MotorStreams -> SUBSET (Tasks \cup Motors)]
  BY DEF Inv, TypeOK, StreamTypeOK
<1>4. ASSUME NEW n \in Motors
      PROVE  Spare(n)'
  <2>1. /\ Moving(n) \in MotorStreams /\ Synced(n) \in MotorStreams
        /\ n # m => Moving(n) # s /\ Synced(n) # s
    BY StreamFacts
  <2>2. CASE n # m
    <3>1. /\ watchers'[n] = watchers[n]
          /\ depth'[Moving(n)] = depth[Moving(n)] /\ depth'[Synced(n)] = depth[Synced(n)]
          /\ listening'[Moving(n)] = listening[Moving(n)]
          /\ listening'[Synced(n)] = listening[Synced(n)]
      BY <1>2, <1>3, <2>1, <2>2
    <3>. QED
      BY <3>1, SpareSame
  <2>3. CASE n = m
    <3>1. PICK r : (s = Moving(m) /\ r = Synced(m)) \/ (s = Synced(m) /\ r = Moving(m))
      OBVIOUS
    <3>2. r # s /\ r \in MotorStreams
      BY <3>1, StreamFacts
    <3>3. /\ depth'[s] \in Nat /\ depth[s] \in Nat /\ depth[s] = depth'[s] + 1
          /\ depth'[r] = depth[r] /\ listening'[r] = listening[r]
      BY <1>1, <1>2, <1>3, <3>2
    <3>4. CASE ExitRaises(o, s)
      <4>1. watchers'[m] = watchers[m]
        BY <1>2, <3>4
      <4>. QED
        BY <2>3, <3>1, <3>3, <4>1, SpareStep
    <3>5. CASE ~ExitRaises(o, s)
      <4>1. /\ watchers'[m] = watchers[m] - 1
            /\ listening'[s] = IF depth[s] = 1 THEN listening[s] \ {o} ELSE listening[s]
            /\ depth[s] = 1 => o \in listening[s]
        BY <1>1, <1>2, <1>3, <3>5 DEF ExitRaises
      <4>2. Surplus(s)' => Surplus(s)
        BY <3>3, <4>1 DEF Surplus
      <4>. QED
        BY <2>3, <3>1, <3>3, <4>1, <4>2, SpareStep
    <3>. QED
      BY <3>4, <3>5
  <2>. QED
    BY <2>2, <2>3
<1>. QED
  BY <1>4

LEMMA SpareSynced ==
  ASSUME Inv, \A n \in Motors : Spare(n), NEW t \in Syncs, NEW ms \in Seq(Motors),
         NEW more \in Seq(Message), Enter(t, [i \in 1..Len(ms) |-> Synced(ms[i])], more)
  PROVE  \A n \in Motors : Spare(n)'
<1>1. /\ depth' = [s \in MotorStreams |->
                     IF s \in {Synced(m) : m \in Range(ms)} THEN depth[s] + 1 ELSE depth[s]]
      /\ listening' = [s \in MotorStreams |->
                         IF s \in {Synced(m) : m \in Range(ms)} /\ depth[s] = 0
                           THEN listening[s] \cup {t} ELSE listening[s]]
      /\ watchers' = [m \in Motors |->
                        IF m \in Range(ms) THEN watchers[m] + 1 ELSE watchers[m]]
      /\ depth' \in [MotorStreams -> Nat]
  BY EnterSynced DEF Inv, TypeOK
<1>2. Range(ms) \subseteq Motors
  BY DEF Range
<1>3. ASSUME NEW n \in Motors
      PROVE  Spare(n)'
  <2>1. /\ Moving(n) \in MotorStreams /\ Synced(n) \in MotorStreams
        /\ Moving(n) \notin {Synced(m) : m \in Range(ms)}
        /\ Synced(n) \in {Synced(m) : m \in Range(ms)} <=> n \in Range(ms)
    BY <1>2, StreamFacts
  <2>2. depth'[Moving(n)] = depth[Moving(n)] /\ listening'[Moving(n)] = listening[Moving(n)]
    BY <1>1, <2>1
  <2>3. CASE n \notin Range(ms)
    BY <1>1, <2>1, <2>2, <2>3, SpareSame
  <2>4. CASE n \in Range(ms)
    <3>1. /\ watchers'[n] = watchers[n] + 1 /\ depth'[Synced(n)] = depth[Synced(n)] + 1
          /\ depth'[Synced(n)] \in Nat /\ depth[Synced(n)] \in Nat
          /\ listening'[Synced(n)] = IF depth[Synced(n)] = 0 THEN listening[Synced(n)] \cup {t}
                                                             ELSE listening[Synced(n)]
      BY <1>1, <2>1, <2>4 DEF Inv, TypeOK, StreamTypeOK
    <3>2. Surplus(Synced(n))' => Surplus(Synced(n))
      <4>1. PICK s : s = Synced(n)
        OBVIOUS
      <4>2. Surplus(s)' => Surplus(s)
        BY <3>1, <4>1, SurplusJoin
      <4>. QED
        BY <4>1, <4>2
    <3>. QED
      BY <2>2, <3>1, <3>2, SpareStep
  <2>. QED
    BY <2>3, <2>4
<1>. QED
  BY <1>3

(***************************************************************************)
(* The client's steps.                                                     *)
(***************************************************************************)
LEMMA RaisingSame ==
  ASSUME Raising, Inv, raised' \subseteq raised,
         \A t \in Syncs : pc[t] \in {"unwinding", "aborted"} => pc'[t] = pc[t]
  PROVE  Raising'
BY DEF Raising, Inv, TypeOK

LEMMA SendOffFacts ==
  ASSUME NEW t, NEW ms, SendOff(t, ms)
  PROVE  /\ mixed \subseteq mixed'
         /\ t \notin mixed' => \A m \in ms : Resting(m)
         /\ \A u \in Moves \cup Syncs : \A m \in ms :
               Goes(u, m) /\ u \in Motions(m) => u \in mixed'
<1>1. ASSUME NEW m \in ms, ~Resting(m)
      PROVE  /\ t \in mixed'
             /\ \A u \in Moves \cup Syncs : Holds(u, m) => u \in mixed'
  BY <1>1 DEF SendOff, Holds
<1>2. \A u, m : u \in Motions(m) => ~Resting(m)
  BY DEF Resting
<1>3. mixed \subseteq mixed'
  BY DEF SendOff
<1>. QED
  BY <1>1, <1>2, <1>3 DEF Goes

\* Those whose context stays open and whose waiter stays.
LEMMA GoesKept ==
  ASSUME Inv, NEW t \in Moves \cup Syncs, NEW m, Holds(t, m), Awaits(t, m),
         pc'[t] = pc[t], batch'[t] = batch[t], left'[t] = left[t],
         \A w \in waiting \ waiting' : w.owner # t
  PROVE  Holds(t, m)' /\ Awaits(t, m)'
<1>1. Holds(t, m)'
  BY DEF Holds, TaskMotors
<1>2. Awaits(t, m)'
  <2>1. PICK w : w = Waiter(t, StreamOf(t, m), FALSE)
    OBVIOUS
  <2>2. w \in waiting /\ w.owner = t
    BY <2>1 DEF Awaits, Waiter
  <2>3. w = Waiter(t, StreamOf(t, m), FALSE)'
    BY <2>1 DEF StreamOf, Moving, Synced, Waiter
  <2>. QED
    BY <2>2, <2>3 DEF Awaits
<1>. QED
  BY <1>1, <1>2

LEMMA NoStarts ==
  /\ \A m : NoStart(<<>>, m)
  /\ \A m : NoStart(<<AbortAll>>, m)
  /\ \A m, n, t : NoStart(<<Msg("CHAN_READ", n, t)>>, m)
  /\ \A m, n, t : m # n => NoStart(<<StartOne(n, t)>>, m)
  /\ \A m, t : StartsOnce(<<StartOne(m, t)>>, m, t)
<1>1. ASSUME NEW r, NEW m
      PROVE  /\ ~IsStart(r, m) => NoStart(<<r>>, m)
             /\ NoStart(<<>>, m)
  BY DEF NoStart
<1>2. /\ \A m : ~IsStart(AbortAll, m)
      /\ \A m, n, t : ~IsStart(Msg("CHAN_READ", n, t), m)
      /\ \A m, n, t : m # n => ~IsStart(StartOne(n, t), m)
  BY DEF IsStart, AbortAll, StartOne, Msg
<1>3. ASSUME NEW m, NEW t
      PROVE  StartsOnce(<<StartOne(m, t)>>, m, t)
  <2>1. PICK q : q = <<StartOne(m, t)>>
    OBVIOUS
  <2>2. DOMAIN q = {1} /\ q[1] = StartOne(m, t) /\ StartOne(m, t) # Register(m)
    BY <2>1 DEF StartOne, Register, Msg
  <2>3. StartsOnce(q, m, t)
    BY <2>2 DEF StartsOnce
  <2>. QED
    BY <2>1, <2>3
<1>. QED
  BY <1>1, <1>2, <1>3

\* Tasks that start nothing, and whose waiters are not those of a motion.
LEMMA GoesQuietly ==
  ASSUME Inv, Inv', GoesOn, NEW more \in Seq(Silent), Sends(more), \A m : NoStart(more, m),
         UNCHANGED <<events, serverVars, mixed, raised, batch, left>>,
         \A t \in Moves \cup Syncs : pc[t] \in {"waiting", "unwinding"} =>
            \/ \A m \in Motors : ~Goes(t, m)
            \/ pc'[t] = pc[t] /\ \A w \in waiting \ waiting' : w.owner # t
  PROVE  GoesOn'
<1>1. ASSUME NEW t \in Moves \cup Syncs, NEW m \in Motors, Goes(t, m)
      PROVE  Holds(t, m)' /\ Awaits(t, m)' /\ NoStart(more, m)
  <2>1. Holds(t, m) /\ Awaits(t, m) /\ pc[t] \in {"waiting", "unwinding"}
    BY <1>1 DEF Goes, Holds
  <2>2. pc'[t] = pc[t] /\ \A w \in waiting \ waiting' : w.owner # t
    BY <1>1, <2>1
  <2>. QED
    BY <2>1, <2>2, GoesKept
<1>2. \A t, m : \A i \in DOMAIN more : more[i] # StartOne(m, t)
  BY DEF NoStart, IsStart, StartOne, Msg
<1>. QED
  BY <1>1, <1>2, GoesClient

LEMMA CalmEnterGroup ==
  ASSUME Inv, Inv', Calm, NEW m \in Motors, EnterGroup(m)
  PROVE  Calm'
<1>1. /\ Enter(m, <<Moving(m)>>, <<>>) /\ m \notin open /\ open' = open \cup {m}
      /\ UNCHANGED <<pc, batch, left, registered, events, serverVars, mixed, raised>>
      /\ \A t \in Tasks : pc[t] = "idle"
      /\ <<>> \in Seq(Message) /\ <<>> \in Seq(Silent) /\ StreamTypeOK /\ WireOK
  BY DEF EnterGroup, serverVars, Inv, TypeOK
<1>2. \A n \in Motors : Spare(n)'
  BY <1>1, SpareEnter DEF Calm
<1>3. Sends(<<>>)
  BY <1>1, EnterMovingSends, TasksApart DEF Inv, TypeOK
<1>4. GoesOn'
  BY <1>1, <1>3, NoStarts, GoesQuietly, TasksApart DEF Calm
<1>5. Raising'
  BY <1>1, RaisingSame DEF Calm
<1>6. PICK rs : /\ rs \in Seq(Message) /\ requests' = requests \o rs
                /\ \A n \in Motors : n # m => NoRegister(rs, n)
                /\ OneRegister(rs, m)
                /\ initialized' \subseteq initialized
  <2>1. PICK rs : rs = IF watchers[m] = 0 THEN <<Register(m)>> ELSE <<>>
    OBVIOUS
  <2>2. requests' = requests \o rs \o <<>> /\ initialized' \subseteq initialized
    BY <1>1, <2>1, EnterMoving DEF Register
  <2>3. Register(m) \in Message
    BY DEF Message, Registration, Register
  <2>4. rs \in Seq(Message) /\ requests \in Seq(Message)
    BY <1>1, <2>1, <2>3 DEF WireOK
  <2>5. requests' = requests \o rs
    BY <2>2, <2>4
  <2>6. DOMAIN rs \subseteq {1} /\ \A i \in DOMAIN rs : rs[i] = Register(m)
    BY <2>1
  <2>7. \A n : Register(n) = Register(m) => n = m
    BY DEF Register, Msg
  <2>8. OneRegister(rs, m) /\ \A n \in Motors : n # m => NoRegister(rs, n)
    BY <2>6, <2>7 DEF OneRegister, NoRegister
  <2>. QED
    BY <2>2, <2>4, <2>5, <2>8
<1>7. requests \in Seq(Message) /\ \A n \in Motors \ open : Unused(n)
  BY <1>1 DEF WireOK, Calm, Groups
<1>8. ASSUME NEW n \in Motors \ open'
      PROVE  Unused(n)'
  <2>1. Unused(n) /\ n # m
    BY <1>1, <1>7, <1>8
  <2>2. NoRegister(requests, n)'
    BY <1>6, <1>7, <2>1, ConcatRequests DEF Unused
  <2>. QED
    BY <1>1, <1>6, <2>1, <2>2 DEF Unused, NoEvent, Quiet, serverVars
<1>9. ASSUME NEW n \in open'
      PROVE  Echoed(n)'
  <2>1. CASE n = m
    <3>1. Unused(m)
      BY <1>1, <1>7
    <3>2. OneRegister(requests, m)'
      BY <1>6, <1>7, <3>1, ConcatOnce DEF Unused
    <3>3. NoEvent(events, m)' /\ Quiet(m)' /\ m \notin registered'
      BY <1>1, <1>6, <3>1 DEF Unused, NoEvent, Quiet
    <3>. QED
      BY <2>1, <3>2, <3>3 DEF Echoed, NoEvent
  <2>2. CASE n # m
    <3>1. n \in open /\ n \in Motors /\ Echoed(n)
      BY <1>1, <2>2 DEF Calm, Groups, Inv, TypeOK
    <3>2. NoRegister(rs, n)
      BY <1>6, <2>2, <3>1
    <3>3. /\ NoRegister(requests, n) => NoRegister(requests, n)'
          /\ OneRegister(requests, n) => OneRegister(requests, n)'
      BY <1>6, <1>7, <3>2, ConcatRequests, ConcatOnce
    <3>4. Quiet(n) => Quiet(n)'
      BY <1>6 DEF Quiet
    <3>5. NoEvent(events, n) => NoEvent(events, n)'
      BY <1>1 DEF NoEvent
    <3>6. NoRegister(requests, n)' \/ (/\ OneRegister(requests, n)' /\ n \notin registered'
                                       /\ NoEvent(events, n)' /\ Quiet(n)')
      BY <1>1, <3>1, <3>3, <3>4, <3>5 DEF Echoed
    <3>7. \A i \in DOMAIN events' : IsEvent(events'[i], n) /\ events'[i].by = None =>
             /\ NoRegister(requests, n)' /\ Quiet(n)'
             /\ \A k \in 1..(i - 1) : ~IsEvent(events'[k], n)
      BY <1>1, <3>1, <3>3, <3>4 DEF Echoed
    <3>. QED
      BY <3>6, <3>7 DEF Echoed
  <2>. QED
    BY <2>1, <2>2
<1>10. Groups'
  BY <1>8, <1>9 DEF Groups
<1>. QED
  BY <1>2, <1>4, <1>5, <1>10 DEF Calm

LEMMA CalmExitGroup ==
  ASSUME Inv, Inv', Calm, NEW m \in Motors, ExitGroup(m)
  PROVE  Calm'
<1>1. /\ Exit(m, Moving(m), <<>>) /\ m \in open /\ open' = open \ {m}
      /\ UNCHANGED <<pc, batch, left, registered, events, serverVars, mixed, raised>>
      /\ \A t \in Tasks : pc[t] \in {"idle"} \cup Ended
      /\ \E t \in Tasks : pc[t] # "idle"
      /\ <<>> \in Seq(Message) /\ <<>> \in Seq(Silent) /\ StreamTypeOK /\ WireOK
  BY DEF ExitGroup, serverVars, Inv, TypeOK
<1>2. /\ Moving(m) \in MotorStreams /\ StreamMotor(Moving(m)) = m
      /\ depth[Moving(m)] > 0 /\ watchers[m] > 0
  <2>1. m \in MovingHolders(m)
    BY <1>1 DEF MovingHolders
  <2>. QED
    BY <2>1, StreamFacts, CountsBeforeLeave DEF Inv
<1>3. \A n \in Motors : Spare(n)'
  <2>1. PICK s \in {Moving(m), Synced(m)} : s = Moving(m)
    OBVIOUS
  <2>2. Exit(m, s, <<>>) /\ depth[s] > 0
    BY <1>1, <1>2, <2>1
  <2>3. \A n \in Motors : Spare(n)
    BY DEF Calm
  <2>. QED
    BY <1>1, <1>2, <2>2, <2>3, SpareExit
<1>4. Sends(<<>>)
  BY <1>1, <1>2, ExitSendsMore
<1>5. GoesOn'
  BY <1>1, <1>4, NoStarts, GoesQuietly, TasksApart DEF Calm, Ended
<1>6. Raising'
  BY <1>1, RaisingSame DEF Calm
<1>7. Groups'
  <2>1. open' \subseteq open /\ Groups /\ \E t \in Tasks : pc'[t] # "idle"
    BY <1>1 DEF Calm
  <2>. QED
    BY <1>1, <1>4, <2>1, GroupsClient
<1>. QED
  BY <1>3, <1>5, <1>6, <1>7 DEF Calm

\* A task that enters without sending its motor off.
LEMMA CalmJoin ==
  ASSUME Inv, Inv', Calm, NEW t \in Moves \cup Starts \cup Waits, NEW more \in Seq(Silent),
         Enter(t, <<Moving(MotorOf[t])>>, more), \A m : NoStart(more, m),
         UNCHANGED <<events, open, serverVars, mixed, raised, batch, left>>,
         waiting \subseteq waiting', pc'[t] # "idle",
         \A u \in Tasks : pc[u] \in {"waiting", "unwinding", "aborted"} => pc'[u] = pc[u]
  PROVE  Calm'
<1>1. /\ t \in Tasks /\ MotorOf[t] \in Motors /\ more \in Seq(Message) /\ StreamTypeOK /\ WireOK
      /\ registered' = registered
  BY TasksApart, SilentNoRegister DEF Inv, TypeOK, serverVars
<1>2. \A n \in Motors : Spare(n)'
  BY <1>1, SpareEnter DEF Calm
<1>3. Sends(more)
  BY <1>1, EnterMovingSends, TasksApart DEF Inv, TypeOK
<1>4. GoesOn'
  BY <1>3, GoesQuietly, TasksApart DEF Calm
<1>5. Raising'
  BY RaisingSame, TasksApart DEF Calm
<1>6. Groups'
  <2>1. open' \subseteq open /\ Groups
    BY DEF Calm
  <2>. QED
    BY <1>1, <1>3, <2>1, GroupsClient
<1>. QED
  BY <1>2, <1>4, <1>5, <1>6 DEF Calm

LEMMA CalmStartMove ==
  ASSUME Inv, Inv', Calm, NEW t \in Starts, StartMove(t)
  PROVE  Calm'
<1>1. /\ pc[t] = "idle" /\ pc' = [pc EXCEPT ![t] = "waiting", ![Child[t]] = "called"]
      /\ Child[t] \in Moves /\ Child[t] # t /\ Child[t] \in Tasks
      /\ pc[Child[t]] = "idle" /\ t \in Tasks
      /\ Enter(t, <<Moving(MotorOf[t])>>, <<>>)
      /\ UNCHANGED <<events, open, serverVars, mixed, raised, batch, left>>
      /\ waiting \subseteq waiting'
  <2>1. waiting \subseteq waiting'
    BY DEF StartMove, Expect
  <2>2. pc[t] = "idle" /\ t \in Tasks /\ pc[Child[t]] = "idle"
    BY TasksApart DEF StartMove, Callable, Inv, Labels
  <2>3. Child[t] \in Moves /\ Child[t] # t /\ Child[t] \in Tasks
    BY TasksApart, MotorsAssumption
  <2>. QED
    BY <2>1, <2>2, <2>3 DEF StartMove
<1>2. pc'[t] = "waiting" /\ \A u \in Tasks : u \notin {t, Child[t]} => pc'[u] = pc[u]
  BY <1>1 DEF Inv, TypeOK
<1>. QED
  BY <1>1, <1>2, SilentFacts, NoStarts, CalmJoin

LEMMA CalmWaitUntil ==
  ASSUME Inv, Inv', Calm, NEW t \in Waits, WaitUntil(t)
  PROVE  Calm'
<1>1. PICK l \in {"reading", "waiting"} : pc' = [pc EXCEPT ![t] = l]
  BY DEF WaitUntil, Goto
<1>2. PICK more \in Seq(Silent) : /\ Enter(t, <<Moving(MotorOf[t])>>, more)
                                  /\ \A m : NoStart(more, m)
  BY SilentFacts, NoStarts, TasksApart DEF WaitUntil
<1>3. /\ pc[t] = "idle" /\ t \in Tasks
      /\ UNCHANGED <<events, open, serverVars, mixed, raised, batch, left>>
      /\ waiting \subseteq waiting'
  BY TasksApart DEF WaitUntil, Callable, Expect
<1>4. pc'[t] = l /\ \A u \in Tasks : u # t => pc'[u] = pc[u]
  BY <1>1, <1>3 DEF Inv, TypeOK
<1>. QED
  BY <1>2, <1>3, <1>4, CalmJoin

LEMMA CalmReturn ==
  ASSUME Inv, Inv', Calm, NEW t \in Moves \cup Starts \cup Waits, Return(t)
  PROVE  Calm'
<1>1. /\ pc[t] = "waiting" /\ t \in Tasks /\ MotorOf[t] \in Motors /\ t \notin Syncs
      /\ Exit(t, Moving(MotorOf[t]), <<>>) /\ ~Expects(t, Moving(MotorOf[t]))
      /\ UNCHANGED <<events, open, waiting, serverVars, registered, mixed, raised, batch, left>>
      /\ <<>> \in Seq(Message) /\ <<>> \in Seq(Silent) /\ StreamTypeOK /\ WireOK
  BY TasksApart DEF Return, serverVars, Inv, TypeOK
<1>2. PICK l \in {"failed", "done"} : pc' = [pc EXCEPT ![t] = l]
  BY DEF Return, Goto
<1>3. pc'[t] = l /\ \A u \in Tasks : u # t => pc'[u] = pc[u]
  BY <1>1, <1>2 DEF Inv, TypeOK
<1>4. PICK m \in Motors : m = MotorOf[t]
  BY <1>1
<1>5. /\ Moving(m) \in MotorStreams /\ StreamMotor(Moving(m)) = m
      /\ depth[Moving(m)] > 0 /\ watchers[m] > 0
  <2>1. t \in MovingHolders(m)
    BY <1>1, <1>4 DEF MovingHolders
  <2>. QED
    BY <2>1, StreamFacts, CountsBeforeLeave DEF Inv
<1>6. \A n \in Motors : Spare(n)'
  <2>1. PICK s \in {Moving(m), Synced(m)} : s = Moving(m)
    OBVIOUS
  <2>2. Exit(t, s, <<>>) /\ depth[s] > 0
    BY <1>1, <1>4, <1>5, <2>1
  <2>3. \A n \in Motors : Spare(n)
    BY DEF Calm
  <2>. QED
    BY <1>1, <1>5, <2>2, <2>3, SpareExit
<1>7. Sends(<<>>)
  BY <1>1, <1>4, <1>5, ExitSendsMore
<1>8. GoesOn'
  <2>1. \A n \in Motors : ~Goes(t, n)
    <3>. SUFFICES ASSUME NEW n \in Motors, Goes(t, n) PROVE FALSE
      OBVIOUS
    <3>1. n = MotorOf[t] /\ Waiter(t, Moving(n), FALSE) \in waiting
      BY <1>1 DEF Goes, Holds, TaskMotors, Awaits, StreamOf
    <3>. QED
      BY <1>1, <3>1 DEF Expects, Waiter
  <2>2. \A u \in Moves \cup Syncs : u # t => pc'[u] = pc[u]
    BY <1>3, TasksApart
  <2>. QED
    BY <1>1, <1>7, <2>1, <2>2, NoStarts, GoesQuietly DEF Calm
<1>9. Raising'
  BY <1>1, <1>3, RaisingSame, TasksApart DEF Calm
<1>10. Groups'
  <2>1. open' \subseteq open /\ Groups /\ pc'[t] # "idle"
    BY <1>1, <1>3 DEF Calm
  <2>. QED
    BY <1>1, <1>7, <2>1, GroupsClient
<1>. QED
  BY <1>6, <1>8, <1>9, <1>10 DEF Calm

LEMMA CalmQuiet ==
  ASSUME Inv, Inv', Calm,
         \/ \E t \in Moves : MoveRefused(t)
         \/ \E t \in Waits : WaitRead(t)
         \/ \E t \in Syncs : \/ SyncRefused(t) \/ SyncEnter(t) \/ SyncBodyRaises(t)
                             \/ \E m \in Motors : PrepareMove(t, m)
  PROVE  Calm'
<1>1. /\ UNCHANGED <<watchers, depth, listening, initialized, requests, events, open, batch,
                     left, mixed, raised, serverVars, registered>>
      /\ WireOK /\ <<>> \in Seq(Silent)
  BY DEF MoveRefused, WaitRead, SyncRefused, SyncEnter, SyncBodyRaises, PrepareMove, streamVars,
         serverVars, Inv
<1>2. /\ \A w \in waiting \ waiting' : w.owner \in Waits
      /\ \E t \in Tasks : /\ pc'[t] # "idle"
                          /\ pc[t] \notin {"waiting", "unwinding", "aborted"} \/ pc' = pc
                          /\ \A u \in Tasks : u # t => pc'[u] = pc[u]
  <2>0. pc \in [Tasks -> {"idle", "called", "reading", "waiting", "preparing", "unwinding"}
                         \cup Ended]
    BY DEF Inv, TypeOK
  <2>1. ASSUME NEW t \in Moves, MoveRefused(t)
        PROVE  /\ waiting' = waiting /\ pc'[t] # "idle" /\ t \in Tasks
               /\ pc[t] \notin {"waiting", "unwinding", "aborted"}
               /\ \A u \in Tasks : u # t => pc'[u] = pc[u]
    <3>1. pc[t] \in {"idle", "called"} /\ pc' = [pc EXCEPT ![t] = "failed"]
      BY <2>1, MayMoveFacts DEF MoveRefused, Goto
    <3>. QED
      BY <2>0, <2>1, <3>1, TasksApart DEF MoveRefused, streamVars
  <2>2. ASSUME NEW t \in Waits, WaitRead(t)
        PROVE  /\ \A w \in waiting \ waiting' : w.owner \in Waits
               /\ pc'[t] # "idle" /\ pc[t] \notin {"waiting", "unwinding", "aborted"}
               /\ \A u \in Tasks : u # t => pc'[u] = pc[u]
               /\ t \in Tasks
    BY <2>0, <2>2, TasksApart DEF WaitRead, Goto, GiveUp
  <2>3. ASSUME NEW t \in Syncs, SyncRefused(t) \/ SyncEnter(t) \/ SyncBodyRaises(t)
        PROVE  /\ waiting' = waiting /\ pc'[t] # "idle" /\ t \in Tasks
               /\ pc[t] \notin {"waiting", "unwinding", "aborted"}
               /\ \A u \in Tasks : u # t => pc'[u] = pc[u]
    BY <2>0, <2>3, TasksApart
       DEF SyncRefused, SyncEnter, SyncBodyRaises, Callable, Goto, streamVars
  <2>4. ASSUME NEW t \in Syncs, NEW m \in Motors, PrepareMove(t, m)
        PROVE  waiting' = waiting /\ pc'[t] # "idle" /\ t \in Tasks /\ pc' = pc
    BY <2>4, TasksApart DEF PrepareMove, streamVars
  <2>. QED
    BY <2>1, <2>2, <2>3, <2>4
<1>3. PICK t \in Tasks : /\ pc'[t] # "idle"
                         /\ pc[t] \notin {"waiting", "unwinding", "aborted"} \/ pc' = pc
                         /\ \A u \in Tasks : u # t => pc'[u] = pc[u]
  BY <1>2
<1>4. \A n \in Motors : Spare(n)'
  BY <1>1, SpareSame DEF Calm
<1>5. Sends(<<>>)
  BY <1>1, QuietSends
<1>6. GoesOn'
  <2>1. \A u \in Moves \cup Syncs : u \in Tasks /\ u \notin Waits
    BY TasksApart, MotorsAssumption
  <2>2. \A u \in Moves \cup Syncs : pc[u] \in {"waiting", "unwinding"} =>
           pc'[u] = pc[u] /\ \A w \in waiting \ waiting' : w.owner # u
    BY <1>2, <1>3, <2>1
  <2>. QED
    BY <1>1, <1>5, <2>2, NoStarts, GoesQuietly DEF Calm
<1>7. Raising'
  BY <1>1, <1>3, RaisingSame, TasksApart DEF Calm
<1>8. Groups'
  <2>1. open' \subseteq open /\ Groups
    BY <1>1 DEF Calm
  <2>. QED
    BY <1>1, <1>3, <1>5, <2>1, GroupsClient
<1>. QED
  BY <1>4, <1>6, <1>7, <1>8 DEF Calm

LEMMA CalmMove ==
  ASSUME Inv, Inv', Calm, NEW t \in Moves, Move(t)
  PROVE  Calm'
<1>1. PICK m : m = MotorOf[t]
  OBVIOUS
<1>2. /\ pc[t] \in {"idle", "called"} /\ pc' = [pc EXCEPT ![t] = "waiting"]
      /\ m \in Motors /\ t \in Tasks /\ t \notin Syncs
      /\ Enter(t, <<Moving(m)>>, <<StartOne(m, t)>>)
      /\ Expect(t, <<Moving(m)>>, FALSE) /\ SendOff(t, {m})
      /\ UNCHANGED <<events, open, serverVars, registered, raised, batch, left, buffer, commands,
                     moving>>
      /\ <<StartOne(m, t)>> \in Seq(Silent) /\ <<StartOne(m, t)>> \in Seq(Message)
      /\ StreamTypeOK /\ WireOK
  BY <1>1, MayMoveFacts, TasksApart, SilentFacts, MessageFacts
     DEF Move, Goto, serverVars, Inv, TypeOK
<1>3. pc'[t] = "waiting" /\ \A u \in Tasks : u # t => pc'[u] = pc[u]
  BY <1>2 DEF Inv, TypeOK
<1>4. PICK s : s = Moving(m)
  OBVIOUS
<1>5. /\ listening'[s] \subseteq listening[s] \cup {t} /\ <<t, s>> \notin initialized'
      /\ s \in MotorStreams
  <2>1. s \in MotorStreams
    BY <1>2, <1>4, StreamFacts
  <2>2. /\ listening' = IF depth[s] = 0 THEN [listening EXCEPT ![s] = @ \cup {t}] ELSE listening
        /\ initialized' = initialized \ {<<t, s>>}
    BY <1>2, <1>4, EnterMoving
  <2>3. listening \in [MotorStreams -> SUBSET (Tasks \cup Motors)]
    BY <1>2 DEF StreamTypeOK
  <2>. QED
    BY <2>1, <2>2, <2>3
<1>6. waiting' = waiting \cup {Waiter(t, s, FALSE)}
  <2>1. Range(<<s>>) = {s}
    BY DEF Range
  <2>. QED
    BY <1>2, <1>4, <2>1 DEF Expect
<1>7. \A n \in Motors : Spare(n)'
  BY <1>2, SpareEnter DEF Calm
<1>8. Sends(<<StartOne(m, t)>>)
  BY <1>2, EnterMovingSends, TasksApart DEF Inv, TypeOK
<1>9. /\ mixed \subseteq mixed' /\ (t \notin mixed' => Resting(m))
      /\ \A u \in Moves \cup Syncs : Goes(u, m) /\ u \in Motions(m) => u \in mixed'
  BY <1>2, SendOffFacts
<1>10. ASSUME NEW u \in Moves \cup Syncs, NEW n \in Motors, Goes(u, n), u \in Motions(n),
              u \notin (mixed \cup raised)'
       PROVE  Holds(u, n)' /\ Awaits(u, n)' /\ NoStart(<<StartOne(m, t)>>, n)
  <2>1. n # m
    BY <1>9, <1>10
  <2>2. Holds(u, n) /\ Awaits(u, n) /\ u # t /\ u \in Tasks
    BY <1>2, <1>10, TasksApart DEF Goes, Holds
  <2>3. Holds(u, n)' /\ Awaits(u, n)'
    BY <1>2, <1>3, <1>6, <2>2, GoesKept
  <2>. QED
    BY <2>1, <2>3, NoStarts
<1>11. ASSUME NEW u \in Moves \cup Syncs, NEW n \in Motors, u \notin (mixed \cup raised)',
              NEW i \in DOMAIN <<StartOne(m, t)>>, <<StartOne(m, t)>>[i] = StartOne(n, u)
       PROVE  Goes(u, n)'
  <2>1. u = t /\ n = m
    BY <1>11 DEF StartOne, Msg
  <2>2. Resting(m)
    BY <1>9, <1>11, <2>1
  <2>3. PICK rs \in Seq(Message) : /\ requests' = requests \o (rs \o <<StartOne(m, t)>>)
                                   /\ Registrar(rs)
    BY <1>8 DEF Sends
  <2>4. /\ NoStart(rs, m) /\ OneRegister(rs, m) /\ (watchers[m] > 0 => NoRegister(rs, m))
        /\ NoRegister(<<StartOne(m, t)>>, m) /\ StartsOnce(<<StartOne(m, t)>>, m, t)
    BY <1>2, <2>3, NoStarts, SilentNoRegister DEF Registrar
  <2>5. Spare(m) /\ (m \in open => Echoed(m)) /\ initialized' \subseteq initialized
        /\ s \in {Moving(m), Synced(m)}
    BY <1>2, <1>4, <1>8 DEF Calm, Groups, Sends
  <2>6. Placed(m, t)' /\ Unheard(m, s)'
    BY <1>2, <1>5, <2>2, <2>3, <2>4, <2>5, GoesOff
  <2>7. Holds(t, m)'
    BY <1>1, <1>2, <1>3 DEF Holds, TaskMotors
  <2>8. StreamOf(t, m)' = s
    BY <1>2, <1>4 DEF StreamOf, Moving
  <2>9. Awaits(t, m)'
    BY <1>6, <2>8 DEF Awaits, Waiter
  <2>. QED
    BY <2>1, <2>6, <2>7, <2>8, <2>9 DEF Goes
<1>12. GoesOn'
  BY <1>2, <1>8, <1>9, <1>10, <1>11, GoesClient DEF Calm
<1>13. Raising'
  BY <1>2, <1>3, RaisingSame, TasksApart DEF Calm
<1>14. Groups'
  <2>1. open' \subseteq open /\ Groups /\ pc'[t] # "idle"
    BY <1>2, <1>3 DEF Calm
  <2>. QED
    BY <1>2, <1>8, <2>1, GroupsClient
<1>. QED
  BY <1>7, <1>12, <1>13, <1>14 DEF Calm

LEMMA SyncStarts ==
  ASSUME pending \in Seq(Motors), Distinct(pending), NEW t \in Syncs,
         NEW k \in 1..(Len(pending) + 1)
  PROVE  /\ \A m : (\A i \in 1..(k - 1) : pending[i] # m) => NoStart(SyncMessages(t, k), m)
         /\ \A i \in 1..(k - 1) : StartsOnce(SyncMessages(t, k), pending[i], t)
         /\ \A i \in DOMAIN SyncMessages(t, k) : \A m, u :
               SyncMessages(t, k)[i] = StartOne(m, u) =>
                   u = t /\ \E j \in 1..(k - 1) : pending[j] = m
<1>1. PICK q : q = StartEach(t, SubSeq(pending, 1, k - 1))
  OBVIOUS
<1>2. /\ q \in Seq(Message) /\ Len(q) = k - 1 /\ DOMAIN q = 1..(k - 1)
      /\ \A i \in 1..(k - 1) : q[i] = StartOne(pending[i], t)
      /\ Brackets(k) \in Seq(Message) /\ <<Prestart>> \in Seq(Message)
  BY <1>1, SyncMessagesType, MessageFacts
<1>3. PICK a \in Seq(Message), b \in Seq(Message) : a = <<Prestart>> /\ b = Brackets(k)
  BY <1>2
<1>4. /\ DOMAIN a = {1} /\ a[1] = Prestart
      /\ \A i \in DOMAIN b : b[i] = StartAll
  BY <1>3 DEF Brackets
<1>5. SyncMessages(t, k) = a \o q \o b /\ a \o q \in Seq(Message)
  BY <1>1, <1>2, <1>3 DEF SyncMessages, Prestarting
<1>6. \A m : /\ ~IsStart(Prestart, m) /\ ~IsStart(StartAll, m)
             /\ Prestart # Register(m) /\ StartAll # Register(m)
  BY DEF IsStart, Prestart, StartAll, Register, Msg
<1>7. /\ \A m : NoStart(a, m) /\ NoStart(b, m) /\ NoRegister(b, m)
  BY <1>4, <1>6 DEF NoStart, NoRegister
<1>8. \A m, n, u : /\ IsStart(StartOne(n, u), m) <=> n = m
                   /\ StartOne(n, u) # Register(m)
  BY DEF IsStart, StartOne, Register, Msg
<1>9. ASSUME NEW m, \A i \in 1..(k - 1) : pending[i] # m
      PROVE  NoStart(SyncMessages(t, k), m)
  <2>1. NoStart(q, m)
    BY <1>2, <1>8, <1>9 DEF NoStart
  <2>2. NoStart(a \o q, m)
    BY <1>2, <1>7, <2>1, ConcatRequests
  <2>3. NoStart(a \o q \o b, m)
    BY <1>5, <1>7, <2>2, ConcatRequests
  <2>. QED
    BY <1>5, <2>3
<1>10. ASSUME NEW j \in 1..(k - 1)
       PROVE  StartsOnce(SyncMessages(t, k), pending[j], t)
  <2>1. PICK m : m = pending[j]
    OBVIOUS
  <2>2. \A i \in 1..(k - 1) : pending[i] = m => i = j
    BY <2>1 DEF Distinct
  <2>3. StartsOnce(q, m, t)
    <3>1. ASSUME NEW i \in DOMAIN q
          PROVE  (IsStart(q[i], m) => i = j) /\ q[i] # Register(m)
      <4>1. q[i] = StartOne(pending[i], t) /\ i \in 1..(k - 1)
        BY <1>2
      <4>2. (IsStart(q[i], m) <=> pending[i] = m) /\ q[i] # Register(m)
        BY <1>8, <4>1
      <4>. QED
        BY <2>2, <4>1, <4>2
    <3>2. j \in DOMAIN q /\ q[j] = StartOne(m, t)
      BY <1>2, <2>1
    <3>. QED
      BY <3>1, <3>2 DEF StartsOnce
  <2>4. StartsOnce(a \o q, m, t)
    BY <1>2, <1>7, <2>3, ConcatOnce
  <2>5. StartsOnce(a \o q \o b, m, t)
    BY <1>5, <1>7, <2>4, ConcatOnce
  <2>. QED
    BY <1>5, <2>1, <2>5
<1>11. ASSUME NEW i \in DOMAIN SyncMessages(t, k), NEW m, NEW u,
              SyncMessages(t, k)[i] = StartOne(m, u)
       PROVE  u = t /\ \E j \in 1..(k - 1) : pending[j] = m
  <2>0. PICK p \in Seq(Message) : p = a \o q
    BY <1>5
  <2>1. PICK c : c = p \o b
    OBVIOUS
  <2>2. i \in DOMAIN c /\ c[i] = StartOne(m, u)
    BY <1>5, <1>11, <2>0, <2>1
  <2>3. /\ i \in DOMAIN p => c[i] = p[i]
        /\ i \in DOMAIN p \/ \E l \in DOMAIN b : c[i] = b[l]
    BY <2>0, <2>1, <2>2, ConcatElements
  <2>4. i \in DOMAIN p /\ p[i] = StartOne(m, u)
    <3>1. \A l \in DOMAIN b : b[l] # StartOne(m, u)
      BY <1>4, <1>6, <1>8
    <3>. QED
      BY <2>2, <2>3, <3>1
  <2>5. /\ i \in DOMAIN a => p[i] = a[i]
        /\ i \in DOMAIN a \/ \E l \in DOMAIN q : p[i] = q[l]
    <3>1. a \in Seq(Message) /\ q \in Seq(Message) /\ i \in DOMAIN p
      BY <1>2, <2>4
    <3>. QED
      BY SMTT(30), <2>0, <3>1, ConcatElements
  <2>6. PICK l \in DOMAIN q : q[l] = StartOne(m, u)
    <3>1. \A l \in DOMAIN a : a[l] # StartOne(m, u)
      BY <1>4, <1>6, <1>8
    <3>. QED
      BY <2>4, <2>5, <3>1
  <2>7. StartOne(pending[l], t) = StartOne(m, u)
    BY <1>2, <2>6
  <2>. QED
    BY <1>2, <2>7 DEF StartOne, Msg
<1>. QED
  BY <1>9, <1>10, <1>11

LEMMA CalmSyncStart ==
  ASSUME Inv, Inv', Calm, NEW t \in Syncs, SyncStart(t)
  PROVE  Calm'
<1>1. PICK k \in 1..(Len(pending) + 1) :
         /\ Enter(t, [i \in 1..Len(pending) |-> Synced(pending[i])], SyncMessages(t, k))
         /\ raised' = IF k > Len(pending) THEN raised ELSE raised \cup {t}
         /\ SendOff(t, {pending[i] : i \in 1..(k - 1)})
  BY DEF SyncStart, SyncMessages, Brackets
<1>2. PICK more \in Seq(Silent) : more = SyncMessages(t, k)
  BY SyncSilent DEF Inv, TypeOK
<1>3. /\ pc[t] = "preparing"
      /\ IF Len(pending) > 0 THEN pc' = [pc EXCEPT ![t] = "unwinding"]
                             ELSE pc' = [pc EXCEPT ![t] = "done"]
      /\ batch' = [batch EXCEPT ![t] = pending]
      /\ left' = [left EXCEPT ![t] = Len(pending)]
  BY SyncStartHolders
<1>4. /\ pending \in Seq(Motors) /\ Range(pending) \subseteq Motors /\ t \in Tasks
      /\ Len(pending) \in Nat /\ DOMAIN pending = 1..Len(pending) /\ Distinct(pending)
      /\ more \in Seq(Message) /\ StreamTypeOK /\ WireOK
      /\ UNCHANGED <<events, open, serverVars, registered, buffer, commands, moving>>
      /\ Enter(t, [i \in 1..Len(pending) |-> Synced(pending[i])], more)
  <2>1. pending \in Seq(Motors) /\ StreamTypeOK /\ WireOK /\ Distinct(pending)
    BY DEF Inv, TypeOK, Batches
  <2>2. Range(pending) \subseteq Motors
    BY <2>1 DEF Range
  <2>. QED
    BY <1>1, <1>2, <2>1, <2>2, SilentNoRegister, TasksApart DEF SyncStart, serverVars
<1>5. /\ \A u \in Tasks : u # t => pc'[u] = pc[u]
      /\ \A u \in Syncs : u # t => batch'[u] = batch[u] /\ left'[u] = left[u]
      /\ batch'[t] = pending /\ left'[t] = Len(pending)
      /\ pc'[t] = IF Len(pending) > 0 THEN "unwinding" ELSE "done"
  BY <1>3, <1>4 DEF Inv, TypeOK
<1>6. \A n \in Motors : Spare(n)'
  BY <1>4, SpareSynced DEF Calm
<1>7. Sends(more)
  <2>1. t \notin open
    BY <1>4, TasksApart DEF Inv, TypeOK
  <2>. QED
    BY <1>4, <2>1, EnterSyncedSends
<1>8. /\ mixed \subseteq mixed'
      /\ t \notin mixed' => \A i \in 1..(k - 1) : Resting(pending[i])
      /\ \A u \in Moves \cup Syncs : \A i \in 1..(k - 1) :
            Goes(u, pending[i]) /\ u \in Motions(pending[i]) => u \in mixed'
  BY <1>1, SendOffFacts
<1>9. /\ \A m : (\A i \in 1..(k - 1) : pending[i] # m) => NoStart(more, m)
      /\ \A i \in 1..(k - 1) : StartsOnce(more, pending[i], t)
      /\ \A i \in DOMAIN more : \A m, u : more[i] = StartOne(m, u) =>
            u = t /\ \E j \in 1..(k - 1) : pending[j] = m
  BY <1>2, <1>4, SyncStarts
<1>10. waiting' = waiting \cup {Waiter(t, Synced(pending[i]), FALSE) : i \in 1..Len(pending)}
  <2>1. PICK ss : ss = [i \in 1..Len(pending) |-> Synced(pending[i])]
    OBVIOUS
  <2>2. Expect(t, ss, FALSE)
    BY <2>1 DEF SyncStart
  <2>3. Range(ss) = {Synced(pending[i]) : i \in 1..Len(pending)}
    BY <2>1 DEF Range
  <2>. QED
    BY <2>2, <2>3 DEF Expect
<1>11. ASSUME NEW u \in Moves \cup Syncs, NEW n \in Motors, Goes(u, n), u \in Motions(n),
              u \notin (mixed \cup raised)'
       PROVE  Holds(u, n)' /\ Awaits(u, n)' /\ NoStart(more, n)
  <2>1. \A i \in 1..(k - 1) : pending[i] # n
    BY <1>8, <1>11
  <2>2. Holds(u, n) /\ Awaits(u, n) /\ u # t /\ u \in Tasks /\ pc'[u] = pc[u]
    BY <1>3, <1>5, <1>11, TasksApart DEF Goes, Holds
  <2>3. Holds(u, n)'
    BY <1>5, <2>2 DEF Holds, TaskMotors
  <2>4. Awaits(u, n)'
    BY <1>10, <2>2 DEF Awaits, Waiter, StreamOf, Moving, Synced
  <2>. QED
    BY <1>9, <2>1, <2>3, <2>4
<1>12. ASSUME NEW u \in Moves \cup Syncs, NEW n \in Motors, u \notin (mixed \cup raised)',
              NEW i \in DOMAIN more, more[i] = StartOne(n, u)
       PROVE  Goes(u, n)'
  <2>1. PICK j \in 1..(k - 1) : pending[j] = n
    BY <1>9, <1>12
  <2>2. u = t /\ Resting(n) /\ n \in Range(pending) /\ j \in 1..Len(pending)
    BY <1>4, <1>8, <1>9, <1>12, <2>1 DEF Range
  <2>3. PICK s : s = Synced(n)
    OBVIOUS
  <2>4. /\ s \in MotorStreams
        /\ listening'[s] \subseteq listening[s] \cup {t} /\ <<t, s>> \notin initialized'
    <3>1. /\ listening' = [r \in MotorStreams |->
                             IF r \in {Synced(m) : m \in Range(pending)} /\ depth[r] = 0
                               THEN listening[r] \cup {t} ELSE listening[r]]
          /\ initialized' = initialized \ ({t} \X {Synced(m) : m \in Range(pending)})
      BY <1>4, EnterSynced
    <3>2. s \in MotorStreams
      BY <2>3, StreamFacts
    <3>. QED
      BY <2>2, <2>3, <3>1, <3>2
  <2>5. PICK rs \in Seq(Message) : requests' = requests \o (rs \o more) /\ Registrar(rs)
    BY <1>7 DEF Sends
  <2>6. /\ NoStart(rs, n) /\ OneRegister(rs, n) /\ (watchers[n] > 0 => NoRegister(rs, n))
        /\ NoRegister(more, n) /\ StartsOnce(more, n, t)
    BY <1>9, <2>1, <2>5, SilentNoRegister DEF Registrar
  <2>7. Spare(n) /\ (n \in open => Echoed(n)) /\ initialized' \subseteq initialized
        /\ s \in {Moving(n), Synced(n)}
    BY <1>7, <2>3 DEF Calm, Groups, Sends
  <2>8. Placed(n, t)' /\ Unheard(n, s)'
    BY <1>4, <2>2, <2>4, <2>5, <2>6, <2>7, GoesOff
  <2>9. Holds(t, n)'
    <3>1. Len(pending) > 0
      BY <1>4, <2>2
    <3>2. pc'[t] = "unwinding"
      BY <1>5, <3>1
    <3>. QED
      BY <1>5, <2>1, <2>2, <3>2 DEF Holds, TaskMotors
  <2>10. StreamOf(t, n)' = s
    BY <2>3 DEF StreamOf, Synced
  <2>11. Awaits(t, n)'
    BY <1>10, <2>1, <2>2, <2>3, <2>10 DEF Awaits, Waiter
  <2>. QED
    BY <2>2, <2>8, <2>9, <2>10, <2>11 DEF Goes
<1>13. GoesOn'
  <2>1. raised \subseteq raised'
    BY <1>1
  <2>. QED
    BY <1>4, <1>7, <1>8, <1>11, <1>12, <2>1, GoesClient DEF Calm
<1>14. Raising'
  <2>1. ASSUME NEW u \in raised'
        PROVE  pc'[u] \in {"unwinding", "aborted"}
    <3>1. CASE u = t
      <4>1. t \notin raised
        BY <1>3 DEF Calm, Raising
      <4>2. ~(k > Len(pending))
        BY <1>1, <2>1, <3>1, <4>1
      <4>3. Len(pending) > 0
        BY <1>4, <4>2
      <4>. QED
        BY <1>5, <3>1, <4>3
    <3>2. CASE u # t
      <4>1. u \in raised /\ u \in Tasks
        BY <1>1, <2>1, <3>2, TasksApart DEF Inv, TypeOK
      <4>. QED
        BY <1>5, <3>2, <4>1 DEF Calm, Raising
    <3>. QED
      BY <3>1, <3>2
  <2>. QED
    BY <2>1 DEF Raising
<1>15. Groups'
  <2>1. open' \subseteq open /\ Groups /\ pc'[t] # "idle"
    BY <1>4, <1>5 DEF Calm
  <2>. QED
    BY <1>4, <1>7, <2>1, GroupsClient
<1>. QED
  BY <1>6, <1>13, <1>14, <1>15 DEF Calm

LEMMA CalmSyncUnwind ==
  ASSUME Inv, Inv', Calm, NEW t \in Syncs, SyncUnwind(t)
  PROVE  Calm'
<1>1. PICK m : m = batch[t][left[t]]
  OBVIOUS
<1>2. /\ pc[t] = "unwinding" /\ m \in Motors /\ left[t] \in 1..Len(batch[t])
      /\ left' = [left EXCEPT ![t] = @ - 1]
      /\ IF left[t] = 1 THEN \E l \in {"aborted", "done"} : pc' = [pc EXCEPT ![t] = l]
                        ELSE pc' = pc
      /\ SyncedHolders(m) = {t}
  BY <1>1, SyncUnwindHolders
<1>3. PICK more \in Seq(Silent) : Exit(t, Synced(m), more) /\ \A n : NoStart(more, n)
  BY <1>1, SilentFacts, NoStarts DEF SyncUnwind, Aborting
<1>4. /\ UNCHANGED <<events, open, serverVars, registered, mixed, batch>>
      /\ StreamTypeOK /\ WireOK /\ t \in Tasks /\ more \in Seq(Message)
      /\ raised' = IF Expects(t, Synced(m)) THEN raised \cup {t} ELSE raised
      /\ waiting' = {w \in waiting : ~(w.owner = t /\ w.stream = Synced(m))}
  BY <1>1, TasksApart, SilentNoRegister DEF SyncUnwind, serverVars, Inv, TypeOK, GiveUp
<1>5. /\ \A u \in Tasks : u # t => pc'[u] = pc[u]
      /\ \A u \in Syncs : u # t => left'[u] = left[u]
      /\ left'[t] = left[t] - 1
      /\ left[t] # 1 => pc'[t] = "unwinding"
      /\ pc'[t] # "idle"
  BY <1>2, <1>4 DEF Inv, TypeOK
<1>6. /\ Synced(m) \in MotorStreams /\ StreamMotor(Synced(m)) = m
      /\ depth[Synced(m)] > 0 /\ watchers[m] > 0
  <2>1. SyncedHolders(m) # {}
    BY <1>2
  <2>2. depth[Synced(m)] # 0 /\ watchers[m] # 0 /\ depth[Synced(m)] \in Nat /\ watchers[m] \in Nat
    BY <1>2, <2>1, NobodyHolds
  <2>. QED
    BY <1>2, <2>2, StreamFacts
<1>7. \A n \in Motors : Spare(n)'
  <2>1. PICK s \in {Moving(m), Synced(m)} : s = Synced(m)
    OBVIOUS
  <2>2. Exit(t, s, more) /\ depth[s] > 0
    BY <1>3, <1>6, <2>1
  <2>3. \A n \in Motors : Spare(n)
    BY DEF Calm
  <2>. QED
    BY <1>2, <1>4, <1>6, <2>2, <2>3, SpareExit
<1>8. Sends(more)
  BY <1>2, <1>3, <1>4, <1>6, ExitSendsMore
<1>9. ASSUME NEW u \in Moves \cup Syncs, NEW n \in Motors, Goes(u, n), u \notin raised'
      PROVE  Holds(u, n)' /\ Awaits(u, n)'
  <2>1. Holds(u, n) /\ Awaits(u, n)
    BY <1>9 DEF Goes
  <2>2. CASE u # t
    <3>1. u \in Tasks
      BY TasksApart
    <3>2. pc'[u] = pc[u]
      BY <1>5, <2>2, <3>1
    <3>3. Holds(u, n)'
      BY <1>4, <1>5, <2>1, <2>2, <3>2 DEF Holds, TaskMotors
    <3>4. Awaits(u, n)'
      BY <1>4, <2>1, <2>2 DEF Awaits, Waiter, StreamOf, Moving, Synced
    <3>. QED
      BY <3>3, <3>4
  <2>3. CASE u = t
    <3>1. Waiter(t, Synced(n), FALSE) \in waiting
      BY <2>1, <2>3 DEF Awaits, StreamOf
    <3>2. ~Expects(t, Synced(m))
      BY <1>4, <1>9, <2>3
    <3>3. n # m /\ Synced(n) # Synced(m)
      <4>1. Synced(n) # Synced(m)
        BY <3>1, <3>2 DEF Expects, Waiter
      <4>. QED
        BY <4>1
    <3>4. PICK i \in 1..left[t] : batch[t][i] = n
      BY <2>1, <2>3 DEF Holds, TaskMotors
    <3>5. i \in 1..(left[t] - 1) /\ left[t] # 1
      BY <1>1, <1>2, <3>3, <3>4
    <3>6. Holds(t, n)'
      BY <1>4, <1>5, <3>4, <3>5 DEF Holds, TaskMotors
    <3>7. Awaits(t, n)'
      BY <1>4, <3>1, <3>3 DEF Awaits, Waiter, StreamOf, Synced
    <3>. QED
      BY <2>3, <3>6, <3>7
  <2>. QED
    BY <2>2, <2>3
<1>10. GoesOn'
  <2>1. \A i \in DOMAIN more : \A n, u : more[i] # StartOne(n, u)
    BY <1>3 DEF NoStart, IsStart, StartOne, Msg
  <2>2. raised \subseteq raised'
    BY <1>4
  <2>. QED
    BY <1>3, <1>4, <1>8, <1>9, <2>1, <2>2, GoesClient DEF Calm
<1>11. Raising'
  <2>1. ASSUME NEW u \in raised'
        PROVE  pc'[u] \in {"unwinding", "aborted"}
    <3>1. CASE u = t
      <4>1. left[t] = 1 => pc' = [pc EXCEPT ![t] = "aborted"]
        BY <1>1, <1>4, <2>1, <3>1 DEF SyncUnwind, Goto
      <4>2. left[t] = 1 => pc'[t] = "aborted"
        BY <1>4, <4>1 DEF Inv, TypeOK
      <4>. QED
        BY <1>5, <3>1, <4>2
    <3>2. CASE u # t
      <4>1. u \in raised /\ u \in Tasks
        BY <1>4, <2>1, <3>2, TasksApart DEF Inv, TypeOK
      <4>. QED
        BY <1>5, <3>2, <4>1 DEF Calm, Raising
    <3>. QED
      BY <3>1, <3>2
  <2>. QED
    BY <2>1 DEF Raising
<1>12. Groups'
  <2>1. open' \subseteq open /\ Groups
    BY <1>4 DEF Calm
  <2>. QED
    BY <1>4, <1>5, <1>8, <2>1, GroupsClient
<1>. QED
  BY <1>7, <1>10, <1>11, <1>12 DEF Calm

(***************************************************************************)
(* The server's steps.                                                     *)
(***************************************************************************)
LEMMA OneElement ==
  ASSUME NEW S, NEW e \in S
  PROVE  <<e>> \in Seq(S) /\ DOMAIN <<e>> = {1} /\ <<e>>[1] = e
OBVIOUS

LEMMA TellElements ==
  /\ \A ms \in SUBSET Motors : \A v \in BOOLEAN :
        /\ TellAll(ms, v) \in Seq(Notice)
        /\ \A i \in DOMAIN TellAll(ms, v) : TellAll(ms, v)[i].by # None
        /\ \A m : m \notin ms \cap registered => NoEvent(TellAll(ms, v), m)
        /\ \A m : v => NoStand(TellAll(ms, v), m)
  /\ \A n \in Motors :
        /\ Tell(n, FALSE, n) \in Seq(Notice)
        /\ \A i \in DOMAIN Tell(n, FALSE, n) : Tell(n, FALSE, n)[i].by # None
        /\ \A m : m # n \/ m \notin registered => NoEvent(Tell(n, FALSE, n), m)
<1>1. ASSUME NEW ms \in SUBSET Motors, NEW v \in BOOLEAN
      PROVE  /\ TellAll(ms, v) \in Seq(Notice)
             /\ \A i \in DOMAIN TellAll(ms, v) : TellAll(ms, v)[i].by # None
             /\ \A m : m \notin ms \cap registered => NoEvent(TellAll(ms, v), m)
             /\ \A m : v => NoStand(TellAll(ms, v), m)
  <2>1. PICK order : order = SetToSeq(ms \cap registered)
    OBVIOUS
  <2>2. order \in Seq(ms \cap registered)
    <3>1. IsFiniteSet(ms \cap registered)
      BY MotorsAssumption, FS_Subset
    <3>. QED
      BY <2>1, <3>1, SetToSeqProperties
  <2>3. PICK x : x = TellAll(ms, v)
    OBVIOUS
  <2>4. \A i \in DOMAIN x : \E n \in ms \cap registered : x[i] = Event("EVENT", n, v, n)
    <3>1. x = [i \in DOMAIN order |-> Event("EVENT", order[i], v, order[i])]
      BY <2>1, <2>3 DEF TellAll
    <3>2. \A i \in DOMAIN order : order[i] \in ms \cap registered
      BY <2>2
    <3>. QED
      BY <3>1, <3>2
  <2>5. x \in Seq(Notice)
    BY <2>3, TellType
  <2>6. \A n \in Motors : n # None
    BY MotorsAssumption
  <2>7. \A n : /\ Event("EVENT", n, v, n).by = n
               /\ \A m : /\ IsEvent(Event("EVENT", n, v, n), m) => m = n
                         /\ v => ~IsStand(Event("EVENT", n, v, n), m)
    BY DEF Event, IsEvent, IsStand
  <2>8. \A i \in DOMAIN x : x[i].by # None
    BY <2>4, <2>6, <2>7
  <2>9. \A m : m \notin ms \cap registered => NoEvent(x, m)
    BY <2>4, <2>7 DEF NoEvent
  <2>10. \A m : v => NoStand(x, m)
    BY <2>4, <2>7 DEF NoStand
  <2>. QED
    BY <2>3, <2>5, <2>8, <2>9, <2>10
<1>2. ASSUME NEW n \in Motors
      PROVE  /\ Tell(n, FALSE, n) \in Seq(Notice)
             /\ \A i \in DOMAIN Tell(n, FALSE, n) : Tell(n, FALSE, n)[i].by # None
             /\ \A m : m # n \/ m \notin registered => NoEvent(Tell(n, FALSE, n), m)
  <2>1. PICK x : x = Tell(n, FALSE, n)
    OBVIOUS
  <2>2. x \in Seq(Notice)
    BY <2>1, TellType
  <2>3. n # None
    BY MotorsAssumption
  <2>4. /\ n \notin registered => x = <<>>
        /\ \A i \in DOMAIN x : x[i] = Event("EVENT", n, FALSE, n)
    <3>1. CASE n \in registered
      <4>1. PICK e : e = Event("EVENT", n, FALSE, n)
        OBVIOUS
      <4>2. x = <<e>>
        BY <2>1, <3>1, <4>1 DEF Tell
      <4>3. DOMAIN x = {1} /\ x[1] = e
        BY <4>2, OneElement
      <4>. QED
        BY <3>1, <4>1, <4>3
    <3>2. CASE n \notin registered
      BY <2>1, <3>2 DEF Tell
    <3>. QED
      BY <3>1, <3>2
  <2>5. \A i \in DOMAIN x : x[i].by # None
    BY <2>3, <2>4 DEF Event
  <2>6. \A m : m # n \/ m \notin registered => NoEvent(x, m)
    BY <2>4 DEF NoEvent, IsEvent, Event
  <2>. QED
    BY <2>1, <2>2, <2>5, <2>6
<1>. QED
  BY <1>1, <1>2

\* What one step of the server adds to the channel.
LEMMA ServerTells ==
  ASSUME Inv, ServerStep
  PROVE  \E x \in Seq(Notice) :
            /\ events' = events \o x
            /\ \/ UNCHANGED <<requests, registered>>
               \/ /\ requests # <<>> /\ requests' = Tail(requests)
                  /\ \A m : m \in registered' =>
                        m \in registered \/ Head(requests) = Register(m)
            /\ \A m \in Motors :
                  /\ m \notin registered \cup registered' => NoEvent(x, m)
                  /\ \A i \in DOMAIN x : IsEvent(x[i], m) /\ x[i].by = None =>
                        /\ requests # <<>> /\ requests' = Tail(requests)
                        /\ Head(requests) = Register(m) /\ i = 1
<1>. DEFINE P(x) ==
            /\ events' = events \o x
            /\ \/ UNCHANGED <<requests, registered>>
               \/ /\ requests # <<>> /\ requests' = Tail(requests)
                  /\ \A m : m \in registered' =>
                        m \in registered \/ Head(requests) = Register(m)
            /\ \A m \in Motors :
                  /\ m \notin registered \cup registered' => NoEvent(x, m)
                  /\ \A i \in DOMAIN x : IsEvent(x[i], m) /\ x[i].by = None =>
                        /\ requests # <<>> /\ requests' = Tail(requests)
                        /\ Head(requests) = Register(m) /\ i = 1
<1>0. SUFFICES \E x \in Seq(Notice) : P(x)
  OBVIOUS
<1>. HIDE DEF P
<1>1. /\ requests \in Seq(Message) /\ events \in Seq(Notice) /\ events \o <<>> = events
      /\ <<>> \in Seq(Notice) /\ \A m : NoEvent(<<>>, m)
  BY DEF Inv, WireOK, NoEvent
<1>2. CASE ServeRegister
  <2>1. requests # <<>> /\ Head(requests) \in Message /\ Head(requests).command = "REGISTER"
        /\ requests' = Tail(requests)
    BY <1>1, <1>2 DEF ServeRegister, Serve
  <2>2. PICK n \in Motors : n = Head(requests).property /\ Head(requests) = Register(n)
    BY <2>1, MessageKinds DEF Register
  <2>3. PICK e : e = Event("EVENT", n, moving[n] # None, None)
    OBVIOUS
  <2>4. e \in Notice
    BY <2>3 DEF Event, Notice
  <2>5. events' = events \o <<e>> /\ registered' = registered \cup {n}
    BY <1>1, <1>2, <2>2, <2>3, <2>4 DEF ServeRegister
  <2>6. PICK x \in Seq(Notice) : x = <<e>>
    BY <2>4, OneElement
  <2>7. DOMAIN x = {1} /\ x[1] = e
    BY <2>6
  <2>8. \A m : IsEvent(e, m) => m = n
    BY <2>3 DEF IsEvent, Event
  <2>9. P(x)
    BY <2>1, <2>2, <2>5, <2>6, <2>7, <2>8 DEF P, NoEvent
  <2>. QED
    BY <2>6, <2>9
<1>3. CASE ServeRead
  <2>1. requests # <<>> /\ Head(requests) \in Message /\ Head(requests).command = "CHAN_READ"
        /\ requests' = Tail(requests) /\ registered' = registered
    BY <1>1, <1>3 DEF ServeRead, Serve, serverVars
  <2>2. Head(requests).property \in Motors /\ Head(requests).by \in Waits
    BY <2>1, MessageKinds
  <2>3. PICK e : e = Event("REPLY", Head(requests).property,
                           moving[Head(requests).property] # None, Head(requests).by)
    OBVIOUS
  <2>4. e \in Notice
    BY <2>2, <2>3 DEF Event, Notice
  <2>5. events' = events \o <<e>>
    BY <1>1, <1>3, <2>3, <2>4 DEF ServeRead
  <2>6. PICK x \in Seq(Notice) : x = <<e>>
    BY <2>4, OneElement
  <2>7. DOMAIN x = {1} /\ x[1] = e /\ \A m : ~IsEvent(e, m)
    BY <2>3, <2>6 DEF IsEvent, Event
  <2>8. P(x)
    BY <2>1, <2>5, <2>6, <2>7 DEF P, NoEvent
  <2>. QED
    BY <2>6, <2>8
<1>4. CASE ServeUnregister \/ ServePrestartAll \/ ServeStartOne \/ ServeStartAll
  <2>1. /\ requests # <<>> /\ requests' = Tail(requests) /\ events' = events
        /\ registered' \subseteq registered
    BY <1>4 DEF ServeUnregister, ServePrestartAll, ServeStartOne, ServeStartAll, Serve
  <2>2. P(<<>>)
    BY <1>1, <2>1 DEF P
  <2>. QED
    BY <1>1, <2>2
<1>5. CASE ServeAbortAll
  <2>1. PICK ms \in SUBSET Motors : events' = events \o TellAll(ms, FALSE)
    BY <1>5 DEF ServeAbortAll
  <2>2. requests # <<>> /\ requests' = Tail(requests) /\ registered' = registered
    BY <1>5 DEF ServeAbortAll, Serve
  <2>3. PICK x \in Seq(Notice) : x = TellAll(ms, FALSE)
    BY TellElements
  <2>4. /\ \A i \in DOMAIN x : x[i].by # None
        /\ \A m : m \notin ms \cap registered => NoEvent(x, m)
    BY <2>3, TellElements
  <2>5. P(x)
    BY <2>1, <2>2, <2>3, <2>4 DEF P
  <2>. QED
    BY <2>5
<1>6. CASE Execute
  <2>1. PICK ms \in SUBSET Motors : events' = events \o TellAll(ms, TRUE)
    <3>1. Head(commands) \subseteq Motion
      BY <1>6 DEF Execute, Inv, TypeOK
    <3>2. {x[1] : x \in Head(commands)} \in SUBSET Motors
      BY <3>1 DEF Motion
    <3>. QED
      BY <1>6, <3>2 DEF Execute
  <2>2. UNCHANGED <<requests, registered>>
    BY <1>6 DEF Execute
  <2>3. PICK x \in Seq(Notice) : x = TellAll(ms, TRUE)
    BY TellElements
  <2>4. /\ \A i \in DOMAIN x : x[i].by # None
        /\ \A m : m \notin ms \cap registered => NoEvent(x, m)
    BY <2>3, TellElements
  <2>5. P(x)
    BY <2>1, <2>2, <2>3, <2>4 DEF P
  <2>. QED
    BY <2>5
<1>7. ASSUME NEW n \in Motors, Stop(n)
      PROVE  \E x \in Seq(Notice) : P(x)
  <2>1. events' = events \o Tell(n, FALSE, n) /\ UNCHANGED <<requests, registered>>
    BY <1>7 DEF Stop
  <2>2. PICK x \in Seq(Notice) : x = Tell(n, FALSE, n)
    BY TellElements
  <2>3. /\ \A i \in DOMAIN x : x[i].by # None
        /\ \A m : m \notin registered => NoEvent(x, m)
    BY <2>2, TellElements
  <2>4. P(x)
    BY <2>1, <2>2, <2>3 DEF P
  <2>. QED
    BY <2>4
<1>. QED
  BY <1>2, <1>3, <1>4, <1>5, <1>6, <1>7 DEF ServerStep

\* A motion of the server is one of the client's.
LEMMA ServerMotions ==
  ASSUME Inv, ServerStep, NEW t \in Tasks, NEW m \in Motors, t \in Motions(m)'
  PROVE  t \in Motions(m)
<1>1. /\ requests \in Seq(Message) /\ commands \in Seq(SUBSET Motion) /\ buffer \subseteq Motion
  BY DEF Inv, WireOK, TypeOK
<1>2. PICK Batch : Batch = SUBSET Motion
  OBVIOUS
<1>3. commands \in Seq(Batch) /\ t # None
  BY <1>1, <1>2, MotorsAssumption
<1>. DEFINE Sent(q) == \E i \in DOMAIN q : /\ q[i].property = m /\ q[i].by = t
                                           /\ q[i].command = "start_one"
<1>4. requests # <<>> /\ Sent(Tail(requests)) => Sent(requests)
  <2>. SUFFICES ASSUME requests # <<>>, Sent(Tail(requests)) PROVE Sent(requests)
    OBVIOUS
  <2>1. PICK c : c = Tail(requests)
    OBVIOUS
  <2>2. PICK i \in DOMAIN c : c[i].property = m /\ c[i].by = t /\ c[i].command = "start_one"
    BY <2>1
  <2>3. i + 1 \in DOMAIN requests /\ c[i] = requests[i + 1]
    BY <1>1, <2>1, TailElements
  <2>. QED
    BY <2>2, <2>3
<1>5. requests # <<>> /\ Head(requests).property = m /\ Head(requests).by = t
        /\ Head(requests).command = "start_one" => Sent(requests)
  <2>1. requests # <<>> => 1 \in DOMAIN requests /\ Head(requests) = requests[1]
    BY <1>1, TailElements
  <2>. QED
    BY <2>1
<1>6. Sent(requests) \/ <<m, t>> \in buffer \/ (\E i \in DOMAIN commands : <<m, t>> \in commands[i])
        \/ moving[m] = t => t \in Motions(m)
  BY DEF Motions
<1>7. \/ Sent(requests') \/ <<m, t>> \in buffer'
      \/ \E i \in DOMAIN commands' : <<m, t>> \in commands'[i]
      \/ moving'[m] = t
  BY DEF Motions
<1>8. CASE ServeRegister \/ ServeUnregister \/ ServeRead \/ ServePrestartAll
  <2>1. requests # <<>> /\ requests' = Tail(requests) /\ UNCHANGED <<buffer, commands, moving>>
    BY <1>8 DEF ServeRegister, ServeUnregister, ServeRead, ServePrestartAll, Serve, serverVars
  <2>. QED
    BY <1>4, <1>6, <1>7, <2>1
<1>9. CASE ServeStartOne
  <2>1. PICK motion : motion = <<Head(requests).property, Head(requests).by>>
    OBVIOUS
  <2>2. /\ requests # <<>> /\ requests' = Tail(requests) /\ moving' = moving
        /\ Head(requests).command = "start_one"
        /\ \/ buffer' = buffer \cup {motion} /\ commands' = commands
           \/ commands' = Append(commands, {motion}) /\ buffer' = buffer
    BY <1>9, <2>1 DEF ServeStartOne, Serve
  <2>3. <<m, t>> = motion => Sent(requests)
    BY <1>5, <2>1, <2>2
  <2>4. CASE buffer' = buffer \cup {motion} /\ commands' = commands
    BY <1>4, <1>6, <1>7, <2>2, <2>3, <2>4
  <2>5. CASE commands' = Append(commands, {motion}) /\ buffer' = buffer
    <3>1. ASSUME NEW i \in DOMAIN commands', <<m, t>> \in commands'[i]
          PROVE  t \in Motions(m)
      <4>1. (i \in DOMAIN commands /\ commands'[i] = commands[i]) \/ commands'[i] = {motion}
        BY <1>3, <2>5
      <4>. QED
        BY <1>6, <2>3, <3>1, <4>1
    <3>. QED
      BY <1>4, <1>6, <1>7, <2>2, <2>5, <3>1
  <2>. QED
    BY <2>2, <2>4, <2>5
<1>10. CASE ServeStartAll
  <2>1. /\ requests # <<>> /\ requests' = Tail(requests) /\ moving' = moving /\ buffer' = {}
        /\ commands' = commands \/ commands' = Append(commands, buffer)
    BY <1>10 DEF ServeStartAll, Serve
  <2>2. ASSUME NEW i \in DOMAIN commands', <<m, t>> \in commands'[i]
        PROVE  t \in Motions(m)
    <3>1. (i \in DOMAIN commands /\ commands'[i] = commands[i]) \/ commands'[i] = buffer
      BY <1>3, <2>1
    <3>. QED
      BY <1>6, <2>2, <3>1
  <2>. QED
    BY <1>4, <1>6, <1>7, <2>1, <2>2
<1>11. CASE ServeAbortAll
  <2>1. /\ requests # <<>> /\ requests' = Tail(requests) /\ buffer' = {} /\ commands' = <<>>
        /\ moving'[m] = None
    BY <1>11 DEF ServeAbortAll, Serve
  <2>. QED
    BY <1>3, <1>4, <1>6, <1>7, <2>1
<1>12. CASE Execute
  <2>1. /\ commands # <<>> /\ commands' = Tail(commands) /\ UNCHANGED <<requests, buffer>>
        /\ moving' = [n \in Motors |->
                        IF \E x \in Head(commands) : x[1] = n
                          THEN (CHOOSE x \in Head(commands) : x[1] = n)[2] ELSE moving[n]]
    BY <1>12 DEF Execute
  <2>2. /\ 1 \in DOMAIN commands /\ Head(commands) = commands[1] /\ Head(commands) \in Batch
        /\ \A i \in DOMAIN Tail(commands) : i + 1 \in DOMAIN commands
                                            /\ Tail(commands)[i] = commands[i + 1]
    BY <1>3, <2>1, TailElements
  <2>3. ASSUME NEW i \in DOMAIN commands', <<m, t>> \in commands'[i]
        PROVE  t \in Motions(m)
    BY <1>6, <2>1, <2>2, <2>3
  <2>4. ASSUME moving'[m] = t
        PROVE  t \in Motions(m)
    <3>1. CASE \E x \in Head(commands) : x[1] = m
      <4>1. PICK x \in Head(commands) : x[1] = m /\ x[2] = t
        BY <2>1, <2>4, <3>1
      <4>2. x = <<m, t>>
        BY <1>2, <2>2, <4>1 DEF Motion
      <4>. QED
        BY <1>6, <2>2, <4>1, <4>2
    <3>2. CASE ~\E x \in Head(commands) : x[1] = m
      BY <1>6, <2>1, <2>4, <3>2
    <3>. QED
      BY <3>1, <3>2
  <2>. QED
    BY <1>6, <1>7, <2>1, <2>3, <2>4
<1>13. ASSUME NEW n \in Motors, Stop(n)
       PROVE  t \in Motions(m)
  <2>1. UNCHANGED <<requests, buffer, commands>> /\ moving'[m] \in {None, moving[m]}
    BY <1>13 DEF Stop, Inv, TypeOK
  <2>. QED
    BY <1>3, <1>6, <1>7, <2>1
<1>. QED
  BY <1>8, <1>9, <1>10, <1>11, <1>12, <1>13 DEF ServerStep

LEMMA PlacedTail ==
  ASSUME WireOK, NEW m, NEW t, Placed(m, t), requests # <<>>, requests' = Tail(requests),
         ~IsStart(Head(requests), m), UNCHANGED <<buffer, commands, moving>>
  PROVE  Placed(m, t)'
<1>1. requests \in Seq(Message)
  BY DEF WireOK
<1>2. /\ StartsOnce(requests, m, t) => StartsOnce(requests, m, t)'
      /\ NoStart(requests, m) => NoStart(requests, m)'
      /\ NoRegister(requests, m) => NoRegister(requests, m)'
  BY <1>1, TailRequests
<1>3. SentOnly(m, t) => SentOnly(m, t)'
  BY <1>2 DEF SentOnly, NoneCollected, NoneQueued
<1>4. Received(m, t) => Received(m, t)'
  BY <1>2 DEF Received, NoneCollected, NoneQueued, Collected, Queued
<1>. QED
  BY <1>3, <1>4 DEF Placed

\* A batch at the end of the queue, and the head of the queue gone.
LEMMA QueueAppend ==
  ASSUME NEW Batch, commands \in Seq(Batch), NEW b \in Batch, commands' = Append(commands, b),
         NEW m, NEW t
  PROVE  /\ NoneQueued(m) /\ (\A x \in b : x[1] # m) => NoneQueued(m)'
         /\ Queued(m, t) /\ (\A x \in b : x[1] # m) => Queued(m, t)'
         /\ NoneQueued(m) /\ <<m, t>> \in b /\ (\A x \in b : x[1] = m => x = <<m, t>>) =>
               Queued(m, t)'
<1>1. PICK c : c = Append(commands, b)
  OBVIOUS
<1>2. /\ \A i \in DOMAIN commands : i \in DOMAIN c /\ c[i] = commands[i]
      /\ Len(commands) + 1 \in DOMAIN c /\ c[Len(commands) + 1] = b
      /\ \A i \in DOMAIN c : i \in DOMAIN commands \/ i = Len(commands) + 1
  BY <1>1
<1>3. NoneQueued(m) /\ (\A x \in b : x[1] # m) => NoneQueued(m)'
  BY <1>1, <1>2 DEF NoneQueued
<1>4. ASSUME Queued(m, t), \A x \in b : x[1] # m
      PROVE  Queued(m, t)'
  <2>1. PICK j \in DOMAIN commands :
           /\ <<m, t>> \in commands[j]
           /\ \A i \in DOMAIN commands : \A x \in commands[i] : x[1] = m => i = j /\ x = <<m, t>>
    BY <1>4 DEF Queued
  <2>2. j \in DOMAIN c /\ <<m, t>> \in c[j]
    BY <1>2, <2>1
  <2>3. \A i \in DOMAIN c : \A x \in c[i] : x[1] = m => i = j /\ x = <<m, t>>
    BY <1>2, <1>4, <2>1
  <2>. QED
    BY <1>1, <2>2, <2>3 DEF Queued
<1>5. ASSUME NoneQueued(m), <<m, t>> \in b, \A x \in b : x[1] = m => x = <<m, t>>
      PROVE  Queued(m, t)'
  <2>1. \A i \in DOMAIN c : \A x \in c[i] :
           x[1] = m => i = Len(commands) + 1 /\ x = <<m, t>>
    BY <1>2, <1>5 DEF NoneQueued
  <2>2. Len(commands) + 1 \in DOMAIN c /\ <<m, t>> \in c[Len(commands) + 1]
    BY <1>2, <1>5
  <2>. QED
    BY <1>1, <2>1, <2>2 DEF Queued
<1>. QED
  BY <1>3, <1>4, <1>5

LEMMA QueueTail ==
  ASSUME NEW Batch, commands \in Seq(Batch), commands # <<>>, commands' = Tail(commands),
         NEW m, NEW t
  PROVE  /\ NoneQueued(m) => NoneQueued(m)' /\ \A x \in Head(commands) : x[1] # m
         /\ Queued(m, t) =>
               \/ /\ NoneQueued(m)' /\ <<m, t>> \in Head(commands)
                  /\ \A x \in Head(commands) : x[1] = m => x = <<m, t>>
               \/ Queued(m, t)' /\ \A x \in Head(commands) : x[1] # m
<1>1. PICK c : c = Tail(commands)
  OBVIOUS
<1>2. /\ 1 \in DOMAIN commands /\ Head(commands) = commands[1]
      /\ \A i \in DOMAIN c : i + 1 \in DOMAIN commands /\ c[i] = commands[i + 1]
      /\ \A i \in DOMAIN commands : i # 1 => i - 1 \in DOMAIN c /\ c[i - 1] = commands[i]
      /\ DOMAIN commands = 1..Len(commands) /\ Len(commands) \in Nat
      /\ DOMAIN c = 1..(Len(commands) - 1)
  BY <1>1, TailElements
<1>3. NoneQueued(m) => NoneQueued(m)' /\ \A x \in Head(commands) : x[1] # m
  BY <1>1, <1>2 DEF NoneQueued
<1>4. ASSUME Queued(m, t)
      PROVE  \/ /\ NoneQueued(m)' /\ <<m, t>> \in Head(commands)
                /\ \A x \in Head(commands) : x[1] = m => x = <<m, t>>
             \/ Queued(m, t)' /\ \A x \in Head(commands) : x[1] # m
  <2>1. PICK j \in DOMAIN commands :
           /\ <<m, t>> \in commands[j]
           /\ \A i \in DOMAIN commands : \A x \in commands[i] : x[1] = m => i = j /\ x = <<m, t>>
    BY <1>4 DEF Queued
  <2>2. CASE j = 1
    <3>1. \A i \in DOMAIN c : i + 1 # 1
      BY <1>2
    <3>2. NoneQueued(m)'
      BY <1>1, <1>2, <2>1, <2>2, <3>1 DEF NoneQueued
    <3>. QED
      BY <1>2, <2>1, <2>2, <3>2
  <2>3. CASE j # 1
    <3>1. j - 1 \in DOMAIN c /\ <<m, t>> \in c[j - 1]
      BY <1>2, <2>1, <2>3
    <3>2. \A i \in DOMAIN c : \A x \in c[i] : x[1] = m => i = j - 1 /\ x = <<m, t>>
      BY <1>2, <2>1
    <3>3. Queued(m, t)'
      BY <1>1, <3>1, <3>2 DEF Queued
    <3>. QED
      BY <1>2, <2>1, <2>3, <3>3
  <2>. QED
    BY <2>2, <2>3
<1>. QED
  BY <1>3, <1>4

LEMMA PlacedServer ==
  ASSUME Inv, ServerStep, NEW t \in Tasks, NEW m \in Motors, Placed(m, t), t \in Motions(m)'
  PROVE  Placed(m, t)'
<1>1. /\ requests \in Seq(Message) /\ commands \in Seq(SUBSET Motion) /\ buffer \subseteq Motion
      /\ moving \in [Motors -> Tasks \cup {None}] /\ WireOK
  BY DEF Inv, WireOK, TypeOK
<1>2. PICK Batch : Batch = SUBSET Motion
  OBVIOUS
<1>3. commands \in Seq(Batch) /\ t # None /\ buffer \in Batch
  BY <1>1, <1>2, MotorsAssumption
<1>4. requests # <<>> =>
         /\ NoStart(requests, m) => NoStart(Tail(requests), m) /\ ~IsStart(Head(requests), m)
         /\ NoRegister(requests, m) => NoRegister(Tail(requests), m)
         /\ StartsOnce(requests, m, t) /\ ~IsStart(Head(requests), m) =>
                StartsOnce(Tail(requests), m, t)
         /\ StartsOnce(requests, m, t) /\ IsStart(Head(requests), m) =>
                /\ Head(requests) = StartOne(m, t)
                /\ NoStart(Tail(requests), m) /\ NoRegister(Tail(requests), m)
  <2>1. requests # <<>> => 1 \in DOMAIN requests /\ Head(requests) = requests[1]
    BY <1>1, TailElements
  <2>2. requests # <<>> /\ NoStart(requests, m) => ~IsStart(Head(requests), m)
    BY <2>1 DEF NoStart
  <2>. QED
    BY <1>1, <2>2, TailRequests
<1>5. CASE ServeRegister \/ ServeUnregister \/ ServeRead \/ ServePrestartAll
  <2>1. /\ requests # <<>> /\ requests' = Tail(requests) /\ UNCHANGED <<buffer, commands, moving>>
        /\ Head(requests).command # "start_one"
    BY <1>5 DEF ServeRegister, ServeUnregister, ServeRead, ServePrestartAll, Serve, serverVars
  <2>. QED
    BY <1>1, <2>1, PlacedTail DEF IsStart
<1>6. CASE ServeStartOne
  <2>1. PICK motion : motion = <<Head(requests).property, Head(requests).by>>
    OBVIOUS
  <2>2. /\ requests # <<>> /\ requests' = Tail(requests) /\ moving' = moving
        /\ Head(requests).command = "start_one"
        /\ \/ buffer' = buffer \cup {motion} /\ commands' = commands
           \/ commands' = Append(commands, {motion}) /\ buffer' = buffer
    BY <1>6, <2>1 DEF ServeStartOne, Serve
  <2>3. {motion} \in Batch
    <3>1. Head(requests) \in Message
      BY <1>1, <2>2
    <3>2. motion \in Motion
      BY <2>1, <2>2, <3>1, MessageKinds, TasksApart DEF Motion
    <3>. QED
      BY <1>2, <3>2
  <2>4. CASE ~IsStart(Head(requests), m)
    <3>1. motion[1] # m
      BY <2>1, <2>2, <2>4 DEF IsStart
    <3>2. /\ NoneQueued(m) => NoneQueued(m)'
          /\ Queued(m, t) => Queued(m, t)'
      <4>1. CASE commands' = Append(commands, {motion})
        <5>1. PICK b \in Batch : b = {motion}
          BY <2>3
        <5>2. commands' = Append(commands, b) /\ \A x \in b : x[1] # m
          BY <3>1, <4>1, <5>1
        <5>. QED
          BY <1>3, <5>2, QueueAppend
      <4>2. CASE commands' = commands
        BY <4>2 DEF NoneQueued, Queued
      <4>. QED
        BY <2>2, <4>1, <4>2
    <3>3. /\ NoneCollected(m) => NoneCollected(m)'
          /\ Collected(m, t) => Collected(m, t)'
      BY <2>2, <3>1 DEF NoneCollected, Collected
    <3>4. SentOnly(m, t) => SentOnly(m, t)'
      BY <1>4, <2>2, <2>4, <3>2, <3>3 DEF SentOnly
    <3>5. Received(m, t) => Received(m, t)'
      BY <1>4, <2>2, <3>2, <3>3 DEF Received
    <3>. QED
      BY <3>4, <3>5 DEF Placed
  <2>5. CASE IsStart(Head(requests), m)
    <3>1. SentOnly(m, t)
      BY <1>4, <2>2, <2>5 DEF Placed, Received
    <3>2. /\ Head(requests) = StartOne(m, t)
          /\ NoStart(requests, m)' /\ NoRegister(requests, m)'
      BY <1>4, <2>2, <2>5, <3>1 DEF SentOnly
    <3>3. motion = <<m, t>>
      BY <2>1, <3>2 DEF StartOne, Msg
    <3>4. CASE buffer' = buffer \cup {motion} /\ commands' = commands
      BY <2>2, <3>1, <3>2, <3>3, <3>4
         DEF SentOnly, NoneCollected, NoneQueued, Collected, Received, Placed
    <3>5. CASE commands' = Append(commands, {motion}) /\ buffer' = buffer
      <4>1. Queued(m, t)'
        <5>1. PICK b \in Batch : b = {motion}
          BY <2>3
        <5>2. commands' = Append(commands, b) /\ <<m, t>> \in b
              /\ \A x \in b : x[1] = m => x = <<m, t>>
          BY <3>3, <3>5, <5>1
        <5>. QED
          BY <1>3, <3>1, <5>2, QueueAppend DEF SentOnly
      <4>. QED
        BY <2>2, <3>1, <3>2, <3>5, <4>1 DEF SentOnly, NoneCollected, Received, Placed
    <3>. QED
      BY <2>2, <3>4, <3>5
  <2>. QED
    BY <2>4, <2>5
<1>7. CASE ServeStartAll
  <2>1. /\ requests # <<>> /\ requests' = Tail(requests) /\ moving' = moving /\ buffer' = {}
        /\ commands' = IF buffer = {} THEN commands ELSE Append(commands, buffer)
        /\ ~IsStart(Head(requests), m)
    BY <1>7 DEF ServeStartAll, Serve, IsStart
  <2>2. NoneCollected(m)'
    BY <2>1 DEF NoneCollected
  <2>3. NoneCollected(m) =>
           /\ NoneQueued(m) => NoneQueued(m)'
           /\ Queued(m, t) => Queued(m, t)'
    <3>1. CASE buffer = {}
      BY <2>1, <3>1 DEF NoneQueued, Queued
    <3>2. CASE buffer # {}
      BY <1>3, <2>1, <3>2, QueueAppend DEF NoneCollected
    <3>. QED
      BY <3>1, <3>2
  <2>4. Collected(m, t) /\ NoneQueued(m) => Queued(m, t)'
    <3>1. Collected(m, t) => buffer # {}
      BY DEF Collected
    <3>. QED
      BY <1>3, <2>1, <3>1, QueueAppend DEF Collected
  <2>5. SentOnly(m, t) => SentOnly(m, t)'
    BY <1>4, <2>1, <2>2, <2>3 DEF SentOnly
  <2>6. Received(m, t) => Received(m, t)'
    BY <1>4, <2>1, <2>2, <2>3, <2>4 DEF Received
  <2>. QED
    BY <2>5, <2>6 DEF Placed
<1>8. CASE ServeAbortAll
  <2>1. /\ requests # <<>> /\ requests' = Tail(requests) /\ buffer' = {} /\ commands' = <<>>
        /\ moving'[m] = None /\ ~IsStart(Head(requests), m)
    BY <1>8 DEF ServeAbortAll, Serve, IsStart
  <2>2. NoneCollected(m)' /\ NoneQueued(m)'
    BY <2>1 DEF NoneCollected, NoneQueued
  <2>3. SentOnly(m, t) => SentOnly(m, t)'
    BY <1>4, <2>1, <2>2 DEF SentOnly
  <2>4. ~Received(m, t)
    <3>. SUFFICES ASSUME Received(m, t) PROVE FALSE
      OBVIOUS
    <3>1. NoStart(requests, m)'
      BY <1>4, <2>1 DEF Received
    <3>2. <<m, t>> \notin buffer' /\ \A i \in DOMAIN commands' : <<m, t>> \notin commands'[i]
      BY <2>1
    <3>. QED
      BY <1>3, <2>1, <3>1, <3>2 DEF Motions, NoStart, IsStart
  <2>. QED
    BY <2>3, <2>4 DEF Placed
<1>9. CASE Execute
  <2>1. /\ commands # <<>> /\ commands' = Tail(commands) /\ UNCHANGED <<requests, buffer>>
        /\ moving'[m] = IF \E x \in Head(commands) : x[1] = m
                          THEN (CHOOSE x \in Head(commands) : x[1] = m)[2] ELSE moving[m]
    BY <1>9 DEF Execute
  <2>2. /\ NoneQueued(m) => NoneQueued(m)' /\ \A x \in Head(commands) : x[1] # m
        /\ Queued(m, t) =>
              \/ /\ NoneQueued(m)' /\ <<m, t>> \in Head(commands)
                 /\ \A x \in Head(commands) : x[1] = m => x = <<m, t>>
              \/ Queued(m, t)' /\ \A x \in Head(commands) : x[1] # m
    BY <1>3, <2>1, QueueTail
  <2>3. (\A x \in Head(commands) : x[1] # m) => moving'[m] = moving[m]
    BY <2>1
  <2>4. ASSUME <<m, t>> \in Head(commands), \A x \in Head(commands) : x[1] = m => x = <<m, t>>
        PROVE  moving'[m] = t
    <3>1. \E x \in Head(commands) : x[1] = m
      BY <2>4
    <3>2. PICK c : c = CHOOSE y \in Head(commands) : y[1] = m
      OBVIOUS
    <3>3. c \in Head(commands) /\ c[1] = m
      BY <3>1, <3>2
    <3>4. c[2] = t
      BY <2>4, <3>3
    <3>. QED
      BY <2>1, <3>1, <3>2, <3>4
  <2>5. /\ NoneCollected(m)' = NoneCollected(m) /\ Collected(m, t)' = Collected(m, t)
        /\ NoStart(requests, m)' = NoStart(requests, m)
        /\ NoRegister(requests, m)' = NoRegister(requests, m)
        /\ StartsOnce(requests, m, t)' = StartsOnce(requests, m, t)
    BY <2>1 DEF NoneCollected, Collected
  <2>6. SentOnly(m, t) => SentOnly(m, t)'
    BY <2>2, <2>3, <2>5 DEF SentOnly
  <2>7. Received(m, t) => Received(m, t)'
    BY <2>2, <2>3, <2>4, <2>5 DEF Received
  <2>. QED
    BY <2>6, <2>7 DEF Placed
<1>10. ASSUME NEW n \in Motors, Stop(n)
       PROVE  Placed(m, t)'
  <2>1. UNCHANGED <<requests, buffer, commands>> /\ moving[n] # None
        /\ moving' = [moving EXCEPT ![n] = None]
    BY <1>10 DEF Stop
  <2>2. CASE n # m
    BY <1>1, <2>1, <2>2 DEF Placed, SentOnly, Received, NoneCollected, NoneQueued, Collected, Queued
  <2>3. CASE n = m
    <3>1. /\ NoStart(requests, m) /\ NoneCollected(m) /\ NoneQueued(m)
      BY <2>1, <2>3 DEF Placed, SentOnly, Received
    <3>2. moving'[m] # t
      BY <1>1, <1>3, <2>1, <2>3
    <3>3. <<m, t>> \notin buffer /\ \A i \in DOMAIN commands : <<m, t>> \notin commands[i]
      BY <3>1 DEF NoneCollected, NoneQueued
    <3>. QED
      BY <2>1, <3>1, <3>2, <3>3 DEF Motions, NoStart, IsStart
  <2>. QED
    BY <2>2, <2>3
<1>. QED
  BY <1>5, <1>6, <1>7, <1>8, <1>9, <1>10 DEF ServerStep

(***************************************************************************)
(* What the server tells the client leaves a motion that goes on unheard.  *)
(***************************************************************************)
LEMMA UnheardTells ==
  ASSUME WireOK, NEW m, NEW s, Unheard(m, s), UNCHANGED <<initialized, listening>>,
         NEW x \in Seq(Notice), events' = events \o x, NoStand(x, m),
         NoRegister(requests, m) \/ NoEvent(x, m),
         requests' = requests \/ (requests # <<>> /\ requests' = Tail(requests))
  PROVE  Unheard(m, s)'
<1>1. requests \in Seq(Message) /\ events \in Seq(Notice)
  BY DEF WireOK
<1>2. Deaf(s)' = Deaf(s)
  BY DEF Deaf
<1>3. /\ StandFirst(events, m)'
      /\ NoStand(events, m) => NoStand(events, m)'
      /\ NoEvent(events, m) /\ NoEvent(x, m) => NoEvent(events, m)'
  BY <1>1, ConcatOnce, ConcatRequests DEF Unheard
<1>4. /\ NoRegister(requests, m) => NoRegister(requests, m)'
      /\ OneRegister(requests, m) => OneRegister(requests, m)'
  BY <1>1, TailRequests
<1>. QED
  BY <1>2, <1>3, <1>4 DEF Unheard

LEMMA UnheardRegister ==
  ASSUME Inv, NEW t \in Tasks, NEW m \in Motors, NEW s, Placed(m, t), Unheard(m, s),
         UNCHANGED <<initialized, listening>>, ServeRegister
  PROVE  Unheard(m, s)'
<1>1. /\ requests \in Seq(Message) /\ events \in Seq(Notice) /\ WireOK
      /\ requests # <<>> /\ requests' = Tail(requests) /\ Head(requests).command = "REGISTER"
      /\ Head(requests) \in Message
  BY DEF Inv, WireOK, ServeRegister, Serve
<1>2. PICK n \in Motors : n = Head(requests).property /\ Head(requests) = Register(n)
  BY <1>1, MessageKinds DEF Register
<1>3. PICK e : e = Event("EVENT", n, moving[n] # None, None)
  OBVIOUS
<1>4. e \in Notice
  BY <1>3 DEF Event, Notice
<1>5. events' = events \o <<e>>
  BY <1>1, <1>2, <1>3, <1>4 DEF ServeRegister
<1>6. PICK x \in Seq(Notice) : x = <<e>>
  BY <1>4, OneElement
<1>7. DOMAIN x = {1} /\ x[1] = e /\ events' = events \o x
  BY <1>5, <1>6
<1>8. CASE n # m
  <2>1. ~IsEvent(e, m)
    BY <1>3, <1>8 DEF IsEvent, Event
  <2>2. NoEvent(x, m) /\ NoStand(x, m)
    BY <1>7, <2>1 DEF NoEvent, NoStand, IsStand
  <2>. QED
    BY <1>1, <1>7, <2>2, UnheardTells
<1>9. CASE n = m
  <2>1. ~NoRegister(requests, m)
    BY <1>1, <1>2, <1>9, TailElements DEF NoRegister
  <2>2. Deaf(s) /\ OneRegister(requests, m) /\ NoEvent(events, m)
    BY <2>1 DEF Unheard
  <2>3. StandFirst(x, m)
    BY <1>7 DEF StandFirst
  <2>4. StandFirst(events, m)'
    BY <1>1, <1>7, <2>2, <2>3, ConcatOnce
  <2>5. NoRegister(requests, m)'
    BY <1>1, <1>2, <1>9, <2>2, TailRequests
  <2>6. Deaf(s)'
    BY <2>2 DEF Deaf
  <2>. QED
    BY <2>4, <2>5, <2>6 DEF Unheard
<1>. QED
  BY <1>8, <1>9

LEMMA UnheardServer ==
  ASSUME Inv, ServerStep, NEW t \in Tasks, NEW m \in Motors, NEW s, Placed(m, t),
         Unheard(m, s), t \in Motions(m)', UNCHANGED <<initialized, listening>>
  PROVE  Unheard(m, s)'
<1>1. /\ requests \in Seq(Message) /\ events \in Seq(Notice) /\ WireOK
      /\ commands \in Seq(SUBSET Motion) /\ moving \in [Motors -> Tasks \cup {None}]
      /\ buffer \subseteq Motion /\ registered \subseteq Motors
  BY DEF Inv, WireOK, TypeOK
<1>2. t # None
  BY MotorsAssumption
<1>3. CASE ServeRegister
  BY <1>3, UnheardRegister
<1>4. CASE ServeUnregister \/ ServePrestartAll \/ ServeStartOne \/ ServeStartAll
  <2>1. requests # <<>> /\ requests' = Tail(requests) /\ events' = events
    BY <1>4 DEF ServeUnregister, ServePrestartAll, ServeStartOne, ServeStartAll, Serve
  <2>2. <<>> \in Seq(Notice) /\ events' = events \o <<>>
    BY <1>1, <2>1
  <2>3. NoEvent(<<>>, m) /\ NoStand(<<>>, m)
    BY DEF NoEvent, NoStand
  <2>. QED
    BY <1>1, <2>1, <2>2, <2>3, UnheardTells
<1>5. CASE ServeRead
  <2>1. requests # <<>> /\ Head(requests) \in Message /\ Head(requests).command = "CHAN_READ"
        /\ requests' = Tail(requests)
    BY <1>1, <1>5 DEF ServeRead, Serve
  <2>2. Head(requests).property \in Motors /\ Head(requests).by \in Waits
    BY <2>1, MessageKinds
  <2>3. PICK e : e = Event("REPLY", Head(requests).property,
                           moving[Head(requests).property] # None, Head(requests).by)
    OBVIOUS
  <2>4. e \in Notice /\ ~IsEvent(e, m)
    BY <2>2, <2>3 DEF Event, Notice, IsEvent
  <2>5. events' = events \o <<e>>
    BY <1>1, <1>5, <2>3, <2>4 DEF ServeRead
  <2>6. PICK x \in Seq(Notice) : x = <<e>>
    BY <2>4, OneElement
  <2>7. NoEvent(x, m) /\ NoStand(x, m)
    BY <2>4, <2>6 DEF NoEvent, NoStand, IsStand
  <2>. QED
    BY <1>1, <2>1, <2>5, <2>6, <2>7, UnheardTells
<1>6. CASE ServeAbortAll
  <2>1. requests # <<>> /\ requests' = Tail(requests) /\ moving'[m] = None /\ buffer' = {}
        /\ commands' = <<>>
        /\ events' = events \o TellAll({n \in Motors : moving[n] # None}, FALSE)
    BY <1>6 DEF ServeAbortAll, Serve
  <2>2. moving[m] = None
    <3>1. SentOnly(m, t) \/ Received(m, t)
      BY DEF Placed
    <3>2. ~Received(m, t)
      <4>. SUFFICES ASSUME Received(m, t) PROVE FALSE
        OBVIOUS
      <4>1. NoStart(requests, m)'
        BY <1>1, <2>1, TailRequests DEF Received
      <4>2. <<m, t>> \notin buffer' /\ \A i \in DOMAIN commands' : <<m, t>> \notin commands'[i]
        BY <2>1
      <4>. QED
        BY <1>2, <2>1, <4>1, <4>2 DEF Motions, NoStart, IsStart
    <3>. QED
      BY <3>1, <3>2 DEF SentOnly
  <2>3. PICK ms \in SUBSET Motors : ms = {n \in Motors : moving[n] # None}
    OBVIOUS
  <2>4. PICK x \in Seq(Notice) : x = TellAll(ms, FALSE)
    BY TellElements
  <2>5. NoEvent(x, m)
    BY <2>2, <2>3, <2>4, TellElements
  <2>6. NoStand(x, m)
    BY <2>5 DEF NoEvent, NoStand, IsStand
  <2>. QED
    BY <1>1, <2>1, <2>3, <2>4, <2>5, <2>6, UnheardTells
<1>7. CASE Execute
  <2>1. /\ commands # <<>> /\ requests' = requests
        /\ events' = events \o TellAll({x[1] : x \in Head(commands)}, TRUE)
    BY <1>7 DEF Execute
  <2>2. Head(commands) \subseteq Motion /\ 1 \in DOMAIN commands /\ Head(commands) = commands[1]
    BY <1>1, <2>1, EmptySeq
  <2>3. PICK ms \in SUBSET Motors : ms = {x[1] : x \in Head(commands)}
    <3>1. {x[1] : x \in Head(commands)} \in SUBSET Motors
      BY <2>2 DEF Motion
    <3>. QED
      BY <3>1
  <2>4. PICK x \in Seq(Notice) : x = TellAll(ms, TRUE)
    BY TellElements
  <2>5. NoStand(x, m)
    BY <2>4, TellElements
  <2>6. NoRegister(requests, m) \/ NoEvent(x, m)
    <3>1. CASE Received(m, t)
      BY <3>1 DEF Received
    <3>2. CASE SentOnly(m, t)
      <4>1. m \notin ms
        BY <2>2, <2>3, <3>2 DEF SentOnly, NoneQueued
      <4>. QED
        BY <2>4, <4>1, TellElements
    <3>. QED
      BY <3>1, <3>2 DEF Placed
  <2>. QED
    BY <1>1, <2>1, <2>3, <2>4, <2>5, <2>6, UnheardTells
<1>8. ASSUME NEW n \in Motors, Stop(n)
      PROVE  Unheard(m, s)'
  <2>1. /\ moving[n] # None /\ moving' = [moving EXCEPT ![n] = None]
        /\ UNCHANGED <<requests, buffer, commands>> /\ events' = events \o Tell(n, FALSE, n)
    BY <1>8 DEF Stop
  <2>2. n # m
    <3>. SUFFICES ASSUME n = m PROVE FALSE
      OBVIOUS
    <3>1. NoStart(requests, m) /\ NoneCollected(m) /\ NoneQueued(m)
      BY <2>1 DEF Placed, SentOnly, Received
    <3>2. moving'[m] # t
      BY <1>1, <1>2, <2>1
    <3>3. <<m, t>> \notin buffer /\ \A i \in DOMAIN commands : <<m, t>> \notin commands[i]
      BY <3>1 DEF NoneCollected, NoneQueued
    <3>. QED
      BY <2>1, <3>1, <3>2, <3>3 DEF Motions, NoStart, IsStart
  <2>3. PICK x \in Seq(Notice) : x = Tell(n, FALSE, n)
    BY TellElements
  <2>4. NoEvent(x, m)
    BY <2>2, <2>3, TellElements
  <2>5. NoStand(x, m)
    BY <2>4 DEF NoEvent, NoStand, IsStand
  <2>. QED
    BY <1>1, <2>1, <2>3, <2>4, <2>5, UnheardTells
<1>. QED
  BY <1>3, <1>4, <1>5, <1>6, <1>7, <1>8 DEF ServerStep

LEMMA GroupsServer ==
  ASSUME Inv, Groups, ServerStep, UNCHANGED <<streamVars, taskVars>>
  PROVE  Groups'
<1>1. requests \in Seq(Message) /\ events \in Seq(Notice)
  BY DEF Inv, WireOK
<1>2. PICK x \in Seq(Notice) :
         /\ events' = events \o x
         /\ \/ UNCHANGED <<requests, registered>>
            \/ /\ requests # <<>> /\ requests' = Tail(requests)
               /\ \A m : m \in registered' =>
                     m \in registered \/ Head(requests) = Register(m)
         /\ \A m \in Motors :
               /\ m \notin registered \cup registered' => NoEvent(x, m)
               /\ \A i \in DOMAIN x : IsEvent(x[i], m) /\ x[i].by = None =>
                     /\ requests # <<>> /\ requests' = Tail(requests)
                     /\ Head(requests) = Register(m) /\ i = 1
  BY ServerTells
<1>3. \A m : /\ NoRegister(requests, m) =>
                  /\ NoRegister(requests, m)'
                  /\ requests # <<>> => Head(requests) # Register(m)
             /\ OneRegister(requests, m) => OneRegister(requests, m)'
             /\ OneRegister(requests, m) /\ requests # <<>> /\ requests' = Tail(requests)
                   /\ Head(requests) = Register(m) => NoRegister(requests, m)'
             /\ NoEvent(events, m) /\ NoEvent(x, m) => NoEvent(events, m)'
             /\ Quiet(m)' = Quiet(m)
  <2>1. ASSUME NEW m, NoRegister(requests, m), requests # <<>>
        PROVE  Head(requests) # Register(m)
    BY <1>1, <2>1, TailElements DEF NoRegister
  <2>2. ASSUME NEW m
        PROVE  Quiet(m)' = Quiet(m)
    BY DEF Quiet, streamVars
  <2>3. ASSUME NEW m, requests # <<>>, requests' = Tail(requests)
        PROVE  /\ NoRegister(requests, m) => NoRegister(requests, m)'
               /\ OneRegister(requests, m) => OneRegister(requests, m)'
               /\ OneRegister(requests, m) /\ Head(requests) = Register(m) =>
                     NoRegister(requests, m)'
    BY <1>1, <2>3, TailRequests
  <2>4. ASSUME NEW m, requests' = requests
        PROVE  /\ NoRegister(requests, m) => NoRegister(requests, m)'
               /\ OneRegister(requests, m) => OneRegister(requests, m)'
    BY <2>4
  <2>5. ASSUME NEW m, NoEvent(events, m), NoEvent(x, m)
        PROVE  NoEvent(events, m)'
    BY <1>1, <1>2, <2>5, ConcatRequests
  <2>. QED
    BY <1>2, <2>1, <2>2, <2>3, <2>4, <2>5
<1>4. /\ \A i \in DOMAIN events' : i \in DOMAIN events \/ \E k \in DOMAIN x : i = Len(events) + k
      /\ \A i \in DOMAIN events : i \in DOMAIN events' /\ events'[i] = events[i]
      /\ \A i \in DOMAIN x : Len(events) + i \in DOMAIN events' /\ events'[Len(events) + i] = x[i]
      /\ DOMAIN events = 1..Len(events) /\ Len(events) \in Nat
  BY <1>1, <1>2, ConcatElements
<1>5. ASSUME NEW m \in Motors, Unused(m)
      PROVE  Unused(m)'
  <2>1. m \notin registered \cup registered'
    BY <1>2, <1>3, <1>5 DEF Unused
  <2>. QED
    BY <1>2, <1>3, <1>5, <2>1 DEF Unused
<1>6. ASSUME NEW m \in Motors, Echoed(m)
      PROVE  Echoed(m)'
  <2>1. NoRegister(requests, m)' \/ /\ OneRegister(requests, m)' /\ m \notin registered'
                                    /\ NoEvent(events, m)' /\ Quiet(m)'
    <3>1. CASE NoRegister(requests, m)
      BY <1>3, <3>1
    <3>2. CASE ~NoRegister(requests, m)
      <4>1. /\ OneRegister(requests, m) /\ m \notin registered
            /\ NoEvent(events, m) /\ Quiet(m)
        BY <1>6, <3>2 DEF Echoed
      <4>2. CASE requests # <<>> /\ requests' = Tail(requests) /\ Head(requests) = Register(m)
        BY <1>3, <4>1, <4>2
      <4>3. CASE m \notin registered'
        BY <1>2, <1>3, <4>1, <4>3
      <4>. QED
        BY <1>2, <4>1, <4>2, <4>3
    <3>. QED
      BY <3>1, <3>2
  <2>2. ASSUME NEW i \in DOMAIN events', IsEvent(events'[i], m), events'[i].by = None
        PROVE  /\ NoRegister(requests, m)' /\ Quiet(m)'
               /\ \A k \in 1..(i - 1) : ~IsEvent(events'[k], m)
    <3>1. CASE i \in DOMAIN events
      <4>1. /\ NoRegister(requests, m) /\ Quiet(m)
            /\ \A k \in 1..(i - 1) : ~IsEvent(events[k], m)
        BY <1>4, <1>6, <2>2, <3>1 DEF Echoed
      <4>2. \A k \in 1..(i - 1) : k \in DOMAIN events
        BY <1>4, <3>1
      <4>. QED
        BY <1>3, <1>4, <4>1, <4>2
    <3>2. ASSUME NEW j \in DOMAIN x, i = Len(events) + j
          PROVE  /\ NoRegister(requests, m)' /\ Quiet(m)'
                 /\ \A k \in 1..(i - 1) : ~IsEvent(events'[k], m)
      <4>1. /\ requests # <<>> /\ requests' = Tail(requests)
            /\ Head(requests) = Register(m) /\ j = 1
        BY <1>2, <1>4, <2>2, <3>2
      <4>2. OneRegister(requests, m) /\ NoEvent(events, m) /\ Quiet(m)
        BY <1>3, <1>6, <4>1 DEF Echoed
      <4>3. \A k \in 1..(i - 1) : k \in DOMAIN events
        BY <1>4, <3>2, <4>1
      <4>. QED
        BY <1>3, <1>4, <4>1, <4>2, <4>3 DEF NoEvent
    <3>. QED
      BY <1>4, <3>1, <3>2
  <2>. QED
    BY <2>1, <2>2 DEF Echoed
<1>7. open' = open /\ pc' = pc
  BY DEF taskVars
<1>8. ASSUME \A t \in Tasks : pc'[t] = "idle", NEW m \in Motors \ open
      PROVE  Unused(m)'
  BY <1>5, <1>7, <1>8 DEF Groups
<1>9. ASSUME NEW m \in open
      PROVE  Echoed(m)'
  <2>1. m \in Motors
    BY DEF Inv, TypeOK
  <2>. QED
    BY <1>6, <1>9, <2>1 DEF Groups
<1>. QED
  BY <1>7, <1>8, <1>9 DEF Groups

LEMMA CalmServer ==
  ASSUME Inv, Inv', Calm, ServerStep
  PROVE  Calm'
<1>1. UNCHANGED <<streamVars, taskVars>>
  BY DEF ServerStep, ServeRegister, ServeUnregister, ServeRead, ServePrestartAll, ServeStartOne,
         ServeStartAll, ServeAbortAll, Execute, Stop, Serve
<1>2. \A m \in Motors : Spare(m)'
  BY <1>1, SpareSame DEF Calm, streamVars
<1>3. Raising'
  BY <1>1 DEF Calm, Raising, taskVars
<1>4. Groups'
  BY <1>1, GroupsServer DEF Calm
<1>5. ASSUME NEW t \in Moves \cup Syncs, t \notin (mixed \cup raised)', NEW m \in Motors,
             t \in Motions(m)'
      PROVE  Goes(t, m)'
  <2>1. t \in Tasks
    BY TasksApart
  <2>2. t \in Motions(m)
    BY <1>5, <2>1, ServerMotions
  <2>3. Goes(t, m)
    BY <1>1, <1>5, <2>2 DEF Calm, GoesOn, taskVars
  <2>4. Placed(m, t)'
    BY <1>5, <2>1, <2>3, PlacedServer DEF Goes
  <2>5. Unheard(m, StreamOf(t, m))'
    <3>1. PICK s : s = StreamOf(t, m)
      OBVIOUS
    <3>2. Unheard(m, s)'
      BY <1>1, <1>5, <2>1, <2>3, <3>1, UnheardServer DEF Goes, streamVars
    <3>. QED
      BY <3>1, <3>2 DEF StreamOf
  <2>6. Holds(t, m)' /\ Awaits(t, m)'
    BY <1>1, <2>3 DEF Goes, Holds, Awaits, TaskMotors, streamVars, taskVars
  <2>. QED
    BY <2>4, <2>5, <2>6 DEF Goes
<1>. QED
  BY <1>2, <1>3, <1>4, <1>5 DEF Calm, GoesOn

\* What an event changes of the client's streams.
LEMMA DispatchFacts ==
  ASSUME Inv, Dispatch
  PROVE  /\ events # <<>> /\ events' = Tail(events)
         /\ UNCHANGED <<watchers, depth, listening, requests, taskVars, serverVars>>
         /\ \A m \in Motors : ~IsEvent(Head(events), m) => (Quiet(m) => Quiet(m)')
         /\ \A m \in Motors : \A s \in {Moving(m), Synced(m)} :
               /\ ~IsEvent(Head(events), m) => (Deaf(s) => Deaf(s)')
               /\ \A t : ~IsStand(Head(events), m) \/ Deaf(s) =>
                     (Waiter(t, s, FALSE) \in waiting => Waiter(t, s, FALSE) \in waiting')
<1>1. /\ events # <<>> /\ events' = Tail(events)
      /\ UNCHANGED <<watchers, depth, listening, requests, taskVars, serverVars>>
  BY DEF Dispatch, OnPropertyUpdate, OnReply
<1>2. CASE OnReply
  <2>1. UNCHANGED <<initialized, waiting>>
    BY <1>2 DEF OnReply
  <2>. QED
    BY <1>1, <2>1 DEF Quiet, Deaf
<1>3. CASE OnPropertyUpdate
  <2>1. PICK p : p = Head(events).property
    OBVIOUS
  <2>2. PICK v : v = Head(events).value
    OBVIOUS
  <2>3. /\ Head(events).command = "EVENT"
        /\ initialized' = initialized \cup
             UNION {{<<o, s>> : o \in listening[s]} : s \in {s \in MotorStreams : StreamMotor(s) = p}}
        /\ waiting' = {w \in waiting : ~(w.stream \in Updating(p) /\ w.value = v)}
    BY <1>3, <2>1, <2>2 DEF OnPropertyUpdate
  <2>4. \A m : IsEvent(Head(events), m) <=> m = p
    BY <2>1, <2>3 DEF IsEvent
  <2>5. \A m \in Motors : m # p =>
           /\ Moving(m) \notin {s \in MotorStreams : StreamMotor(s) = p}
           /\ Synced(m) \notin {s \in MotorStreams : StreamMotor(s) = p}
    BY StreamFacts
  <2>6. PICK opened : opened = {s \in MotorStreams : StreamMotor(s) = p}
    OBVIOUS
  <2>7. ASSUME NEW x \in initialized'
        PROVE  x \in initialized \/ x[2] \in opened
    BY <2>3, <2>6, <2>7
  <2>8. ASSUME NEW m \in Motors, ~IsEvent(Head(events), m), Quiet(m)
        PROVE  Quiet(m)'
    BY <2>4, <2>5, <2>6, <2>7, <2>8 DEF Quiet
  <2>9. ASSUME NEW m \in Motors, NEW s \in {Moving(m), Synced(m)}, ~IsEvent(Head(events), m), Deaf(s)
        PROVE  Deaf(s)'
    <3>1. s \notin opened
      BY <2>4, <2>5, <2>6, <2>9
    <3>2. \A o : <<o, s>> \in initialized' => <<o, s>> \in initialized
      BY <2>7, <3>1
    <3>. QED
      BY <1>1, <2>9, <3>2 DEF Deaf
  <2>10. ASSUME NEW m \in Motors, NEW s \in {Moving(m), Synced(m)}, NEW t,
                ~IsStand(Head(events), m) \/ Deaf(s), Waiter(t, s, FALSE) \in waiting
         PROVE  Waiter(t, s, FALSE) \in waiting'
    <3>1. PICK w : w = Waiter(t, s, FALSE)
      OBVIOUS
    <3>2. w.stream = s /\ w.value = FALSE
      BY <3>1 DEF Waiter
    <3>3. ~(s \in Updating(p) /\ v = FALSE)
      <4>1. s \in Updating(p) => StreamMotor(s) = p /\ ~Deaf(s)
        BY DEF Updating, Deaf
      <4>2. StreamMotor(s) = m
        BY StreamFacts
      <4>3. m = p /\ v = FALSE => IsStand(Head(events), m)
        BY <2>2, <2>4 DEF IsStand
      <4>. QED
        BY <2>10, <4>1, <4>2, <4>3
    <3>. QED
      BY <2>3, <2>10, <3>1, <3>2, <3>3
  <2>. QED
    BY <1>1, <2>8, <2>9, <2>10
<1>. QED
  BY <1>2, <1>3 DEF Dispatch

LEMMA CalmDispatch ==
  ASSUME Inv, Inv', Calm, Dispatch
  PROVE  Calm'
<1>1. /\ events # <<>> /\ events' = Tail(events) /\ events \in Seq(Notice)
      /\ UNCHANGED <<watchers, depth, listening, requests, taskVars, serverVars>>
  BY DispatchFacts DEF Inv, WireOK
<1>2. \A m \in Motors : Spare(m)'
  BY <1>1, SpareSame DEF Calm
<1>3. Raising'
  BY <1>1 DEF Calm, Raising, taskVars
<1>4. \A m : /\ NoEvent(events, m) => NoEvent(events, m)' /\ ~IsEvent(Head(events), m)
             /\ NoStand(events, m) => NoStand(events, m)'
             /\ StandFirst(events, m) => StandFirst(events, m)'
             /\ StandFirst(events, m) /\ IsEvent(Head(events), m) => NoStand(events, m)'
  BY <1>1, TailEvents
<1>5. /\ 1 \in DOMAIN events /\ Head(events) = events[1] /\ DOMAIN events' \subseteq Nat
      /\ \A i \in DOMAIN events' : i + 1 \in DOMAIN events /\ events'[i] = events[i + 1]
      /\ DOMAIN events = 1..Len(events) /\ Len(events) \in Nat
      /\ DOMAIN events' = 1..(Len(events) - 1)
  BY <1>1, TailElements
<1>6. ASSUME NEW m \in Motors, Unused(m)
      PROVE  Unused(m)'
  <2>1. NoEvent(events, m)' /\ Quiet(m)'
    BY <1>4, <1>6, DispatchFacts DEF Unused
  <2>. QED
    BY <1>1, <1>6, <2>1 DEF Unused, serverVars
<1>7. ASSUME NEW m \in Motors, Echoed(m)
      PROVE  Echoed(m)'
  <2>1. NoRegister(requests, m)' \/ /\ OneRegister(requests, m)' /\ m \notin registered'
                                    /\ NoEvent(events, m)' /\ Quiet(m)'
    BY <1>1, <1>4, <1>7, DispatchFacts DEF Echoed, serverVars
  <2>2. ASSUME NEW i \in DOMAIN events', IsEvent(events'[i], m), events'[i].by = None
        PROVE  /\ NoRegister(requests, m)' /\ Quiet(m)'
               /\ \A k \in 1..(i - 1) : ~IsEvent(events'[k], m)
    <3>1. /\ NoRegister(requests, m) /\ Quiet(m)
          /\ \A k \in 1..((i + 1) - 1) : ~IsEvent(events[k], m)
      BY <1>5, <1>7, <2>2 DEF Echoed
    <3>2. 1 \in 1..((i + 1) - 1)
      BY <1>5
    <3>3. Quiet(m)'
      BY <1>5, <3>1, <3>2, DispatchFacts
    <3>4. ASSUME NEW k \in 1..(i - 1)
          PROVE  ~IsEvent(events'[k], m)
      <4>1. k \in DOMAIN events' /\ k + 1 \in 1..((i + 1) - 1)
        BY <1>5
      <4>. QED
        BY <1>5, <3>1, <4>1
    <3>. QED
      BY <1>1, <3>1, <3>3, <3>4
  <2>. QED
    BY <2>1, <2>2 DEF Echoed
<1>8. Groups'
  <2>1. open' = open /\ pc' = pc
    BY <1>1 DEF taskVars
  <2>2. ASSUME \A t \in Tasks : pc'[t] = "idle", NEW m \in Motors \ open
        PROVE  Unused(m)'
    BY <1>6, <2>1, <2>2 DEF Calm, Groups
  <2>3. ASSUME NEW m \in open
        PROVE  Echoed(m)'
    <3>1. m \in Motors
      BY <2>3 DEF Inv, TypeOK
    <3>. QED
      BY <1>7, <2>3, <3>1 DEF Calm, Groups
  <2>. QED
    BY <2>1, <2>2, <2>3 DEF Groups
<1>9. ASSUME NEW t \in Moves \cup Syncs, t \notin (mixed \cup raised)', NEW m \in Motors,
             t \in Motions(m)'
      PROVE  Goes(t, m)'
  <2>1. t \in Motions(m)
    BY <1>1, <1>9 DEF Motions, serverVars
  <2>2. Goes(t, m)
    BY <1>1, <1>9, <2>1 DEF Calm, GoesOn, taskVars
  <2>3. PICK s \in {Moving(m), Synced(m)} : s = StreamOf(t, m)
    BY DEF StreamOf
  <2>4. Waiter(t, s, FALSE) \in waiting /\ Unheard(m, s)
    BY <2>2, <2>3 DEF Goes, Awaits
  <2>5. IsStand(Head(events), m) => ~NoStand(events, m)
    BY <1>5 DEF NoStand
  <2>6. Waiter(t, s, FALSE) \in waiting'
    BY <2>4, <2>5, DispatchFacts DEF Unheard
  <2>7. Unheard(m, s)'
    <3>1. CASE IsEvent(Head(events), m)
      BY <1>1, <1>4, <2>4, <3>1 DEF Unheard
    <3>2. CASE ~IsEvent(Head(events), m)
      <4>1. Deaf(s) => Deaf(s)'
        BY <3>2, DispatchFacts
      <4>. QED
        BY <1>1, <1>4, <2>4, <4>1 DEF Unheard
    <3>. QED
      BY <3>1, <3>2
  <2>8. Holds(t, m)' /\ Placed(m, t)'
    BY <1>1, <2>2 DEF Goes, Holds, TaskMotors, Placed, SentOnly, Received, NoneCollected,
       NoneQueued, Collected, Queued, serverVars, taskVars
  <2>9. StreamOf(t, m)' = s
    BY <2>3 DEF StreamOf
  <2>. QED
    BY <2>6, <2>7, <2>8, <2>9 DEF Goes, Awaits
<1>. QED
  BY <1>2, <1>3, <1>8, <1>9 DEF Calm, GoesOn

LEMMA CalmStutter ==
  ASSUME Calm, UNCHANGED vars
  PROVE  Calm'
<1>1. UNCHANGED <<streamVars, requests, events, taskVars, serverVars>>
  BY DEF vars
<1>2. \A m \in Motors : Spare(m)'
  BY <1>1, SpareSame DEF Calm, streamVars
<1>3. Raising'
  BY <1>1 DEF Calm, Raising, taskVars
<1>4. ASSUME NEW m
      PROVE  Unused(m)' = Unused(m) /\ Echoed(m)' = Echoed(m)
  BY <1>1 DEF Unused, Echoed, Quiet, streamVars, serverVars
<1>5. Groups'
  BY <1>1, <1>4 DEF Calm, Groups, taskVars
<1>6. ASSUME NEW t, NEW m
      PROVE  Goes(t, m)' = Goes(t, m) /\ Motions(m)' = Motions(m)
  BY <1>1 DEF Goes, Holds, Awaits, TaskMotors, Placed, SentOnly, Received, NoneCollected,
     NoneQueued, Collected, Queued, Unheard, Deaf, Motions, streamVars, serverVars, taskVars
<1>7. GoesOn'
  BY <1>1, <1>6 DEF Calm, GoesOn, taskVars
<1>. QED
  BY <1>2, <1>3, <1>5, <1>7 DEF Calm

LEMMA CalmInit ==
  ASSUME Init
  PROVE  Calm
<1>1. ASSUME NEW m \in Motors
      PROVE  Spare(m)
  <2>1. /\ depth[Moving(m)] = 0 /\ depth[Synced(m)] = 0
        /\ listening[Moving(m)] = {} /\ listening[Synced(m)] = {}
    BY StreamFacts DEF Init, StreamInit
  <2>. QED
    BY <2>1 DEF Spare, Surplus
<1>2. /\ requests = <<>> /\ events = <<>> /\ initialized = {} /\ registered = {} /\ open = {}
      /\ buffer = {} /\ commands = <<>> /\ raised = {}
  BY DEF Init, StreamInit
<1>3. Groups
  BY <1>2 DEF Groups, Unused, NoRegister, NoEvent, Quiet
<1>4. GoesOn
  <2>1. ASSUME NEW t \in Moves \cup Syncs, NEW m \in Motors
        PROVE  t \notin Motions(m)
    <3>1. moving[m] = None /\ t # None
      BY TasksApart, MotorsAssumption DEF Init
    <3>. QED
      BY <1>2, <3>1 DEF Motions
  <2>. QED
    BY <2>1 DEF GoesOn
<1>. QED
  BY <1>1, <1>2, <1>3, <1>4 DEF Calm, Raising

LEMMA CalmStep ==
  ASSUME Inv, Calm, [Next]_vars
  PROVE  Calm'
<1>0. (\A t \in Children : t \in Moves) /\ Inv'
  BY InvStep, MotorsAssumption DEF Children
<1>1. CASE CallStep
  <2>1. \A t \in Moves \ Children : t \in Moves
    OBVIOUS
  <2>2. ASSUME NEW m \in Motors, EnterGroup(m) \/ ExitGroup(m)
        PROVE  Calm'
    BY <1>0, <2>2, CalmEnterGroup, CalmExitGroup
  <2>3. ASSUME NEW t \in Moves, Move(t) \/ MoveRefused(t)
        PROVE  Calm'
    BY <1>0, <2>3, CalmMove, CalmQuiet
  <2>4. ASSUME NEW t \in Starts, StartMove(t)
        PROVE  Calm'
    BY <1>0, <2>4, CalmStartMove
  <2>5. ASSUME NEW t \in Waits, WaitUntil(t)
        PROVE  Calm'
    BY <1>0, <2>5, CalmWaitUntil
  <2>6. ASSUME NEW t \in Syncs, SyncStart(t)
        PROVE  Calm'
    BY <1>0, <2>6, CalmSyncStart
  <2>7. ASSUME NEW t \in Syncs, \/ SyncRefused(t) \/ SyncEnter(t) \/ SyncBodyRaises(t)
                                \/ \E m \in Motors : PrepareMove(t, m)
        PROVE  Calm'
    BY <1>0, <2>7, CalmQuiet
  <2>. QED
    BY <1>1, <2>1, <2>2, <2>3, <2>4, <2>5, <2>6, <2>7 DEF CallStep
<1>2. CASE Dispatch
  BY <1>0, <1>2, CalmDispatch
<1>3. CASE ServerStep
  BY <1>0, <1>3, CalmServer
<1>4. ASSUME NEW t \in Tasks, Resume(t)
      PROVE  Calm'
  <2>1. ASSUME t \in Moves \cup Starts \cup Waits, Return(t)
        PROVE  Calm'
    BY <1>0, <2>1, CalmReturn
  <2>2. ASSUME t \in Children, Move(t) \/ MoveRefused(t)
        PROVE  Calm'
    BY <1>0, <2>2, CalmMove, CalmQuiet
  <2>3. ASSUME t \in Waits, WaitRead(t)
        PROVE  Calm'
    BY <1>0, <2>3, CalmQuiet
  <2>4. ASSUME t \in Syncs, SyncUnwind(t)
        PROVE  Calm'
    BY <1>0, <2>4, CalmSyncUnwind
  <2>. QED
    BY <1>4, <2>1, <2>2, <2>3, <2>4 DEF Resume
<1>5. CASE UNCHANGED vars
  BY <1>5, CalmStutter
<1>. QED
  BY <1>1, <1>2, <1>3, <1>4, <1>5 DEF Next

\* A move and a synchronized context return only when the server has no motion
\* of theirs left to do, if their motors were at rest when they were sent off:
\* neither the echo of a registration nor the True of the motion's beginning is
\* ever taken for its end, whoever else watches the motor.
THEOREM MovesCompleted == Spec => []MovesComplete
<1>1. Init => Calm
  BY CalmInit
<1>2. Inv /\ Calm /\ [Next]_vars => Calm'
  BY CalmStep
<1>3. Inv /\ Calm => MovesComplete
  <2>. SUFFICES ASSUME Inv, Calm, NEW t \in Moves \cup Syncs, pc[t] = "done", t \notin mixed,
                       NEW m \in Motors, t \in Motions(m)
                PROVE  FALSE
    BY DEF MovesComplete
  <2>1. t \notin raised
    BY DEF Calm, Raising
  <2>2. Goes(t, m)
    BY <2>1 DEF Calm, GoesOn
  <2>. QED
    BY <2>2 DEF Goes, Holds
<1>. QED
  BY <1>1, <1>2, <1>3, Invariance, PTL DEF Spec

(***************************************************************************)
(* Waits inside a group.  The group's closure is the first on its stream   *)
(* and stays: once it has heard an event, every later one is an update.    *)
(* That a wait is woken takes that its motor moves or that the news of its *)
(* standing is on its way; behind this is the order of the messages, that  *)
(* the registration goes before the read and its echo before the answer,   *)
(* and that no news that a motor moves is the last while it stands.        *)
(***************************************************************************)
IsReply(e, m) == e.command = "REPLY" /\ e.property = m
IsTrue(e, m)  == e.property = m /\ e.value = TRUE
NoReply(e, m) == \A i \in DOMAIN e : ~IsReply(e[i], m)
NoTrue(e, m)  == \A i \in DOMAIN e : ~IsTrue(e[i], m)
AfterRegister(q, m) == \A k \in DOMAIN q : IsRead(q[k], m) =>
                          \E i \in 1..(k - 1) : q[i] = Register(m)
AfterEvent(e, m)  == \A k \in DOMAIN e : IsReply(e[k], m) =>
                          \E i \in 1..(k - 1) : IsEvent(e[i], m)
BeforeStand(e, m) == \A k \in DOMAIN e : IsTrue(e[k], m) =>
                          \E i \in DOMAIN e : k < i /\ IsStand(e[i], m)

Coming(m) == moving[m] # None \/ ~NoStand(events, m)
Fresh(m)  == \A u \in Waits : MotorOf[u] = m => pc[u] = "idle"
Informed(m) ==
    /\ m \in listening[Moving(m)]
    /\ NoUnregister(requests, m)
    /\ m \in registered <=> Heard(m) \/ ~NoEvent(events, m)
    /\ m \in registered \/ (~NoRegister(requests, m) /\ AfterRegister(requests, m))
    /\ Heard(m) \/ AfterEvent(events, m)
    /\ moving[m] # None \/ BeforeStand(events, m)
    /\ Fresh(m) /\ cache[m] = TRUE => Heard(m) /\ Coming(m)

OnlyWait(t) == \A u \in Waits \ {t} : MotorOf[u] = MotorOf[t] => pc[u] = "idle"
Waiting(t)   == Waiter(t, Moving(MotorOf[t]), FALSE)
Roused(t) ==
    /\ \A a \in answers : a.owner = t /\ a.value = TRUE =>
          Heard(MotorOf[t]) /\ (Waiting(t) \in waiting => Coming(MotorOf[t]))
    /\ pc[t] = "waiting" /\ Waiting(t) \in waiting /\ OnlyWait(t) =>
          Heard(MotorOf[t]) /\ Coming(MotorOf[t])

\* A read is under way from its message to its answer.
Asked(q, t)    == \E i \in DOMAIN q : q[i].command = "CHAN_READ" /\ q[i].by = t
Answered(e, t) == \E i \in DOMAIN e : e[i].command = "REPLY" /\ e[i].by = t
Reads ==
    /\ \A w \in waiting : w.owner \in Waits =>
          w = Waiting(w.owner) /\ pc[w.owner] \in {"reading", "waiting"}
    /\ \A i \in DOMAIN requests : requests[i].command = "CHAN_READ" =>
          pc[requests[i].by] # "idle" /\ MotorOf[requests[i].by] = requests[i].property
    /\ \A i \in DOMAIN events : events[i].command = "REPLY" =>
          pc[events[i].by] # "idle" /\ MotorOf[events[i].by] = events[i].property
    /\ \A a \in answers : a.owner \in Waits /\ pc[a.owner] # "idle"
    /\ \A t \in Waits : pc[t] = "reading" =>
          Asked(requests, t) \/ Answered(events, t) \/ \E a \in answers : a.owner = t

Unwatched(m) == cache[m] = None /\ watchers[m] = 0 /\ NoUnregister(requests, m)
Wake == /\ Reads
        /\ (\A t \in Tasks : pc[t] = "idle") => \A m \in Motors \ open : Unwatched(m)
        /\ \A m \in open : Informed(m)
        /\ \A t \in Waits : MotorOf[t] \in open => Roused(t)

LEMMA ConcatReads ==
  ASSUME NEW S, NEW q \in Seq(S), NEW x \in Seq(S), NEW m, NEW t
  PROVE  /\ NoUnregister(q \o x, m) <=> NoUnregister(q, m) /\ NoUnregister(x, m)
         /\ NoRead(q \o x, m) <=> NoRead(q, m) /\ NoRead(x, m)
         /\ AfterRegister(q, m) /\ (~NoRegister(q, m) \/ NoRead(x, m)) =>
               AfterRegister(q \o x, m)
         /\ Asked(q \o x, t) <=> Asked(q, t) \/ Asked(x, t)
<1>1. PICK c : c = q \o x
  OBVIOUS
<1>2. /\ \A i \in DOMAIN q : i \in DOMAIN c /\ c[i] = q[i]
      /\ \A i \in DOMAIN x : Len(q) + i \in DOMAIN c /\ c[Len(q) + i] = x[i]
      /\ \A i \in DOMAIN c : i \in DOMAIN q \/ \E k \in DOMAIN x : i = Len(q) + k
      /\ DOMAIN q = 1..Len(q) /\ DOMAIN x = 1..Len(x) /\ Len(q) \in Nat /\ Len(x) \in Nat
  BY <1>1, ConcatElements
<1>3. NoUnregister(c, m) <=> NoUnregister(q, m) /\ NoUnregister(x, m)
  BY <1>2 DEF NoUnregister
<1>4. NoRead(c, m) <=> NoRead(q, m) /\ NoRead(x, m)
  BY <1>2 DEF NoRead
<1>5. Asked(c, t) <=> Asked(q, t) \/ Asked(x, t)
  BY <1>2 DEF Asked
<1>6. ASSUME AfterRegister(q, m), ~NoRegister(q, m) \/ NoRead(x, m)
      PROVE  AfterRegister(c, m)
  <2>. SUFFICES ASSUME NEW k \in DOMAIN c, IsRead(c[k], m)
                PROVE  \E i \in 1..(k - 1) : c[i] = Register(m)
    BY DEF AfterRegister
  <2>1. CASE k \in DOMAIN q
    <3>1. PICK i \in 1..(k - 1) : q[i] = Register(m)
      BY <1>2, <1>6, <2>1 DEF AfterRegister
    <3>2. i \in DOMAIN q
      BY <1>2, <2>1
    <3>. QED
      BY <1>2, <3>1, <3>2
  <2>2. CASE k \notin DOMAIN q
    <3>1. PICK j \in DOMAIN x : k = Len(q) + j
      BY <1>2, <2>2
    <3>2. ~NoRead(x, m)
      BY <1>2, <3>1 DEF NoRead
    <3>3. PICK i \in DOMAIN q : q[i] = Register(m)
      BY <1>6, <3>2 DEF NoRegister
    <3>4. i \in 1..(k - 1)
      BY <1>2, <3>1
    <3>. QED
      BY <1>2, <3>3, <3>4
  <2>. QED
    BY <2>1, <2>2
<1>. QED
  BY <1>1, <1>3, <1>4, <1>5, <1>6

LEMMA TailReads ==
  ASSUME NEW S, NEW q \in Seq(S), q # <<>>, NEW m, NEW t
  PROVE  /\ NoUnregister(q, m) => NoUnregister(Tail(q), m) /\ Head(q) # Unregister(m)
         /\ AfterRegister(q, m) => ~IsRead(Head(q), m)
         /\ AfterRegister(q, m) /\ Head(q) # Register(m) => AfterRegister(Tail(q), m)
         /\ ~NoRegister(q, m) /\ Head(q) # Register(m) => ~NoRegister(Tail(q), m)
         /\ Asked(q, t) => \/ Head(q).command = "CHAN_READ" /\ Head(q).by = t
                           \/ Asked(Tail(q), t)
<1>1. PICK c : c = Tail(q)
  OBVIOUS
<1>2. /\ 1 \in DOMAIN q /\ Head(q) = q[1]
      /\ DOMAIN q = 1..Len(q) /\ DOMAIN c = 1..(Len(q) - 1) /\ Len(q) \in Nat
      /\ \A i \in DOMAIN c : i + 1 \in DOMAIN q /\ c[i] = q[i + 1]
      /\ \A i \in DOMAIN q : i # 1 => i - 1 \in DOMAIN c /\ c[i - 1] = q[i]
  BY <1>1, TailElements
<1>3. NoUnregister(q, m) => NoUnregister(c, m) /\ Head(q) # Unregister(m)
  BY <1>2 DEF NoUnregister
<1>4. AfterRegister(q, m) => ~IsRead(Head(q), m)
  BY <1>2 DEF AfterRegister
<1>5. ASSUME AfterRegister(q, m), Head(q) # Register(m)
      PROVE  AfterRegister(c, m)
  <2>. SUFFICES ASSUME NEW k \in DOMAIN c, IsRead(c[k], m)
                PROVE  \E i \in 1..(k - 1) : c[i] = Register(m)
    BY DEF AfterRegister
  <2>1. k + 1 \in DOMAIN q /\ IsRead(q[k + 1], m)
    BY <1>2
  <2>2. PICK i \in 1..((k + 1) - 1) : q[i] = Register(m)
    BY <1>5, <2>1 DEF AfterRegister
  <2>3. i # 1 /\ i \in DOMAIN q
    BY <1>2, <1>5, <2>1, <2>2
  <2>4. i - 1 \in 1..(k - 1) /\ c[i - 1] = Register(m)
    BY <1>2, <2>2, <2>3
  <2>. QED
    BY <2>4
<1>6. ~NoRegister(q, m) /\ Head(q) # Register(m) => ~NoRegister(c, m)
  BY <1>2 DEF NoRegister
<1>7. Asked(q, t) => (Head(q).command = "CHAN_READ" /\ Head(q).by = t) \/ Asked(c, t)
  BY <1>2 DEF Asked
<1>. QED
  BY <1>1, <1>3, <1>4, <1>5, <1>6, <1>7

LEMMA ConcatNews ==
  ASSUME NEW S, NEW e \in Seq(S), NEW x \in Seq(S), NEW m, NEW t
  PROVE  /\ AfterEvent(e, m) /\ (~NoEvent(e, m) \/ NoReply(x, m)) => AfterEvent(e \o x, m)
         /\ BeforeStand(e, m) /\ NoTrue(x, m) => BeforeStand(e \o x, m)
         /\ ~NoStand(x, m) /\ NoTrue(x, m) => BeforeStand(e \o x, m)
         /\ Answered(e \o x, t) <=> Answered(e, t) \/ Answered(x, t)
<1>1. PICK c : c = e \o x
  OBVIOUS
<1>2. /\ \A i \in DOMAIN e : i \in DOMAIN c /\ c[i] = e[i]
      /\ \A i \in DOMAIN x : Len(e) + i \in DOMAIN c /\ c[Len(e) + i] = x[i]
      /\ \A i \in DOMAIN c : i \in DOMAIN e \/ \E k \in DOMAIN x : i = Len(e) + k
      /\ DOMAIN e = 1..Len(e) /\ DOMAIN x = 1..Len(x) /\ Len(e) \in Nat /\ Len(x) \in Nat
  BY <1>1, ConcatElements
<1>3. Answered(c, t) <=> Answered(e, t) \/ Answered(x, t)
  BY <1>2 DEF Answered
<1>4. ASSUME AfterEvent(e, m), ~NoEvent(e, m) \/ NoReply(x, m)
      PROVE  AfterEvent(c, m)
  <2>. SUFFICES ASSUME NEW k \in DOMAIN c, IsReply(c[k], m)
                PROVE  \E i \in 1..(k - 1) : IsEvent(c[i], m)
    BY DEF AfterEvent
  <2>1. CASE k \in DOMAIN e
    <3>1. PICK i \in 1..(k - 1) : IsEvent(e[i], m)
      BY <1>2, <1>4, <2>1 DEF AfterEvent
    <3>2. i \in DOMAIN e
      BY <1>2, <2>1
    <3>. QED
      BY <1>2, <3>1, <3>2
  <2>2. CASE k \notin DOMAIN e
    <3>1. PICK j \in DOMAIN x : k = Len(e) + j
      BY <1>2, <2>2
    <3>2. ~NoReply(x, m)
      BY <1>2, <3>1 DEF NoReply
    <3>3. PICK i \in DOMAIN e : IsEvent(e[i], m)
      BY <1>4, <3>2 DEF NoEvent
    <3>4. i \in 1..(k - 1)
      BY <1>2, <3>1
    <3>. QED
      BY <1>2, <3>3, <3>4
  <2>. QED
    BY <2>1, <2>2
<1>5. ASSUME NoTrue(x, m), BeforeStand(e, m) \/ ~NoStand(x, m)
      PROVE  BeforeStand(c, m)
  <2>. SUFFICES ASSUME NEW k \in DOMAIN c, IsTrue(c[k], m)
                PROVE  \E i \in DOMAIN c : k < i /\ IsStand(c[i], m)
    BY DEF BeforeStand
  <2>1. k \in DOMAIN e /\ IsTrue(e[k], m)
    BY <1>2, <1>5 DEF NoTrue
  <2>2. CASE BeforeStand(e, m)
    <3>1. PICK i \in DOMAIN e : k < i /\ IsStand(e[i], m)
      BY <2>1, <2>2 DEF BeforeStand
    <3>. QED
      BY <1>2, <3>1
  <2>3. CASE ~NoStand(x, m)
    <3>1. PICK i \in DOMAIN x : IsStand(x[i], m)
      BY <2>3 DEF NoStand
    <3>2. k < Len(e) + i
      BY <1>2, <2>1
    <3>. QED
      BY <1>2, <3>1, <3>2
  <2>. QED
    BY <1>5, <2>2, <2>3
<1>. QED
  BY <1>1, <1>3, <1>4, <1>5

LEMMA TailNews ==
  ASSUME NEW S, NEW e \in Seq(S), e # <<>>, NEW m, NEW t
  PROVE  /\ AfterEvent(e, m) => ~IsReply(Head(e), m)
         /\ AfterEvent(e, m) /\ ~IsEvent(Head(e), m) => AfterEvent(Tail(e), m)
         /\ BeforeStand(e, m) => BeforeStand(Tail(e), m)
         /\ BeforeStand(e, m) /\ IsTrue(Head(e), m) => ~NoStand(Tail(e), m)
         /\ ~NoEvent(e, m) /\ ~IsEvent(Head(e), m) => ~NoEvent(Tail(e), m)
         /\ Answered(e, t) => \/ Head(e).command = "REPLY" /\ Head(e).by = t
                              \/ Answered(Tail(e), t)
<1>1. PICK c : c = Tail(e)
  OBVIOUS
<1>2. /\ 1 \in DOMAIN e /\ Head(e) = e[1]
      /\ DOMAIN e = 1..Len(e) /\ DOMAIN c = 1..(Len(e) - 1) /\ Len(e) \in Nat
      /\ \A i \in DOMAIN c : i + 1 \in DOMAIN e /\ c[i] = e[i + 1]
      /\ \A i \in DOMAIN e : i # 1 => i - 1 \in DOMAIN c /\ c[i - 1] = e[i]
  BY <1>1, TailElements
<1>3. AfterEvent(e, m) => ~IsReply(Head(e), m)
  BY <1>2 DEF AfterEvent
<1>4. ASSUME AfterEvent(e, m), ~IsEvent(Head(e), m)
      PROVE  AfterEvent(c, m)
  <2>. SUFFICES ASSUME NEW k \in DOMAIN c, IsReply(c[k], m)
                PROVE  \E i \in 1..(k - 1) : IsEvent(c[i], m)
    BY DEF AfterEvent
  <2>1. k + 1 \in DOMAIN e /\ IsReply(e[k + 1], m)
    BY <1>2
  <2>2. PICK i \in 1..((k + 1) - 1) : IsEvent(e[i], m)
    BY <1>4, <2>1 DEF AfterEvent
  <2>3. i # 1 /\ i \in DOMAIN e
    BY <1>2, <1>4, <2>1, <2>2
  <2>4. i - 1 \in 1..(k - 1) /\ IsEvent(c[i - 1], m)
    BY <1>2, <2>2, <2>3
  <2>. QED
    BY <2>4
<1>5. ASSUME BeforeStand(e, m), NEW k \in DOMAIN e, IsTrue(e[k], m)
      PROVE  \E i \in DOMAIN c : k - 1 < i /\ IsStand(c[i], m)
  <2>1. PICK i \in DOMAIN e : k < i /\ IsStand(e[i], m)
    BY <1>5 DEF BeforeStand
  <2>2. i - 1 \in DOMAIN c /\ IsStand(c[i - 1], m) /\ k - 1 < i - 1
    BY <1>2, <2>1
  <2>. QED
    BY <2>2
<1>6. ASSUME BeforeStand(e, m), NEW k \in DOMAIN c, IsTrue(c[k], m)
      PROVE  \E i \in DOMAIN c : k < i /\ IsStand(c[i], m)
  <2>1. k + 1 \in DOMAIN e /\ IsTrue(e[k + 1], m) /\ (k + 1) - 1 = k
    BY <1>2, <1>6
  <2>2. PICK i \in DOMAIN c : (k + 1) - 1 < i /\ IsStand(c[i], m)
    BY <1>5, <1>6, <2>1
  <2>. QED
    BY <2>1, <2>2
<1>7. BeforeStand(e, m) => BeforeStand(c, m)
  BY <1>6 DEF BeforeStand
<1>8. BeforeStand(e, m) /\ IsTrue(Head(e), m) => ~NoStand(c, m)
  BY <1>2, <1>5 DEF NoStand
<1>9. ~NoEvent(e, m) /\ ~IsEvent(Head(e), m) => ~NoEvent(c, m)
  BY <1>2 DEF NoEvent
<1>10. Answered(e, t) => (Head(e).command = "REPLY" /\ Head(e).by = t) \/ Answered(c, t)
  BY <1>2 DEF Answered
<1>. QED
  BY <1>1, <1>3, <1>4, <1>7, <1>8, <1>9, <1>10

\* Before the registration's echo there is nothing of a motor.
LEMMA Untold ==
  ASSUME NEW e \in Seq(Notice), NEW m, NoEvent(e, m), AfterEvent(e, m)
  PROVE  BeforeStand(e, m)
<1>1. ASSUME NEW k \in DOMAIN e PROVE e[k].command = "EVENT" \/ e[k].command = "REPLY"
  <2>1. e[k] \in Notice
    OBVIOUS
  <2>. QED
    BY <2>1 DEF Notice
<1>2. ASSUME NEW k \in DOMAIN e, IsReply(e[k], m) PROVE FALSE
  <2>1. PICK i \in 1..(k - 1) : IsEvent(e[i], m)
    BY <1>2 DEF AfterEvent
  <2>2. i \in DOMAIN e
    BY <2>1
  <2>. QED
    BY <2>1, <2>2 DEF NoEvent
<1>. QED
  BY <1>1, <1>2 DEF BeforeStand, IsTrue, IsReply, NoEvent, IsEvent

OpenHeld == \A m \in open : m \in Motors /\ depth[Moving(m)] > 0 /\ watchers[m] > 0

LEMMA OpenIsHeld == Inv => OpenHeld
<1>. SUFFICES ASSUME Inv, NEW m \in open
              PROVE  m \in Motors /\ depth[Moving(m)] > 0 /\ watchers[m] > 0
  BY DEF OpenHeld
<1>1. m \in Motors
  BY DEF Inv, TypeOK
<1>2. m \in MovingHolders(m)
  BY DEF MovingHolders
<1>. QED
  BY <1>1, <1>2, CountsBeforeLeave DEF Inv

LEMMA SentReads ==
  ASSUME WireOK, NEW more \in Seq(Message), Sends(more)
  PROVE  /\ \A i \in DOMAIN requests' : requests'[i].command = "CHAN_READ" =>
               \/ \E k \in DOMAIN requests : requests[k] = requests'[i]
               \/ \E k \in DOMAIN more : more[k] = requests'[i]
         /\ \A t : Asked(requests, t) \/ Asked(more, t) => Asked(requests, t)'
<1>1. PICK rs \in Seq(Message) : requests' = requests \o (rs \o more) /\ Registrar(rs)
  BY DEF Sends
<1>2. PICK x : x = rs \o more
  OBVIOUS
<1>3. x \in Seq(Message) /\ requests \in Seq(Message) /\ requests' = requests \o x
  BY <1>1, <1>2, ConcatElements DEF WireOK
<1>4. ASSUME NEW t, Asked(requests, t) \/ Asked(more, t)
      PROVE  Asked(requests, t)'
  <2>1. PICK q \in Seq(Message) : q = requests
    BY <1>3
  <2>2. PICK c : c = q \o x
    OBVIOUS
  <2>3. Asked(more, t) => Asked(x, t)
    BY <1>1, <1>2, ConcatReads
  <2>4. Asked(c, t) <=> Asked(q, t) \/ Asked(x, t)
    BY <1>3, <2>1, <2>2, ConcatReads
  <2>5. Asked(q, t) \/ Asked(x, t)
    BY <1>4, <2>1, <2>3
  <2>6. Asked(c, t)
    BY <2>4, <2>5
  <2>7. requests' = c
    BY <1>3, <2>1, <2>2
  <2>8. \E i \in DOMAIN requests' : requests'[i].command = "CHAN_READ" /\ requests'[i].by = t
    BY <2>6, <2>7 DEF Asked
  <2>. QED
    BY <2>8 DEF Asked
<1>5. ASSUME NEW k \in DOMAIN rs
      PROVE  rs[k].command # "CHAN_READ"
  <2>1. rs[k] \in Message
    OBVIOUS
  <2>2. rs[k].command = "CHAN_READ" => rs[k].property \in Motors
    BY <2>1, MessageKinds
  <2>. QED
    BY <1>1, <2>2 DEF Registrar, NoRead, IsRead
<1>6. ASSUME NEW i \in DOMAIN requests', requests'[i].command = "CHAN_READ"
      PROVE  \/ \E k \in DOMAIN requests : requests[k] = requests'[i]
             \/ \E k \in DOMAIN more : more[k] = requests'[i]
  <2>1. CASE i \in DOMAIN requests
    BY <1>3, <2>1, ConcatElements
  <2>2. ASSUME NEW j \in DOMAIN x, i = Len(requests) + j
        PROVE  \E k \in DOMAIN more : more[k] = requests'[i]
    <3>1. requests'[i] = x[j]
      BY <1>3, <2>2, ConcatElements
    <3>2. /\ j \in DOMAIN rs => x[j] = rs[j]
          /\ j \in DOMAIN rs \/ \E k \in DOMAIN more : x[j] = more[k]
      BY <1>2, <2>2, ConcatElements
    <3>. QED
      BY <1>5, <1>6, <3>1, <3>2
  <2>. QED
    BY <1>3, <2>1, <2>2, ConcatElements
<1>. QED
  BY <1>4, <1>6

LEMMA InformedClient ==
  ASSUME Inv, Inv', NEW more \in Seq(Silent), Sends(more), UNCHANGED <<events, serverVars>>,
         NEW m \in open, m \in open', Informed(m),
         Fresh(m)' => Fresh(m) /\ cache'[m] = cache[m]
  PROVE  Informed(m)' /\ Heard(m)' = Heard(m) /\ Coming(m)' = Coming(m)
<1>1. OpenHeld /\ OpenHeld'
  BY OpenIsHeld, PTL
<1>2. /\ m \in Motors /\ depth[Moving(m)] > 0 /\ depth'[Moving(m)] > 0
      /\ watchers[m] > 0 /\ watchers'[m] > 0
  BY <1>1 DEF OpenHeld
<1>3. listening'[Moving(m)] = listening[Moving(m)]
  BY <1>2, StreamFacts DEF Sends, SameClosures
<1>4. Heard(m)' = Heard(m)
  BY DEF Sends, Heard
<1>5. PICK rs \in Seq(Message) : requests' = requests \o (rs \o more) /\ Registrar(rs)
  BY DEF Sends
<1>6. PICK x : x = rs \o more
  OBVIOUS
<1>7. x \in Seq(Message) /\ requests \in Seq(Message) /\ requests' = requests \o x
      /\ more \in Seq(Message)
  BY <1>5, <1>6, ConcatElements, SilentNoRegister DEF Inv, WireOK
<1>8. NoUnregister(more, m)
  <2>1. Unregister(m) \notin Silent
    BY <1>2 DEF Silent, Registration, Unregister
  <2>2. \A i \in DOMAIN more : more[i] \in Silent
    OBVIOUS
  <2>. QED
    BY <2>1, <2>2 DEF NoUnregister
<1>9. NoUnregister(rs, m)
  BY <1>2, <1>5 DEF Registrar
<1>10. NoUnregister(x, m)
  BY <1>5, <1>6, <1>7, <1>8, <1>9, ConcatReads
<1>11. NoUnregister(requests, m)'
  BY <1>7, <1>10, ConcatReads DEF Informed
<1>12. m \in registered \/ (~NoRegister(requests, m)' /\ AfterRegister(requests, m)')
  BY <1>7, ConcatReads, ConcatRequests DEF Informed
<1>13. Coming(m)' = Coming(m)
  BY DEF Coming, serverVars
<1>. QED
  BY <1>3, <1>4, <1>11, <1>12, <1>13 DEF Informed, serverVars

LEMMA RousedSame ==
  ASSUME NEW u \in Waits, Roused(u), Heard(MotorOf[u]) => Heard(MotorOf[u])',
         Waiting(u) \in waiting' /\ Heard(MotorOf[u]) /\ Coming(MotorOf[u]) => Coming(MotorOf[u])',
         answers' \subseteq answers,
         Waiting(u) \in waiting' => Waiting(u) \in waiting,
         pc'[u] = "waiting" => pc[u] = "waiting",
         \A v \in Waits : pc'[v] = "idle" => pc[v] = "idle"
  PROVE  Roused(u)'
<1>1. OnlyWait(u)' => OnlyWait(u)
  BY DEF OnlyWait
<1>2. Waiting(u)' = Waiting(u)
  BY DEF Waiting, Waiter
<1>. QED
  BY <1>1, <1>2 DEF Roused

LEMMA WakeClient ==
  ASSUME Inv, Inv', Wake, NEW more \in Seq(Silent), Sends(more),
         UNCHANGED <<events, serverVars, answers, cache>>, open' \subseteq open,
         NEW t \in Tasks, pc'[t] # "idle",
         \A u \in Waits : pc'[u] = "idle" => pc[u] = "idle",
         \A u \in Waits : pc'[u] \in {"waiting", "reading"} => pc'[u] = pc[u],
         \A w \in waiting' : w.owner \in Waits => w \in waiting /\ pc'[w.owner] = pc[w.owner],
         \A i \in DOMAIN more : more[i].command # "CHAN_READ"
  PROVE  Wake'
<1>1. more \in Seq(Message) /\ WireOK /\ requests' \in Seq(Message) /\ events \in Seq(Notice)
  BY SilentNoRegister DEF Inv, WireOK
<1>2. ASSUME NEW i \in DOMAIN requests', requests'[i].command = "CHAN_READ"
      PROVE  /\ pc'[requests'[i].by] # "idle"
             /\ MotorOf[requests'[i].by] = requests'[i].property
  <2>1. PICK k \in DOMAIN requests : requests[k] = requests'[i]
    BY <1>1, <1>2, SentReads
  <2>2. requests'[i] \in Message
    BY <1>1
  <2>3. requests'[i].by \in Waits
    BY <1>2, <2>2, MessageKinds
  <2>4. /\ pc[requests'[i].by] # "idle"
        /\ MotorOf[requests'[i].by] = requests'[i].property
    BY <1>2, <2>1 DEF Wake, Reads
  <2>. QED
    BY <2>3, <2>4
<1>3. ASSUME NEW i \in DOMAIN events, events[i].command = "REPLY"
      PROVE  /\ pc'[events[i].by] # "idle"
             /\ MotorOf[events[i].by] = events[i].property
  <2>1. events[i] \in Notice
    BY <1>1
  <2>2. events[i].by \in Waits
    BY <1>3, <2>1 DEF Notice
  <2>. QED
    BY <1>3, <2>2 DEF Wake, Reads
<1>4. ASSUME NEW w \in waiting', w.owner \in Waits
      PROVE  w = Waiting(w.owner) /\ pc'[w.owner] \in {"reading", "waiting"}
  BY <1>4 DEF Wake, Reads
<1>5. ASSUME NEW a \in answers
      PROVE  a.owner \in Waits /\ pc'[a.owner] # "idle"
  BY DEF Wake, Reads
<1>6. ASSUME NEW u \in Waits, pc'[u] = "reading"
      PROVE  Asked(requests, u)' \/ Answered(events, u) \/ \E a \in answers : a.owner = u
  BY <1>1, <1>6, SentReads DEF Wake, Reads
<1>7. Reads'
  BY <1>2, <1>3, <1>4, <1>5, <1>6 DEF Reads, Waiting, Waiter
<1>8. ASSUME NEW m \in open'
      PROVE  Informed(m)' /\ Heard(m)' = Heard(m) /\ Coming(m)' = Coming(m)
  <2>1. m \in open /\ Informed(m)
    BY DEF Wake
  <2>2. Fresh(m)' => Fresh(m)
    BY DEF Fresh
  <2>. QED
    BY <2>1, <2>2, InformedClient
<1>9. ASSUME NEW u \in Waits, MotorOf[u] \in open'
      PROVE  Roused(u)'
  <2>1. Roused(u)
    BY <1>9 DEF Wake
  <2>2. /\ Heard(MotorOf[u])' = Heard(MotorOf[u])
        /\ Coming(MotorOf[u])' = Coming(MotorOf[u])
    BY <1>8, <1>9
  <2>3. Waiting(u).owner = u
    BY DEF Waiting, Waiter
  <2>4. Waiting(u) \in waiting' => Waiting(u) \in waiting
    BY <2>3
  <2>5. pc'[u] = "waiting" => pc[u] = "waiting"
    OBVIOUS
  <2>6. answers' \subseteq answers
    OBVIOUS
  <2>. QED
    BY <2>1, <2>2, <2>4, <2>5, <2>6, RousedSame
<1>10. \E u \in Tasks : pc'[u] # "idle"
  OBVIOUS
<1>. QED
  BY <1>7, <1>8, <1>9, <1>10 DEF Wake

\* A step of one task, which is no wait that has not come to its end.
LEMMA WakeTask ==
  ASSUME Inv, Inv', Wake, NEW more \in Seq(Silent), Sends(more),
         UNCHANGED <<events, serverVars, answers, cache>>, open' \subseteq open,
         NEW t \in Tasks, pc'[t] # "idle",
         t \in Waits => pc'[t] \notin {"waiting", "reading"},
         \A u \in Waits : u # t => pc'[u] = pc[u],
         \A w \in waiting' : w.owner \in Waits => w \in waiting /\ w.owner # t,
         \A i \in DOMAIN more : more[i].command # "CHAN_READ"
  PROVE  Wake'
<1>1. /\ \A u \in Waits : pc'[u] = "idle" => pc[u] = "idle"
      /\ \A u \in Waits : pc'[u] \in {"waiting", "reading"} => pc'[u] = pc[u]
  OBVIOUS
<1>2. \A w \in waiting' : w.owner \in Waits => w \in waiting /\ pc'[w.owner] = pc[w.owner]
  OBVIOUS
<1>. QED
  BY <1>1, <1>2, WakeClient

\* Messages that ask for nothing.
LEMMA AskNothing ==
  /\ \A i \in DOMAIN <<>> : <<>>[i].command # "CHAN_READ"
  /\ \A i \in DOMAIN <<AbortAll>> : <<AbortAll>>[i].command # "CHAN_READ"
  /\ \A m, t : \A i \in DOMAIN <<StartOne(m, t)>> :
        <<StartOne(m, t)>>[i].command # "CHAN_READ"
BY DEF AbortAll, StartOne, Msg

LEMMA SyncAsksNothing ==
  ASSUME pending \in Seq(Motors), NEW t \in Syncs, NEW k \in 1..(Len(pending) + 1),
         NEW i \in DOMAIN SyncMessages(t, k)
  PROVE  SyncMessages(t, k)[i].command # "CHAN_READ"
<1>1. PICK a, b, c : /\ a = Prestarting(t) /\ b = StartEach(t, SubSeq(pending, 1, k - 1))
                     /\ c = Brackets(k)
  OBVIOUS
<1>2. a \in Seq(Message) /\ b \in Seq(Message) /\ c \in Seq(Message)
  BY <1>1, SyncMessagesType
<1>3. \A j \in DOMAIN a : a[j].command # "CHAN_READ"
  BY <1>1 DEF Prestarting, Prestart, Msg
<1>4. \A j \in DOMAIN b : b[j].command # "CHAN_READ"
  <2>1. Len(b) = k - 1 /\ \A j \in 1..(k - 1) : b[j] = StartOne(pending[j], t)
    BY <1>1, SyncMessagesType
  <2>2. DOMAIN b = 1..(k - 1)
    BY <1>2, <2>1
  <2>3. \A m : StartOne(m, t).command # "CHAN_READ"
    BY DEF StartOne, Msg
  <2>. QED
    BY <2>1, <2>2, <2>3
<1>5. \A j \in DOMAIN c : c[j].command # "CHAN_READ"
  BY <1>1 DEF Brackets, StartAll, Msg
<1>6. PICK d : d = a \o b
  OBVIOUS
<1>7. d \in Seq(Message) /\ SyncMessages(t, k) = d \o c
  BY <1>1, <1>2, <1>6 DEF SyncMessages
<1>8. \A j \in DOMAIN d : d[j].command # "CHAN_READ"
  BY <1>2, <1>3, <1>4, <1>6, ConcatElements
<1>9. PICK e : e = d \o c
  OBVIOUS
<1>10. ASSUME NEW j \in DOMAIN e
       PROVE  e[j].command # "CHAN_READ"
  <2>1. /\ j \in DOMAIN d => e[j] = d[j]
        /\ j \in DOMAIN d \/ \E l \in DOMAIN c : e[j] = c[l]
    <3>1. c \in Seq(Message) /\ d \in Seq(Message)
      BY <1>2, <1>7
    <3>2. /\ \A j2 \in DOMAIN d : e[j2] = d[j2]
          /\ \A k2 \in DOMAIN c : e[Len(d) + k2] = c[k2]
          /\ \A j2 \in DOMAIN e : j2 \in DOMAIN d \/ \E k2 \in DOMAIN c : j2 = Len(d) + k2
      BY SMTT(30), <1>9, <3>1, ConcatElements
    <3>. QED
      BY <3>2
  <2>. QED
    BY <1>5, <1>8, <2>1
<1>. QED
  BY <1>7, <1>9, <1>10

LEMMA WakeMove ==
  ASSUME Inv, Inv', Wake, NEW t \in Moves, Move(t)
  PROVE  Wake'
<1>1. PICK m : m = MotorOf[t]
  OBVIOUS
<1>2. /\ pc' = [pc EXCEPT ![t] = "waiting"]
      /\ m \in Motors /\ t \in Tasks /\ t \notin Waits
      /\ Enter(t, <<Moving(m)>>, <<StartOne(m, t)>>)
      /\ Expect(t, <<Moving(m)>>, FALSE)
      /\ UNCHANGED <<events, open, serverVars, answers, cache>>
      /\ <<StartOne(m, t)>> \in Seq(Silent) /\ <<StartOne(m, t)>> \in Seq(Message)
      /\ StreamTypeOK /\ WireOK
  BY <1>1, TasksApart, MotorsAssumption, SilentFacts, MessageFacts
     DEF Move, Goto, serverVars, Inv, TypeOK
<1>3. pc'[t] = "waiting" /\ \A u \in Waits : u # t => pc'[u] = pc[u]
  BY <1>2, TasksApart DEF Inv, TypeOK
<1>4. \A w \in waiting' : w.owner \in Waits => w \in waiting /\ w.owner # t
  BY <1>2 DEF Expect, Waiter
<1>5. t \notin open
  BY <1>2, TasksApart DEF Inv, TypeOK
<1>6. PICK more \in Seq(Silent) : more = <<StartOne(m, t)>>
  BY <1>2
<1>7. Sends(more) /\ \A i \in DOMAIN more : more[i].command # "CHAN_READ"
  BY <1>2, <1>5, <1>6, EnterMovingSends, AskNothing
<1>8. pc'[t] # "idle" /\ open' \subseteq open
  BY <1>2, <1>3
<1>. QED
  BY <1>2, <1>3, <1>4, <1>7, <1>8, WakeTask

LEMMA WakeStartMove ==
  ASSUME Inv, Inv', Wake, NEW t \in Starts, StartMove(t)
  PROVE  Wake'
<1>1. PICK m : m = MotorOf[t]
  OBVIOUS
<1>2. /\ pc' = [pc EXCEPT ![t] = "waiting", ![Child[t]] = "called"]
      /\ m \in Motors /\ t \in Tasks /\ t \notin Waits
      /\ Child[t] \in Tasks /\ Child[t] \notin Waits /\ Child[t] # t
      /\ Enter(t, <<Moving(m)>>, <<>>)
      /\ Expect(t, <<Moving(m)>>, TRUE)
      /\ UNCHANGED <<events, open, serverVars, answers, cache>>
      /\ <<>> \in Seq(Silent) /\ <<>> \in Seq(Message)
      /\ StreamTypeOK /\ WireOK
  <2>1. Child[t] \in Moves /\ Starts \cap Waits = {} /\ Moves \cap Waits = {}
        /\ Starts \cap Moves = {}
    BY MotorsAssumption
  <2>2. /\ m \in Motors /\ t \in Tasks /\ t \notin Waits
        /\ Child[t] \in Tasks /\ Child[t] \notin Waits /\ Child[t] # t
    BY <1>1, <2>1, TasksApart
  <2>3. /\ pc' = [pc EXCEPT ![t] = "waiting", ![Child[t]] = "called"]
        /\ Enter(t, <<Moving(m)>>, <<>>)
        /\ Expect(t, <<Moving(m)>>, TRUE)
        /\ UNCHANGED <<events, open, serverVars, answers, cache>>
    BY <1>1 DEF StartMove
  <2>. QED
    BY <2>2, <2>3, SilentFacts, MessageFacts DEF Inv, TypeOK
<1>3. pc'[t] = "waiting" /\ \A u \in Waits : u # t => pc'[u] = pc[u]
  BY <1>2, TasksApart DEF Inv, TypeOK
<1>4. \A w \in waiting' : w.owner \in Waits => w \in waiting /\ w.owner # t
  BY <1>2 DEF Expect, Waiter
<1>5. t \notin open
  BY <1>2, TasksApart DEF Inv, TypeOK
<1>6. Sends(<<>>)
  BY <1>2, <1>5, EnterMovingSends
<1>. QED
  BY <1>2, <1>3, <1>4, <1>6, AskNothing, WakeTask

LEMMA WakeReturn ==
  ASSUME Inv, Inv', Wake, NEW t \in Moves \cup Starts \cup Waits, Return(t)
  PROVE  Wake'
<1>1. PICK m : m = MotorOf[t]
  OBVIOUS
<1>2. /\ pc[t] = "waiting" /\ t \in Tasks /\ m \in Motors
      /\ Exit(t, Moving(m), <<>>) /\ ~Expects(t, Moving(m))
      /\ UNCHANGED <<events, open, waiting, serverVars, answers, cache>>
      /\ <<>> \in Seq(Message) /\ <<>> \in Seq(Silent) /\ StreamTypeOK /\ WireOK
  BY <1>1, TasksApart DEF Return, serverVars, Inv, TypeOK
<1>3. PICK l \in {"failed", "done"} : pc' = [pc EXCEPT ![t] = l]
  BY DEF Return, Goto
<1>4. pc'[t] = l /\ \A u \in Waits : u # t => pc'[u] = pc[u]
  BY <1>2, <1>3, TasksApart DEF Inv, TypeOK
<1>5. /\ Moving(m) \in MotorStreams /\ StreamMotor(Moving(m)) = m
      /\ depth[Moving(m)] > 0 /\ watchers[m] > 0
  <2>1. t \in MovingHolders(m)
    BY <1>1, <1>2 DEF MovingHolders
  <2>. QED
    BY <1>2, <2>1, StreamFacts, CountsBeforeLeave DEF Inv
<1>6. Sends(<<>>)
  BY <1>2, <1>5, ExitSendsMore
<1>7. \A w \in waiting' : w.owner \in Waits => w \in waiting /\ w.owner # t
  BY <1>1, <1>2 DEF Wake, Reads, Waiting, Waiter, Expects
<1>. QED
  BY <1>2, <1>4, <1>6, <1>7, AskNothing, WakeTask

LEMMA WakeQuiet ==
  ASSUME Inv, Inv', Wake,
         \/ \E t \in Moves : MoveRefused(t)
         \/ \E t \in Syncs : \/ SyncRefused(t) \/ SyncEnter(t) \/ SyncBodyRaises(t)
                             \/ \E m \in Motors : PrepareMove(t, m)
  PROVE  Wake'
<1>1. /\ UNCHANGED <<depth, listening, initialized, requests, events, open, waiting, answers,
                     cache, serverVars>>
      /\ WireOK /\ <<>> \in Seq(Silent)
      /\ pc \in [Tasks -> {"idle", "called", "reading", "waiting", "preparing", "unwinding"}
                          \cup Ended]
  BY DEF MoveRefused, SyncRefused, SyncEnter, SyncBodyRaises, PrepareMove, streamVars, serverVars,
         Inv, TypeOK
<1>2. PICK t \in Moves \cup Syncs : pc'[t] # "idle" /\ \A u \in Tasks : u # t => pc'[u] = pc[u]
  <2>1. ASSUME NEW t \in Moves, MoveRefused(t)
        PROVE  pc'[t] # "idle" /\ \A u \in Tasks : u # t => pc'[u] = pc[u]
    BY <1>1, <2>1, TasksApart DEF MoveRefused, Goto
  <2>2. ASSUME NEW t \in Syncs, SyncRefused(t) \/ SyncEnter(t) \/ SyncBodyRaises(t)
        PROVE  pc'[t] # "idle" /\ \A u \in Tasks : u # t => pc'[u] = pc[u]
    BY <1>1, <2>2, TasksApart DEF SyncRefused, SyncEnter, SyncBodyRaises, Goto
  <2>3. ASSUME NEW t \in Syncs, NEW m \in Motors, PrepareMove(t, m)
        PROVE  pc'[t] # "idle" /\ \A u \in Tasks : u # t => pc'[u] = pc[u]
    BY <2>3 DEF PrepareMove
  <2>. QED
    BY <2>1, <2>2, <2>3
<1>3. t \in Tasks /\ t \notin Waits /\ Waits \subseteq Tasks
  BY TasksApart, MotorsAssumption
<1>4. \A w \in waiting' : w.owner \in Waits => w \in waiting /\ w.owner # t
  BY <1>1, <1>3
<1>5. \A u \in Waits : u # t => pc'[u] = pc[u]
  BY <1>2, <1>3
<1>6. Sends(<<>>)
  BY <1>1, QuietSends
<1>7. UNCHANGED <<events, serverVars, answers, cache>> /\ open' \subseteq open
  BY <1>1
<1>. QED
  BY <1>1, <1>2, <1>3, <1>4, <1>5, <1>6, <1>7, AskNothing, WakeTask

LEMMA WakeSyncStart ==
  ASSUME Inv, Inv', Wake, NEW t \in Syncs, SyncStart(t)
  PROVE  Wake'
<1>1. PICK k \in 1..(Len(pending) + 1) :
         Enter(t, [i \in 1..Len(pending) |-> Synced(pending[i])], SyncMessages(t, k))
  BY SyncStartHolders
<1>2. PICK more \in Seq(Silent) : more = SyncMessages(t, k)
  BY SyncSilent DEF Inv, TypeOK
<1>3. /\ pending \in Seq(Motors) /\ t \in Tasks /\ t \notin Waits /\ Distinct(pending)
      /\ more \in Seq(Message) /\ StreamTypeOK /\ WireOK
      /\ UNCHANGED <<events, open, serverVars, answers, cache>>
      /\ Enter(t, [i \in 1..Len(pending) |-> Synced(pending[i])], more)
  BY <1>1, <1>2, SilentNoRegister, TasksApart, MotorsAssumption
     DEF SyncStart, serverVars, Inv, TypeOK, Batches
<1>4. pc'[t] # "idle" /\ \A u \in Waits : u # t => pc'[u] = pc[u]
  <2>1. PICK l \in {"unwinding", "done"} : pc' = [pc EXCEPT ![t] = l]
    BY SyncStartHolders
  <2>. QED
    BY <1>3, <2>1, TasksApart DEF Inv, TypeOK
<1>5. Sends(more)
  <2>1. t \notin open
    BY <1>3, TasksApart DEF Inv, TypeOK
  <2>. QED
    BY <1>3, <2>1, EnterSyncedSends
<1>6. \A w \in waiting' : w.owner \in Waits => w \in waiting /\ w.owner # t
  BY <1>3 DEF SyncStart, Expect, Waiter
<1>7. \A i \in DOMAIN more : more[i].command # "CHAN_READ"
  BY <1>2, <1>3, SyncAsksNothing
<1>. QED
  BY <1>3, <1>4, <1>5, <1>6, <1>7, WakeTask

LEMMA WakeSyncUnwind ==
  ASSUME Inv, Inv', Wake, NEW t \in Syncs, SyncUnwind(t)
  PROVE  Wake'
<1>1. PICK m : m = batch[t][left[t]]
  OBVIOUS
<1>2. PICK more \in Seq(Silent) : /\ Exit(t, Synced(m), more)
                                  /\ \A i \in DOMAIN more : more[i].command # "CHAN_READ"
  BY <1>1, SilentFacts, AskNothing DEF SyncUnwind, Aborting
<1>3. /\ UNCHANGED <<events, open, serverVars, answers, cache>>
      /\ StreamTypeOK /\ WireOK /\ t \in Tasks /\ t \notin Waits /\ more \in Seq(Message)
      /\ waiting' \subseteq waiting
  BY <1>1, TasksApart, MotorsAssumption, SilentNoRegister
     DEF SyncUnwind, serverVars, Inv, TypeOK, GiveUp
<1>4. /\ m \in Motors /\ pc[t] = "unwinding"
      /\ pc' = pc \/ \E l \in {"aborted", "done"} : pc' = [pc EXCEPT ![t] = l]
      /\ SyncedHolders(m) = {t}
  BY <1>1, SyncUnwindHolders
<1>5. pc'[t] # "idle" /\ \A u \in Waits : u # t => pc'[u] = pc[u]
  BY <1>3, <1>4, TasksApart DEF Inv, TypeOK
<1>6. /\ Synced(m) \in MotorStreams /\ StreamMotor(Synced(m)) = m
      /\ depth[Synced(m)] > 0 /\ watchers[m] > 0
  <2>1. SyncedHolders(m) # {}
    BY <1>4
  <2>2. depth[Synced(m)] # 0 /\ watchers[m] # 0 /\ depth[Synced(m)] \in Nat /\ watchers[m] \in Nat
    BY <1>4, <2>1, NobodyHolds
  <2>. QED
    BY <1>4, <2>2, StreamFacts
<1>7. Sends(more)
  BY <1>2, <1>3, <1>4, <1>6, ExitSendsMore
<1>8. \A w \in waiting' : w.owner \in Waits => w \in waiting /\ w.owner # t
  BY <1>3
<1>. QED
  BY <1>2, <1>3, <1>5, <1>7, <1>8, WakeTask

LEMMA WakeExitGroup ==
  ASSUME Inv, Inv', Wake, NEW m \in Motors, ExitGroup(m)
  PROVE  Wake'
<1>1. /\ Exit(m, Moving(m), <<>>) /\ m \in open /\ open' \subseteq open
      /\ UNCHANGED <<pc, events, serverVars, answers, cache, waiting>>
      /\ \A t \in Tasks : pc[t] \in {"idle"} \cup Ended
      /\ <<>> \in Seq(Message) /\ <<>> \in Seq(Silent) /\ StreamTypeOK /\ WireOK
  BY DEF ExitGroup, serverVars, Inv, TypeOK
<1>2. PICK t \in Tasks : pc[t] # "idle"
  BY DEF ExitGroup
<1>3. Waits \subseteq Tasks
  BY TasksApart
<1>4. /\ Moving(m) \in MotorStreams /\ StreamMotor(Moving(m)) = m
      /\ depth[Moving(m)] > 0 /\ watchers[m] > 0
  <2>1. m \in MovingHolders(m)
    BY <1>1 DEF MovingHolders
  <2>. QED
    BY <2>1, StreamFacts, CountsBeforeLeave DEF Inv
<1>5. Sends(<<>>)
  BY <1>1, <1>4, ExitSendsMore
<1>6. \A w \in waiting : w.owner \notin Waits
  BY <1>1, <1>3 DEF Wake, Reads, Ended
<1>. QED
  BY <1>1, <1>2, <1>3, <1>5, <1>6, AskNothing, WakeClient

LEMMA WakeWaitUntil ==
  ASSUME Inv, Inv', Wake, NEW t \in Waits, WaitUntil(t)
  PROVE  Wake'
<1>1. PICK m : m = MotorOf[t]
  OBVIOUS
<1>2. PICK more : more = IF cache[m] = None THEN <<Msg("CHAN_READ", m, t)>> ELSE <<>>
  OBVIOUS
<1>3. /\ pc[t] = "idle" /\ t \in Tasks /\ m \in Motors /\ t \notin open
      /\ Enter(t, <<Moving(m)>>, more) /\ more \in Seq(Silent) /\ more \in Seq(Message)
      /\ UNCHANGED <<events, open, serverVars, answers, cache>>
      /\ StreamTypeOK /\ WireOK
  <2>1. t \in Tasks /\ m \in Motors /\ more \in Seq(Silent) /\ more \in Seq(Message)
    BY <1>1, <1>2, TasksApart, SilentFacts, MessageFacts
  <2>2. t \notin open
    BY <2>1, TasksApart DEF Inv, TypeOK
  <2>. QED
    BY <1>1, <1>2, <2>1, <2>2 DEF WaitUntil, Callable, Inv, TypeOK
<1>4. /\ pc'[t] = IF cache[m] = None THEN "reading" ELSE "waiting"
      /\ \A u \in Waits : u # t => pc'[u] = pc[u]
  BY <1>1, <1>3, TasksApart DEF WaitUntil, Goto, Inv, TypeOK
<1>5. /\ waiting' = IF cache[m] = FALSE THEN waiting ELSE waiting \cup {Waiting(t)}
      /\ \A u \in Waits : Waiting(u).owner = u
  <2>1. Range(<<Moving(m)>>) = {Moving(m)}
    BY DEF Range
  <2>2. IF cache[m] = FALSE THEN waiting' = waiting ELSE Expect(t, <<Moving(m)>>, FALSE)
    BY <1>1 DEF WaitUntil
  <2>. QED
    BY <1>1, <2>1, <2>2 DEF Expect, Waiting, Waiter
<1>6. Sends(more)
  BY <1>3, EnterMovingSends
<1>7. /\ \A w \in waiting : w.owner # t
      /\ \A a \in answers : a.owner # t
      /\ \A i \in DOMAIN events : events[i].command = "REPLY" => events[i].by # t
      /\ \A i \in DOMAIN requests : requests[i].command = "CHAN_READ" => requests[i].by # t
  BY <1>3 DEF Wake, Reads
<1>8. ASSUME NEW w \in waiting', w.owner \in Waits
      PROVE  w = Waiting(w.owner) /\ pc'[w.owner] \in {"reading", "waiting"}
  <2>1. CASE w \in waiting
    BY <1>4, <1>7, <1>8, <2>1 DEF Wake, Reads
  <2>2. CASE w = Waiting(t)
    BY <1>4, <1>5, <2>2
  <2>. QED
    BY <1>5, <2>1, <2>2
<1>9. ASSUME NEW i \in DOMAIN requests', requests'[i].command = "CHAN_READ"
      PROVE  /\ pc'[requests'[i].by] # "idle"
             /\ MotorOf[requests'[i].by] = requests'[i].property
  <2>1. CASE \E k \in DOMAIN requests : requests[k] = requests'[i]
    <3>1. PICK k \in DOMAIN requests : requests[k] = requests'[i]
      BY <2>1
    <3>2. requests[k] \in Message
      BY <1>3 DEF WireOK
    <3>3. requests'[i].by \in Waits /\ requests'[i].by # t
      BY <1>7, <1>9, <3>1, <3>2, MessageKinds
    <3>. QED
      BY <1>4, <1>9, <3>1, <3>3 DEF Wake, Reads
  <2>2. CASE \E k \in DOMAIN more : more[k] = requests'[i]
    <3>1. requests'[i] = Msg("CHAN_READ", m, t)
      BY <1>2, <2>2
    <3>2. requests'[i].by = t /\ requests'[i].property = m
      BY <3>1 DEF Msg
    <3>. QED
      BY <1>1, <1>4, <3>2
  <2>. QED
    BY <1>3, <1>6, <1>9, <2>1, <2>2, SentReads
<1>10. ASSUME NEW i \in DOMAIN events, events[i].command = "REPLY"
       PROVE  pc'[events[i].by] # "idle" /\ MotorOf[events[i].by] = events[i].property
  <2>1. events[i] \in Notice
    BY <1>3 DEF WireOK
  <2>2. events[i].by \in Waits /\ events[i].by # t
    BY <1>7, <1>10, <2>1 DEF Notice
  <2>. QED
    BY <1>4, <1>10, <2>2 DEF Wake, Reads
<1>11. ASSUME NEW a \in answers
       PROVE  a.owner \in Waits /\ pc'[a.owner] # "idle"
  BY <1>4, <1>7 DEF Wake, Reads
<1>12. ASSUME NEW u \in Waits, pc'[u] = "reading"
       PROVE  Asked(requests, u)' \/ Answered(events, u) \/ \E a \in answers : a.owner = u
  <2>1. CASE u = t
    <3>1. more = <<Msg("CHAN_READ", m, t)>>
      BY <1>2, <1>4, <1>12, <2>1
    <3>2. 1 \in DOMAIN more /\ more[1] = Msg("CHAN_READ", m, t)
      BY <3>1
    <3>3. Asked(more, u)
      BY <2>1, <3>2 DEF Asked, Msg
    <3>. QED
      BY <1>3, <1>6, <3>3, SentReads
  <2>2. CASE u # t
    <3>1. Asked(requests, u) \/ Answered(events, u) \/ \E a \in answers : a.owner = u
      BY <1>4, <1>12, <2>2 DEF Wake, Reads
    <3>. QED
      BY <1>3, <1>6, <3>1, SentReads
  <2>. QED
    BY <2>1, <2>2
<1>13. Reads'
  BY <1>3, <1>8, <1>9, <1>10, <1>11, <1>12 DEF Reads, Waiting, Waiter
<1>14. ASSUME NEW n \in open
       PROVE  Informed(n)' /\ Heard(n)' = Heard(n) /\ Coming(n)' = Coming(n)
  <2>1. Informed(n) /\ n \in open'
    BY <1>3 DEF Wake
  <2>2. \A u \in Waits : pc'[u] = "idle" => pc[u] = "idle"
    BY <1>3, <1>4
  <2>3. Fresh(n)' => Fresh(n) /\ cache'[n] = cache[n]
    BY <1>3, <2>2 DEF Fresh
  <2>4. UNCHANGED <<events, serverVars>>
    BY <1>3
  <2>. QED
    BY <1>3, <1>6, <2>1, <2>3, <2>4, InformedClient
<1>15. ASSUME MotorOf[t] \in open
       PROVE  Roused(t)'
  <2>1. ASSUME pc'[t] = "waiting", Waiting(t) \in waiting', OnlyWait(t)'
        PROVE  Heard(m)' /\ Coming(m)'
    <3>1. Waiting(t) \notin waiting
      BY <1>5, <1>7
    <3>2. cache[m] # FALSE /\ cache[m] # None
      BY <1>4, <1>5, <2>1, <3>1
    <3>3. cache[m] = TRUE
      BY <1>3, <3>2 DEF StreamTypeOK
    <3>4. Fresh(m)
      <4>1. \A u \in Waits \ {t} : MotorOf[u] = MotorOf[t] => pc'[u] = "idle"
        BY <2>1 DEF OnlyWait
      <4>. QED
        BY <1>1, <1>3, <1>4, <4>1 DEF Fresh
    <3>5. Heard(m) /\ Coming(m)
      BY <1>1, <1>15, <3>3, <3>4 DEF Wake, Informed
    <3>. QED
      BY <1>1, <1>14, <1>15, <3>5
  <2>2. Waiting(t)' = Waiting(t)
    BY DEF Waiting, Waiter
  <2>3. \A a \in answers' : a.owner # t
    BY <1>3, <1>7
  <2>. QED
    BY <1>1, <2>1, <2>2, <2>3 DEF Roused
<1>16. ASSUME NEW u \in Waits, MotorOf[u] \in open, u # t
       PROVE  Roused(u)'
  <2>1. Roused(u)
    BY <1>16 DEF Wake
  <2>2. /\ Heard(MotorOf[u])' = Heard(MotorOf[u])
        /\ Coming(MotorOf[u])' = Coming(MotorOf[u])
    BY <1>14, <1>16
  <2>3. Waiting(u) \in waiting' => Waiting(u) \in waiting
    BY <1>5, <1>16
  <2>4. pc'[u] = "waiting" => pc[u] = "waiting"
    BY <1>4, <1>16
  <2>5. \A v \in Waits : pc'[v] = "idle" => pc[v] = "idle"
    BY <1>3, <1>4
  <2>6. answers' \subseteq answers
    BY <1>3
  <2>. QED
    BY <2>1, <2>2, <2>3, <2>4, <2>5, <2>6, RousedSame
<1>17. \E u \in Tasks : pc'[u] # "idle"
  BY <1>3, <1>4
<1>. QED
  BY <1>3, <1>13, <1>14, <1>15, <1>16, <1>17 DEF Wake

LEMMA WakeWaitRead ==
  ASSUME Inv, Inv', Wake, NEW t \in Waits, WaitRead(t)
  PROVE  Wake'
<1>1. PICK m : m = MotorOf[t]
  OBVIOUS
<1>2. PICK a \in answers :
        /\ a.owner = t /\ answers' = answers \ {a}
        /\ cache' = [cache EXCEPT ![m] = a.value]
        /\ IF a.value = FALSE THEN GiveUp(t, Moving(m)) ELSE UNCHANGED waiting
  BY <1>1 DEF WaitRead
<1>3. /\ pc[t] = "reading" /\ t \in Tasks /\ m \in Motors
      /\ UNCHANGED <<depth, listening, initialized, requests, events, open, serverVars>>
      /\ StreamTypeOK /\ WireOK /\ <<>> \in Seq(Silent) /\ a.value \in BOOLEAN
  <2>1. a.value \in BOOLEAN
    BY <1>2 DEF Inv, TypeOK, StreamTypeOK
  <2>. QED
    BY <1>1, <2>1, TasksApart DEF WaitRead, Inv, TypeOK
<1>4. pc'[t] = "waiting" /\ \A u \in Waits : u # t => pc'[u] = pc[u]
  BY <1>3, TasksApart DEF WaitRead, Goto, Inv, TypeOK
<1>5. /\ waiting' \subseteq waiting
      /\ a.value = FALSE => Waiting(t) \notin waiting'
  BY <1>1, <1>2 DEF GiveUp, Waiting, Waiter
<1>6. Sends(<<>>)
  BY <1>3, QuietSends
<1>7. \A u \in Waits : pc'[u] = "idle" => pc[u] = "idle"
  BY <1>3, <1>4
<1>8. ASSUME NEW w \in waiting', w.owner \in Waits
      PROVE  w = Waiting(w.owner) /\ pc'[w.owner] \in {"reading", "waiting"}
  BY <1>4, <1>5, <1>8 DEF Wake, Reads
<1>9. ASSUME NEW i \in DOMAIN requests, requests[i].command = "CHAN_READ"
      PROVE  /\ pc'[requests[i].by] # "idle"
             /\ MotorOf[requests[i].by] = requests[i].property
  <2>1. requests[i] \in Message
    BY <1>3 DEF WireOK
  <2>2. requests[i].by \in Waits
    BY <1>9, <2>1, MessageKinds
  <2>. QED
    BY <1>7, <1>9, <2>2 DEF Wake, Reads
<1>10. ASSUME NEW i \in DOMAIN events, events[i].command = "REPLY"
       PROVE  pc'[events[i].by] # "idle" /\ MotorOf[events[i].by] = events[i].property
  <2>1. events[i] \in Notice
    BY <1>3 DEF WireOK
  <2>2. events[i].by \in Waits
    BY <1>10, <2>1 DEF Notice
  <2>. QED
    BY <1>7, <1>10, <2>2 DEF Wake, Reads
<1>11. ASSUME NEW b \in answers'
       PROVE  b.owner \in Waits /\ pc'[b.owner] # "idle"
  BY <1>2, <1>7 DEF Wake, Reads
<1>12. ASSUME NEW u \in Waits, pc'[u] = "reading"
       PROVE  Asked(requests, u) \/ Answered(events, u) \/ \E b \in answers' : b.owner = u
  <2>1. u # t /\ pc[u] = "reading"
    BY <1>4, <1>12
  <2>. QED
    BY <1>2, <2>1 DEF Wake, Reads
<1>13. Reads'
  BY <1>3, <1>8, <1>9, <1>10, <1>11, <1>12 DEF Reads, Waiting, Waiter
<1>14. ASSUME NEW n \in open
       PROVE  Informed(n)' /\ Heard(n)' = Heard(n) /\ Coming(n)' = Coming(n)
  <2>1. Informed(n) /\ n \in open' /\ n \in Motors
    BY <1>3 DEF Wake, Inv, TypeOK
  <2>2. Fresh(n)' => n # m
    BY <1>1, <1>4 DEF Fresh
  <2>3. n # m => cache'[n] = cache[n]
    BY <1>2, <1>3, <2>1 DEF StreamTypeOK
  <2>4. Fresh(n)' => Fresh(n)
    BY <1>7 DEF Fresh
  <2>5. Fresh(n)' => Fresh(n) /\ cache'[n] = cache[n]
    BY <2>2, <2>3, <2>4
  <2>6. UNCHANGED <<events, serverVars>>
    BY <1>3
  <2>. QED
    BY <1>3, <1>6, <2>1, <2>5, <2>6, InformedClient
<1>15. ASSUME MotorOf[t] \in open
       PROVE  Roused(t)'
  <2>1. /\ Roused(t) /\ Waiting(t)' = Waiting(t)
        /\ Heard(m)' = Heard(m) /\ Coming(m)' = Coming(m)
    BY <1>1, <1>14, <1>15 DEF Wake, Waiting, Waiter
  <2>2. \A b \in answers' : b.owner = t /\ b.value = TRUE =>
           Heard(m) /\ (Waiting(t) \in waiting' => Coming(m))
    BY <1>1, <1>2, <1>5, <2>1 DEF Roused
  <2>3. ASSUME Waiting(t) \in waiting'
        PROVE  Heard(m) /\ Coming(m)
    <3>1. a.value = TRUE /\ Waiting(t) \in waiting
      BY <1>3, <1>5, <2>3
    <3>. QED
      BY <1>1, <1>2, <2>1, <3>1 DEF Roused
  <2>. QED
    BY <1>1, <2>1, <2>2, <2>3 DEF Roused
<1>16. ASSUME NEW u \in Waits, MotorOf[u] \in open, u # t
       PROVE  Roused(u)'
  <2>1. Roused(u)
    BY <1>16 DEF Wake
  <2>2. /\ Heard(MotorOf[u])' = Heard(MotorOf[u])
        /\ Coming(MotorOf[u])' = Coming(MotorOf[u])
    BY <1>14, <1>16
  <2>3. Waiting(u) \in waiting' => Waiting(u) \in waiting
    BY <1>5
  <2>4. pc'[u] = "waiting" => pc[u] = "waiting"
    BY <1>4, <1>16
  <2>5. answers' \subseteq answers
    BY <1>2
  <2>. QED
    BY <1>7, <2>1, <2>2, <2>3, <2>4, <2>5, RousedSame
<1>17. \E u \in Tasks : pc'[u] # "idle"
  BY <1>3, <1>4
<1>. QED
  BY <1>3, <1>13, <1>14, <1>15, <1>16, <1>17 DEF Wake

LEMMA WakeEnterGroup ==
  ASSUME Inv, Inv', Calm, Wake, NEW m \in Motors, EnterGroup(m)
  PROVE  Wake'
<1>1. /\ Enter(m, <<Moving(m)>>, <<>>) /\ m \notin open /\ open' = open \cup {m}
      /\ UNCHANGED <<cache, waiting, answers, events, pc, serverVars>>
      /\ \A t \in Tasks : pc[t] = "idle"
      /\ <<>> \in Seq(Message) /\ <<>> \in Seq(Silent) /\ StreamTypeOK /\ WireOK
      /\ Waits \subseteq Tasks /\ m \in Tasks \cup Motors
  BY TasksApart DEF EnterGroup, Inv, TypeOK
<1>2. Unused(m) /\ \A n \in Motors \ open : Unwatched(n)
  BY <1>1 DEF Calm, Groups, Wake
<1>3. watchers[m] = 0 /\ cache[m] = None /\ NoUnregister(requests, m)
  BY <1>1, <1>2 DEF Unwatched
<1>4. PICK rs : rs = <<Register(m)>>
  OBVIOUS
<1>5. rs \in Seq(Message) /\ DOMAIN rs = {1} /\ rs[1] = Register(m)
  <2>1. Register(m) \in Message
    BY DEF Message, Registration, Register
  <2>. QED
    BY <1>4, <2>1, OneElement
<1>6. /\ requests \in Seq(Message) /\ requests' = requests \o rs /\ requests' \in Seq(Message)
      /\ watchers' = [watchers EXCEPT ![m] = @ + 1]
      /\ listening' = IF depth[Moving(m)] = 0
                        THEN [listening EXCEPT ![Moving(m)] = @ \cup {m}] ELSE listening
      /\ initialized' \subseteq initialized
  <2>1. requests' = requests \o (IF watchers[m] = 0 THEN <<Register(m)>> ELSE <<>>) \o <<>>
    BY <1>1, EnterMoving DEF Register
  <2>2. requests' = requests \o rs \o <<>> /\ requests \in Seq(Message)
    BY <1>1, <1>3, <1>4, <2>1 DEF WireOK
  <2>3. requests' = requests \o rs
    BY <1>5, <2>2
  <2>. QED
    BY <1>1, <1>5, <2>2, <2>3, EnterMoving
<1>7. /\ \A n : Register(m) # Unregister(n) /\ ~IsRead(Register(m), n)
      /\ Register(m).command # "CHAN_READ"
  BY DEF Register, Unregister, IsRead, Msg
<1>8. \A n : NoUnregister(rs, n) /\ NoRead(rs, n)
  BY <1>5, <1>7 DEF NoUnregister, NoRead
<1>9. /\ \A w \in waiting : w.owner \notin Waits
      /\ answers = {}
  BY <1>1 DEF Wake, Reads
<1>10. ASSUME NEW i \in DOMAIN requests
       PROVE  requests[i].command # "CHAN_READ"
  <2>1. requests[i] \in Message
    BY <1>6
  <2>2. requests[i].command = "CHAN_READ" => requests[i].by \in Waits
    BY <2>1, MessageKinds
  <2>. QED
    BY <1>1, <2>2 DEF Wake, Reads
<1>11. ASSUME NEW i \in DOMAIN events
       PROVE  events[i].command # "REPLY"
  <2>1. events[i] \in Notice
    BY <1>1 DEF WireOK
  <2>2. events[i].command = "REPLY" => events[i].by \in Waits
    BY <2>1 DEF Notice
  <2>. QED
    BY <1>1, <2>2 DEF Wake, Reads
<1>12. \A i \in DOMAIN requests' : requests'[i].command # "CHAN_READ"
  BY <1>5, <1>6, <1>7, <1>10, ConcatElements
<1>13. Reads'
  BY <1>1, <1>9, <1>11, <1>12 DEF Reads
<1>14. ASSUME NEW n \in Motors \ open'
       PROVE  Unwatched(n)'
  <2>1. Unwatched(n) /\ n # m
    BY <1>1, <1>2, <1>14
  <2>2. watchers'[n] = watchers[n]
    BY <1>1, <1>6, <2>1 DEF StreamTypeOK
  <2>3. NoUnregister(requests, n)'
    BY <1>5, <1>6, <1>8, <2>1, ConcatReads DEF Unwatched
  <2>. QED
    BY <1>1, <2>1, <2>2, <2>3 DEF Unwatched
<1>15. Informed(m)'
  <2>1. m \in listening'[Moving(m)]
    <3>1. depth[Moving(m)] = 0
      BY <1>3, NobodyHolds
    <3>2. Moving(m) \in MotorStreams
      BY StreamFacts
    <3>. QED
      BY <1>1, <1>6, <3>1, <3>2 DEF StreamTypeOK
  <2>2. NoUnregister(requests, m)' /\ AfterRegister(requests, m)'
    <3>1. AfterRegister(requests, m)
      BY <1>10 DEF AfterRegister, IsRead
    <3>. QED
      BY <1>3, <1>5, <1>6, <1>8, <3>1, ConcatReads
  <2>3. ~NoRegister(requests, m)'
    <3>1. ~NoRegister(rs, m)
      BY <1>5 DEF NoRegister
    <3>. QED
      BY <1>5, <1>6, <3>1, ConcatRequests
  <2>4. m \notin registered' /\ NoEvent(events, m) /\ ~Heard(m)'
    BY <1>1, <1>2, <1>6 DEF Unused, Quiet, Heard, serverVars
  <2>5. AfterEvent(events, m)
    BY <1>11 DEF AfterEvent, IsReply
  <2>6. BeforeStand(events, m)
    BY <1>1, <2>4, <2>5, Untold DEF WireOK
  <2>7. cache'[m] # TRUE
    BY <1>1, <1>3, MotorsAssumption
  <2>. QED
    BY <1>1, <2>1, <2>2, <2>3, <2>4, <2>5, <2>6, <2>7 DEF Informed
<1>16. ASSUME NEW n \in open
       PROVE  Informed(n)'
  <2>1. Informed(n) /\ n \in open'
    BY <1>1, <1>16 DEF Wake
  <2>2. Fresh(n)' => Fresh(n) /\ cache'[n] = cache[n]
    BY <1>1 DEF Fresh
  <2>3. Sends(<<>>)
    BY <1>1, EnterMovingSends
  <2>4. UNCHANGED <<events, serverVars>>
    BY <1>1
  <2>. QED
    BY <1>1, <2>1, <2>2, <2>3, <2>4, InformedClient
<1>17. ASSUME NEW u \in Waits
       PROVE  Roused(u)'
  BY <1>1, <1>9 DEF Roused
<1>. QED
  BY <1>1, <1>13, <1>14, <1>15, <1>16, <1>17 DEF Wake

\* What the server tells of motors that start or stop.
LEMMA TellNews ==
  /\ \A ms \in SUBSET Motors : \A v \in BOOLEAN :
        /\ \A m : NoReply(TellAll(ms, v), m)
        /\ \A i \in DOMAIN TellAll(ms, v) : TellAll(ms, v)[i].command # "REPLY"
        /\ \A m : ~v \/ m \notin ms => NoTrue(TellAll(ms, v), m)
        /\ \A m \in ms \cap registered : ~v => ~NoStand(TellAll(ms, v), m)
  /\ \A n \in Motors :
        /\ \A m : NoReply(Tell(n, FALSE, n), m) /\ NoTrue(Tell(n, FALSE, n), m)
        /\ \A i \in DOMAIN Tell(n, FALSE, n) : Tell(n, FALSE, n)[i].command # "REPLY"
        /\ n \in registered => ~NoStand(Tell(n, FALSE, n), n)
<1>1. ASSUME NEW ms \in SUBSET Motors, NEW v \in BOOLEAN
      PROVE  /\ \A m : NoReply(TellAll(ms, v), m)
             /\ \A i \in DOMAIN TellAll(ms, v) : TellAll(ms, v)[i].command # "REPLY"
             /\ \A m : ~v \/ m \notin ms => NoTrue(TellAll(ms, v), m)
             /\ \A m \in ms \cap registered : ~v => ~NoStand(TellAll(ms, v), m)
  <2>1. PICK order : order = SetToSeq(ms \cap registered)
    OBVIOUS
  <2>2. order \in Seq(ms \cap registered) /\ Range(order) = ms \cap registered
    <3>1. IsFiniteSet(ms \cap registered)
      BY MotorsAssumption, FS_Subset
    <3>. QED
      BY <2>1, <3>1, SetToSeqProperties, SetToSeqCovers
  <2>3. PICK x : x = TellAll(ms, v)
    OBVIOUS
  <2>4. x = [i \in DOMAIN order |-> Event("EVENT", order[i], v, order[i])]
    BY <2>1, <2>3 DEF TellAll
  <2>5. \A i \in DOMAIN order : order[i] \in ms \cap registered
    BY <2>2
  <2>6. \A n : /\ Event("EVENT", n, v, n).command = "EVENT"
               /\ Event("EVENT", n, v, n).property = n
               /\ Event("EVENT", n, v, n).value = v
    BY DEF Event
  <2>7. \A i \in DOMAIN x : /\ x[i].command = "EVENT" /\ x[i].property \in ms
                            /\ x[i].value = v
    BY <2>4, <2>5, <2>6
  <2>8. ASSUME NEW m \in ms \cap registered, ~v
        PROVE  ~NoStand(x, m)
    <3>1. PICK i \in DOMAIN order : order[i] = m
      BY <2>2 DEF Range
    <3>2. i \in DOMAIN x /\ x[i] = Event("EVENT", m, v, m)
      BY <2>4, <3>1
    <3>3. IsStand(x[i], m)
      BY <2>6, <2>8, <3>2 DEF IsStand, IsEvent
    <3>. QED
      BY <3>2, <3>3 DEF NoStand
  <2>9. /\ \A m : NoReply(x, m)
        /\ \A i \in DOMAIN x : x[i].command # "REPLY"
    BY <2>7 DEF NoReply, IsReply
  <2>10. \A m : ~v \/ m \notin ms => NoTrue(x, m)
    BY <2>7 DEF NoTrue, IsTrue
  <2>. QED
    BY <2>3, <2>8, <2>9, <2>10
<1>2. ASSUME NEW n \in Motors
      PROVE  /\ \A m : NoReply(Tell(n, FALSE, n), m) /\ NoTrue(Tell(n, FALSE, n), m)
             /\ \A i \in DOMAIN Tell(n, FALSE, n) : Tell(n, FALSE, n)[i].command # "REPLY"
             /\ n \in registered => ~NoStand(Tell(n, FALSE, n), n)
  <2>1. PICK e : e = Event("EVENT", n, FALSE, n)
    OBVIOUS
  <2>2. PICK x : x = IF n \in registered THEN <<e>> ELSE <<>>
    OBVIOUS
  <2>3. e.command = "EVENT" /\ e.property = n /\ e.value = FALSE
    BY <2>1 DEF Event
  <2>4. /\ DOMAIN x \subseteq {1} /\ \A i \in DOMAIN x : x[i] = e
        /\ n \in registered => 1 \in DOMAIN x
    BY <2>2
  <2>5. /\ \A m : NoReply(x, m) /\ NoTrue(x, m)
        /\ \A i \in DOMAIN x : x[i].command # "REPLY"
    BY <2>3, <2>4 DEF NoReply, IsReply, NoTrue, IsTrue
  <2>6. n \in registered => ~NoStand(x, n)
    BY <2>3, <2>4 DEF NoStand, IsStand, IsEvent
  <2>7. x = Tell(n, FALSE, n)
    BY <2>1, <2>2 DEF Tell
  <2>. QED
    BY <2>5, <2>6, <2>7
<1>. QED
  BY <1>1, <1>2

\* What one step of the server adds, to the readers and about a motor.
Replies(x) ==
    /\ events' = events \o x
    /\ \/ requests' = requests
       \/ /\ requests # <<>> /\ requests' = Tail(requests)
          /\ Head(requests).command = "CHAN_READ" => Answered(x, Head(requests).by)
    /\ \A i \in DOMAIN x : x[i].command = "REPLY" =>
          /\ requests # <<>> /\ Head(requests).command = "CHAN_READ"
          /\ x[i].by = Head(requests).by /\ x[i].property = Head(requests).property
News(x, m) ==
    /\ m \in registered' <=> m \in registered \/ ~NoEvent(x, m)
    /\ m \in registered' \/ requests' = requests \/ Head(requests) # Register(m)
    /\ NoReply(x, m) \/ m \in registered
    /\ moving'[m] # None \/ NoTrue(x, m)
    /\ moving[m] # None /\ moving'[m] = None /\ m \in registered' => ~NoStand(x, m)

LEMMA ServerNews ==
  ASSUME Inv, ServerStep
  PROVE  \E x \in Seq(Notice) :
            /\ Replies(x)
            /\ \A m \in Motors : /\ NoUnregister(requests, m)
                                 /\ m \in registered \/ AfterRegister(requests, m)
                                 => News(x, m)
<1>. DEFINE P(x) == \A m \in Motors : /\ NoUnregister(requests, m)
                                      /\ m \in registered \/ AfterRegister(requests, m)
                                      => News(x, m)
<1>0. SUFFICES \E x \in Seq(Notice) : Replies(x) /\ P(x)
  OBVIOUS
<1>. HIDE DEF P
<1>1. /\ requests \in Seq(Message) /\ events \in Seq(Notice) /\ events \o <<>> = events
      /\ <<>> \in Seq(Notice) /\ \A m : NoEvent(<<>>, m) /\ NoReply(<<>>, m) /\ NoTrue(<<>>, m)
      /\ moving \in [Motors -> Tasks \cup {None}] /\ None \notin Tasks
  BY MotorsAssumption DEF Inv, WireOK, TypeOK, NoEvent, NoReply, NoTrue
<1>2. CASE ServeRegister
  <2>1. requests # <<>> /\ Head(requests) \in Message /\ Head(requests).command = "REGISTER"
        /\ requests' = Tail(requests) /\ moving' = moving
    BY <1>1, <1>2 DEF ServeRegister, Serve
  <2>2. PICK n \in Motors : n = Head(requests).property /\ Head(requests) = Register(n)
    BY <2>1, MessageKinds DEF Register
  <2>3. PICK e : e = Event("EVENT", n, moving[n] # None, None)
    OBVIOUS
  <2>4. e \in Notice
    BY <2>3 DEF Event, Notice
  <2>5. events' = events \o <<e>> /\ registered' = registered \cup {n}
    BY <1>1, <1>2, <2>2, <2>3, <2>4 DEF ServeRegister
  <2>6. PICK x \in Seq(Notice) : x = <<e>>
    BY <2>4, OneElement
  <2>7. DOMAIN x = {1} /\ x[1] = e
    BY <2>6
  <2>8. e.command = "EVENT" /\ e.property = n /\ e.value = (moving[n] # None)
    BY <2>3 DEF Event
  <2>9. Replies(x)
    BY <2>1, <2>5, <2>6, <2>7, <2>8 DEF Replies
  <2>10. /\ \A m : NoEvent(x, m) <=> m # n
         /\ \A m : NoReply(x, m)
         /\ \A m : ~NoTrue(x, m) => m = n /\ moving[n] # None
    BY <2>7, <2>8 DEF NoEvent, IsEvent, NoReply, IsReply, NoTrue, IsTrue
  <2>11. \A m : Register(n) = Register(m) => m = n
    BY DEF Register, Msg
  <2>12. P(x)
    BY <2>1, <2>2, <2>5, <2>10, <2>11 DEF P, News
  <2>. QED
    BY <2>9, <2>12
<1>3. CASE ServeRead
  <2>1. requests # <<>> /\ Head(requests) \in Message /\ Head(requests).command = "CHAN_READ"
        /\ requests' = Tail(requests) /\ registered' = registered /\ moving' = moving
    BY <1>1, <1>3 DEF ServeRead, Serve, serverVars
  <2>2. PICK r : r = Head(requests)
    OBVIOUS
  <2>3. r.property \in Motors /\ r.by \in Waits
    BY <2>1, <2>2, MessageKinds
  <2>4. PICK e : e = Event("REPLY", r.property, moving[r.property] # None, r.by)
    OBVIOUS
  <2>5. e \in Notice
    BY <2>3, <2>4 DEF Event, Notice
  <2>6. events' = events \o <<e>>
    BY <1>1, <1>3, <2>2, <2>4, <2>5 DEF ServeRead
  <2>7. PICK x \in Seq(Notice) : x = <<e>>
    BY <2>5, OneElement
  <2>8. DOMAIN x = {1} /\ x[1] = e
    BY <2>7
  <2>9. /\ e.command = "REPLY" /\ e.property = r.property /\ e.by = r.by
        /\ e.value = (moving[r.property] # None)
    BY <2>4 DEF Event
  <2>10. Answered(x, r.by)
    BY <2>8, <2>9 DEF Answered
  <2>11. Replies(x)
    BY <2>1, <2>2, <2>6, <2>7, <2>8, <2>9, <2>10 DEF Replies
  <2>12. /\ \A m : NoEvent(x, m) /\ (m # r.property => NoReply(x, m))
         /\ \A m : ~NoTrue(x, m) => m = r.property /\ moving[m] # None
    BY <2>8, <2>9 DEF NoEvent, IsEvent, NoReply, IsReply, NoTrue, IsTrue
  <2>13. ASSUME NEW m \in Motors, m \in registered \/ AfterRegister(requests, m)
         PROVE  News(x, m)
    <3>1. m \in registered \/ ~IsRead(r, m)
      BY <1>1, <2>1, <2>2, <2>13, TailReads
    <3>2. NoReply(x, m) \/ m \in registered
      BY <2>1, <2>2, <2>12, <3>1 DEF IsRead
    <3>3. Head(requests) # Register(m)
      BY <2>1 DEF Register, Msg
    <3>. QED
      BY <2>1, <2>12, <3>2, <3>3 DEF News
  <2>14. P(x)
    BY <2>13 DEF P
  <2>. QED
    BY <2>11, <2>14
<1>4. CASE ServeUnregister \/ ServePrestartAll \/ ServeStartOne \/ ServeStartAll
  <2>1. /\ requests # <<>> /\ requests' = Tail(requests) /\ events' = events /\ moving' = moving
        /\ Head(requests).command \notin {"CHAN_READ", "REGISTER"}
        /\ \/ registered' = registered
           \/ /\ Head(requests).command = "UNREGISTER"
              /\ registered' = registered \ {Head(requests).property}
    BY <1>4 DEF ServeUnregister, ServePrestartAll, ServeStartOne, ServeStartAll, Serve
  <2>2. Head(requests) \in Message
    BY <1>1, <2>1
  <2>3. ASSUME NEW m \in Motors, NoUnregister(requests, m)
        PROVE  m \in registered' <=> m \in registered
    <3>1. Head(requests) # Unregister(m)
      BY <1>1, <2>1, <2>3, TailReads
    <3>2. Head(requests).command = "UNREGISTER" => Head(requests).property # m
      BY <2>2, <3>1, MessageKinds DEF Unregister
    <3>. QED
      BY <2>1, <3>2
  <2>4. \A m : Head(requests) # Register(m)
    BY <2>1 DEF Register, Msg
  <2>5. PICK x : x = <<>>
    OBVIOUS
  <2>6. x \in Seq(Notice) /\ DOMAIN x = {} /\ events' = events \o x
    BY <1>1, <2>1, <2>5
  <2>7. Replies(x)
    BY <2>1, <2>6 DEF Replies
  <2>8. P(x)
    BY <1>1, <2>1, <2>3, <2>4, <2>5 DEF P, News
  <2>. QED
    BY <2>6, <2>7, <2>8
<1>5. CASE ServeAbortAll
  <2>1. PICK ms \in SUBSET Motors : /\ ms = {m \in Motors : moving[m] # None}
                                    /\ events' = events \o TellAll(ms, FALSE)
    BY <1>5 DEF ServeAbortAll
  <2>2. /\ requests # <<>> /\ requests' = Tail(requests) /\ registered' = registered
        /\ Head(requests).command = "abort_all"
    BY <1>5 DEF ServeAbortAll, Serve
  <2>3. PICK x \in Seq(Notice) : x = TellAll(ms, FALSE)
    BY TellElements
  <2>4. /\ \A m : m \notin ms \cap registered => NoEvent(x, m)
        /\ \A m : NoReply(x, m) /\ NoTrue(x, m)
        /\ \A i \in DOMAIN x : x[i].command # "REPLY"
        /\ \A m \in ms \cap registered : ~NoStand(x, m)
    BY <2>3, TellElements, TellNews
  <2>5. Replies(x)
    BY <2>1, <2>2, <2>3, <2>4 DEF Replies
  <2>6. \A m : Head(requests) # Register(m)
    BY <2>2 DEF Register, Msg
  <2>7. P(x)
    BY <2>1, <2>2, <2>4, <2>6 DEF P, News
  <2>. QED
    BY <2>5, <2>7
<1>6. CASE Execute
  <2>1. PICK motions \in SUBSET Motion : motions = Head(commands)
    BY <1>6 DEF Execute, Inv, TypeOK
  <2>2. PICK ms \in SUBSET Motors : ms = {x[1] : x \in motions}
    BY DEF Motion
  <2>3. events' = events \o TellAll(ms, TRUE) /\ UNCHANGED <<requests, registered>>
    BY <1>6, <2>1, <2>2 DEF Execute
  <2>4. ASSUME NEW m \in Motors
        PROVE  IF m \in ms THEN moving'[m] # None ELSE moving'[m] = moving[m]
    <3>1. moving'[m] = IF \E x \in motions : x[1] = m
                         THEN (CHOOSE x \in motions : x[1] = m)[2] ELSE moving[m]
      BY <1>6, <2>1 DEF Execute
    <3>2. CASE m \in ms
      <4>1. PICK y : y = CHOOSE x \in motions : x[1] = m
        OBVIOUS
      <4>2. \E x \in motions : x[1] = m
        BY <2>2, <3>2
      <4>3. y \in motions
        BY <4>1, <4>2
      <4>4. y[2] \in Tasks
        BY <4>3 DEF Motion
      <4>. QED
        BY <1>1, <3>1, <3>2, <4>1, <4>2, <4>4
    <3>3. CASE m \notin ms
      BY <2>2, <3>1, <3>3
    <3>. QED
      BY <3>2, <3>3
  <2>5. PICK x \in Seq(Notice) : x = TellAll(ms, TRUE)
    BY TellElements
  <2>6. /\ \A m : m \notin ms \cap registered => NoEvent(x, m)
        /\ \A m : NoReply(x, m) /\ (m \notin ms => NoTrue(x, m))
        /\ \A i \in DOMAIN x : x[i].command # "REPLY"
    BY <2>5, TellElements, TellNews
  <2>7. Replies(x)
    BY <2>3, <2>5, <2>6 DEF Replies
  <2>8. P(x)
    BY <2>3, <2>4, <2>6 DEF P, News
  <2>. QED
    BY <2>7, <2>8
<1>7. ASSUME NEW n \in Motors, Stop(n)
      PROVE  \E x \in Seq(Notice) : Replies(x) /\ P(x)
  <2>1. /\ events' = events \o Tell(n, FALSE, n) /\ UNCHANGED <<requests, registered>>
        /\ moving' = [moving EXCEPT ![n] = None]
    BY <1>7 DEF Stop
  <2>2. PICK x \in Seq(Notice) : x = Tell(n, FALSE, n)
    BY TellElements
  <2>3. /\ \A m : m \notin registered => NoEvent(x, m)
        /\ \A m : NoReply(x, m) /\ NoTrue(x, m)
        /\ \A i \in DOMAIN x : x[i].command # "REPLY"
        /\ n \in registered => ~NoStand(x, n)
    BY <2>2, TellElements, TellNews
  <2>4. Replies(x)
    BY <2>1, <2>2, <2>3 DEF Replies
  <2>5. \A m \in Motors : m # n => moving'[m] = moving[m]
    BY <1>1, <2>1
  <2>6. P(x)
    BY <2>1, <2>3, <2>5 DEF P, News
  <2>. QED
    BY <2>4, <2>6
<1>. QED
  BY <1>2, <1>3, <1>4, <1>5, <1>6, <1>7 DEF ServerStep

LEMMA InformedServer ==
  ASSUME Inv, NEW m \in Motors, Informed(m), UNCHANGED <<streamVars, taskVars>>,
         NEW x \in Seq(Notice), Replies(x), News(x, m)
  PROVE  Informed(m)' /\ Heard(m)' = Heard(m) /\ (Heard(m) /\ Coming(m) => Coming(m)')
<1>1. requests \in Seq(Message) /\ events \in Seq(Notice) /\ events' = events \o x
  BY DEF Inv, WireOK, Replies
<1>2. requests' = requests \/ (requests # <<>> /\ requests' = Tail(requests))
  BY DEF Replies
<1>3. /\ Heard(m)' = Heard(m) /\ Fresh(m)' = Fresh(m) /\ cache' = cache
      /\ m \in listening'[Moving(m)]
  BY DEF Heard, Fresh, Informed, streamVars, taskVars
<1>4. NoUnregister(requests, m)'
  BY <1>1, <1>2, TailReads DEF Informed
<1>5. m \in registered' <=> Heard(m) \/ ~NoEvent(events, m)'
  <2>1. NoEvent(events, m)' <=> NoEvent(events, m) /\ NoEvent(x, m)
    BY <1>1, ConcatRequests
  <2>. QED
    BY <2>1 DEF Informed, News
<1>6. m \in registered' \/ (~NoRegister(requests, m)' /\ AfterRegister(requests, m)')
  <2>1. CASE m \in registered
    BY <2>1 DEF News
  <2>2. CASE m \notin registered /\ m \notin registered'
    <3>1. ~NoRegister(requests, m) /\ AfterRegister(requests, m)
      BY <2>2 DEF Informed
    <3>2. requests' = requests \/ Head(requests) # Register(m)
      BY <2>2 DEF News
    <3>. QED
      BY <1>1, <1>2, <3>1, <3>2, TailReads
  <2>. QED
    BY <2>1, <2>2
<1>7. Heard(m) \/ AfterEvent(events, m)'
  <2>. SUFFICES ASSUME ~Heard(m) PROVE AfterEvent(events, m)'
    OBVIOUS
  <2>1. AfterEvent(events, m) /\ (NoReply(x, m) \/ ~NoEvent(events, m))
    BY DEF Informed, News
  <2>. QED
    BY <1>1, <2>1, ConcatNews
<1>8. moving'[m] # None \/ BeforeStand(events, m)'
  <2>. SUFFICES ASSUME moving'[m] = None PROVE BeforeStand(events, m)'
    OBVIOUS
  <2>1. NoTrue(x, m)
    BY DEF News
  <2>2. CASE moving[m] = None
    BY <1>1, <2>1, <2>2, ConcatNews DEF Informed
  <2>3. CASE moving[m] # None /\ m \in registered'
    <3>1. ~NoStand(x, m)
      BY <2>3 DEF News
    <3>. QED
      BY <1>1, <2>1, <3>1, ConcatNews
  <2>4. CASE m \notin registered'
    <3>1. NoEvent(events, m)' /\ AfterEvent(events, m)'
      BY <1>5, <1>7, <2>4
    <3>2. events' \in Seq(Notice)
      BY <1>1
    <3>. QED
      BY <3>1, <3>2, Untold
  <2>. QED
    BY <2>2, <2>3, <2>4
<1>9. ASSUME Heard(m), Coming(m)
      PROVE  Coming(m)'
  <2>1. m \in registered'
    BY <1>9 DEF Informed, News
  <2>2. NoStand(events, m)' <=> NoStand(events, m) /\ NoStand(x, m)
    BY <1>1, ConcatRequests
  <2>. QED
    BY <1>9, <2>1, <2>2 DEF Coming, News
<1>10. Fresh(m)' /\ cache'[m] = TRUE => Heard(m)' /\ Coming(m)'
  BY <1>3, <1>9 DEF Informed
<1>. QED
  BY <1>3, <1>4, <1>5, <1>6, <1>7, <1>8, <1>9, <1>10 DEF Informed

LEMMA ReadsServer ==
  ASSUME Inv, Reads, UNCHANGED <<streamVars, taskVars>>, NEW x \in Seq(Notice), Replies(x)
  PROVE  Reads'
<1>1. /\ requests \in Seq(Message) /\ events \in Seq(Notice) /\ events' = events \o x
      /\ UNCHANGED <<waiting, answers, pc>>
  BY DEF Inv, WireOK, Replies, streamVars, taskVars
<1>2. /\ requests # <<>> => 1 \in DOMAIN requests /\ Head(requests) = requests[1]
      /\ \A i \in DOMAIN requests' : \E k \in DOMAIN requests : requests'[i] = requests[k]
  <2>1. CASE requests' = requests
    BY <1>1, <2>1, TailElements
  <2>2. CASE requests # <<>> /\ requests' = Tail(requests)
    BY <1>1, <2>2, TailElements
  <2>. QED
    BY <2>1, <2>2 DEF Replies
<1>3. ASSUME NEW i \in DOMAIN requests', requests'[i].command = "CHAN_READ"
      PROVE  /\ pc[requests'[i].by] # "idle"
             /\ MotorOf[requests'[i].by] = requests'[i].property
  <2>1. PICK k \in DOMAIN requests : requests'[i] = requests[k]
    BY <1>2
  <2>. QED
    BY <1>3, <2>1 DEF Reads
<1>4. ASSUME NEW i \in DOMAIN events', events'[i].command = "REPLY"
      PROVE  /\ pc[events'[i].by] # "idle"
             /\ MotorOf[events'[i].by] = events'[i].property
  <2>1. CASE i \in DOMAIN events
    <3>1. events'[i] = events[i]
      BY <1>1, <2>1, ConcatElements
    <3>. QED
      BY <1>4, <2>1, <3>1 DEF Reads
  <2>2. ASSUME NEW j \in DOMAIN x, i = Len(events) + j
        PROVE  /\ pc[events'[i].by] # "idle"
               /\ MotorOf[events'[i].by] = events'[i].property
    <3>1. events'[i] = x[j]
      BY <1>1, <2>2, ConcatElements
    <3>2. /\ requests # <<>> /\ Head(requests).command = "CHAN_READ"
          /\ x[j].by = Head(requests).by /\ x[j].property = Head(requests).property
      BY <1>4, <3>1 DEF Replies
    <3>. QED
      BY <1>2, <3>1, <3>2 DEF Reads
  <2>. QED
    BY <1>1, <2>1, <2>2, ConcatElements
<1>5. ASSUME NEW t \in Waits, pc[t] = "reading"
      PROVE  Asked(requests, t)' \/ Answered(events, t)' \/ \E a \in answers : a.owner = t
  <2>1. Asked(requests, t) \/ Answered(events, t) \/ \E a \in answers : a.owner = t
    BY <1>5 DEF Reads
  <2>2. Answered(events, t) \/ Answered(x, t) => Answered(events, t)'
    BY <1>1, ConcatNews
  <2>3. Asked(requests, t) => Asked(requests, t)' \/ Answered(x, t)
    <3>1. CASE requests' = requests
      BY <3>1
    <3>2. CASE requests # <<>> /\ requests' = Tail(requests)
      <4>1. Head(requests).command = "CHAN_READ" => Answered(x, Head(requests).by)
        <5>1. CASE requests = Tail(requests)
          <6>1. Len(Tail(requests)) = Len(requests) - 1 /\ Len(requests) \in Nat
            BY <1>1, <3>2
          <6>. QED
            BY <5>1, <6>1
        <5>2. CASE requests # Tail(requests)
          BY <3>2, <5>2 DEF Replies
        <5>. QED
          BY <5>1, <5>2
      <4>2. Asked(requests, t) => \/ Head(requests).command = "CHAN_READ" /\ Head(requests).by = t
                                  \/ Asked(Tail(requests), t)
        BY <1>1, <3>2, TailReads
      <4>. QED
        BY <3>2, <4>1, <4>2
    <3>. QED
      BY <3>1, <3>2 DEF Replies
  <2>. QED
    BY <2>1, <2>2, <2>3
<1>6. \A t : Waiting(t)' = Waiting(t)
  BY DEF Waiting, Waiter
<1>. QED
  BY <1>1, <1>3, <1>4, <1>5, <1>6 DEF Reads

LEMMA WakeServer ==
  ASSUME Inv, Wake, ServerStep
  PROVE  Wake'
<1>1. UNCHANGED <<streamVars, taskVars>>
  BY DEF ServerStep, ServeRegister, ServeUnregister, ServeRead, ServePrestartAll, ServeStartOne,
         ServeStartAll, ServeAbortAll, Execute, Stop, Serve
<1>2. PICK x \in Seq(Notice) :
         /\ Replies(x)
         /\ \A m \in Motors : /\ NoUnregister(requests, m)
                              /\ m \in registered \/ AfterRegister(requests, m)
                              => News(x, m)
  BY ServerNews
<1>3. UNCHANGED <<open, pc, answers, waiting, cache, watchers>>
  BY <1>1 DEF streamVars, taskVars
<1>4. Reads'
  BY <1>1, <1>2, ReadsServer DEF Wake
<1>5. ASSUME NEW m \in open
      PROVE  Informed(m)' /\ Heard(m)' = Heard(m) /\ (Heard(m) /\ Coming(m) => Coming(m)')
  <2>1. m \in Motors /\ Informed(m)
    BY DEF Inv, TypeOK, Wake
  <2>2. News(x, m)
    BY <1>2, <2>1 DEF Informed
  <2>. QED
    BY <1>1, <1>2, <2>1, <2>2, InformedServer
<1>6. ASSUME NEW m, Unwatched(m)
      PROVE  Unwatched(m)'
  <2>1. requests \in Seq(Message)
    BY DEF Inv, WireOK
  <2>2. requests' = requests \/ (requests # <<>> /\ requests' = Tail(requests))
    BY <1>2 DEF Replies
  <2>3. NoUnregister(requests, m)'
    BY <1>6, <2>1, <2>2, TailReads DEF Unwatched
  <2>. QED
    BY <1>3, <1>6, <2>3 DEF Unwatched
<1>7. ASSUME NEW u \in Waits, MotorOf[u] \in open
      PROVE  Roused(u)'
  <2>1. Roused(u)
    BY <1>7 DEF Wake
  <2>2. /\ Heard(MotorOf[u])' = Heard(MotorOf[u])
        /\ Heard(MotorOf[u]) /\ Coming(MotorOf[u]) => Coming(MotorOf[u])'
    BY <1>5, <1>7
  <2>. QED
    BY <1>3, <2>1, <2>2, RousedSame
<1>. QED
  BY <1>3, <1>4, <1>5, <1>6, <1>7 DEF Wake

\* What the head of the channel leaves when it is no event of the motor.
LEMMA InformedStill ==
  ASSUME Inv, NEW m, Informed(m), events # <<>>, events' = Tail(events),
         ~IsEvent(Head(events), m), Heard(m)' = Heard(m), cache'[m] = cache[m],
         UNCHANGED <<listening, requests, taskVars, serverVars>>
  PROVE  Informed(m)' /\ (Coming(m) => Coming(m)')
<1>1. events \in Seq(Notice)
  BY DEF Inv, WireOK
<1>2. /\ NoEvent(events, m)' = NoEvent(events, m)
      /\ NoStand(events, m)' => NoStand(events, m)
      /\ AfterEvent(events, m) => AfterEvent(events, m)'
      /\ BeforeStand(events, m) => BeforeStand(events, m)'
  <2>1. ~IsStand(Head(events), m)
    BY DEF IsStand
  <2>2. NoStand(events, m)' => NoStand(events, m)
    BY <1>1, <2>1, TailEvents
  <2>3. NoEvent(events, m) => NoEvent(events, m)'
    BY <1>1, TailEvents
  <2>4. ~NoEvent(events, m) => ~NoEvent(events, m)'
    BY <1>1, TailNews
  <2>5. NoEvent(events, m)' = NoEvent(events, m)
    BY <2>3, <2>4 DEF NoEvent
  <2>. QED
    BY <1>1, <2>2, <2>5, TailNews
<1>3. Coming(m) => Coming(m)'
  BY <1>2 DEF Coming, serverVars
<1>4. Fresh(m)' = Fresh(m)
  BY DEF Fresh, taskVars
<1>. QED
  BY <1>2, <1>3, <1>4 DEF Informed, serverVars

LEMMA ReadsDispatch ==
  ASSUME Inv, Reads, UNCHANGED <<requests, pc>>, waiting' \subseteq waiting,
         events # <<>>, events' = Tail(events),
         \/ answers' = answers /\ Head(events).command # "REPLY"
         \/ /\ Head(events).command = "REPLY"
            /\ answers' = answers
                  \cup {[owner |-> Head(events).by, value |-> Head(events).value]}
  PROVE  Reads'
<1>1. /\ events \in Seq(Notice) /\ 1 \in DOMAIN events /\ Head(events) = events[1]
      /\ \A i \in DOMAIN events' : i + 1 \in DOMAIN events /\ events'[i] = events[i + 1]
  BY TailElements DEF Inv, WireOK
<1>2. Head(events) \in Notice
  BY <1>1
<1>3. ASSUME NEW i \in DOMAIN events', events'[i].command = "REPLY"
      PROVE  pc[events'[i].by] # "idle" /\ MotorOf[events'[i].by] = events'[i].property
  <2>1. i + 1 \in DOMAIN events /\ events'[i] = events[i + 1]
    BY <1>1
  <2>. QED
    BY <1>3, <2>1 DEF Reads
<1>4. ASSUME NEW a \in answers'
      PROVE  a.owner \in Waits /\ pc[a.owner] # "idle"
  <2>1. CASE a \in answers
    BY <2>1 DEF Reads
  <2>2. CASE a \notin answers
    <3>1. Head(events).command = "REPLY" /\ a.owner = Head(events).by
      BY <1>4, <2>2
    <3>2. Head(events).by \in Waits
      BY <1>2, <3>1 DEF Notice
    <3>. QED
      BY <1>1, <3>1, <3>2 DEF Reads
  <2>. QED
    BY <2>1, <2>2
<1>5. ASSUME NEW t \in Waits, pc[t] = "reading"
      PROVE  Asked(requests, t) \/ Answered(events, t)' \/ \E a \in answers' : a.owner = t
  <2>1. Asked(requests, t) \/ Answered(events, t) \/ \E a \in answers : a.owner = t
    BY <1>5 DEF Reads
  <2>2. Answered(events, t) => \/ Head(events).command = "REPLY" /\ Head(events).by = t
                               \/ Answered(events, t)'
    BY <1>1, TailNews
  <2>3. ASSUME Head(events).command = "REPLY", Head(events).by = t
        PROVE  \E a \in answers' : a.owner = t
    <3>1. PICK a : a = [owner |-> Head(events).by, value |-> Head(events).value]
      OBVIOUS
    <3>2. a \in answers' /\ a.owner = t
      BY <2>3, <3>1
    <3>. QED
      BY <3>2
  <2>4. answers \subseteq answers'
    OBVIOUS
  <2>. QED
    BY <2>1, <2>2, <2>3, <2>4
<1>6. \A t : Waiting(t)' = Waiting(t)
  BY DEF Waiting, Waiter
<1>. QED
  BY <1>3, <1>4, <1>5, <1>6 DEF Reads

LEMMA WakeReply ==
  ASSUME Inv, Wake, OnReply, UNCHANGED <<taskVars, serverVars>>
  PROVE  Wake'
<1>1. PICK h : h = Head(events)
  OBVIOUS
<1>2. /\ events # <<>> /\ h.command = "REPLY" /\ events' = Tail(events)
      /\ answers' = answers \cup {[owner |-> h.by, value |-> h.value]}
      /\ UNCHANGED <<watchers, cache, depth, listening, initialized, waiting, requests>>
      /\ UNCHANGED <<open, pc>>
      /\ events \in Seq(Notice) /\ 1 \in DOMAIN events /\ h = events[1] /\ h \in Notice
  BY <1>1, TailElements DEF OnReply, taskVars, Inv, WireOK
<1>3. Reads'
  BY <1>1, <1>2, ReadsDispatch DEF Wake
<1>4. ASSUME NEW m \in open
      PROVE  Informed(m)' /\ Heard(m)' = Heard(m) /\ (Coming(m) => Coming(m)')
  <2>1. Heard(m)' = Heard(m)
    BY <1>2 DEF Heard
  <2>2. ~IsEvent(h, m)
    BY <1>2 DEF IsEvent
  <2>3. Informed(m) /\ cache'[m] = cache[m]
    BY <1>2 DEF Wake
  <2>4. UNCHANGED <<listening, requests, taskVars, serverVars>>
    BY <1>2
  <2>. QED
    BY <1>1, <1>2, <2>1, <2>2, <2>3, <2>4, InformedStill
<1>5. ASSUME NEW m, Unwatched(m)
      PROVE  Unwatched(m)'
  BY <1>2, <1>5 DEF Unwatched
<1>6. ASSUME NEW u \in Waits, MotorOf[u] \in open
      PROVE  Roused(u)'
  <2>1. PICK m : m = MotorOf[u]
    OBVIOUS
  <2>2. /\ Roused(u) /\ Informed(m) /\ Heard(m)' = Heard(m) /\ (Coming(m) => Coming(m)')
        /\ Waiting(u)' = Waiting(u) /\ OnlyWait(u)' = OnlyWait(u)
    BY <1>2, <1>4, <1>6, <2>1 DEF Wake, Waiting, Waiter, OnlyWait
  <2>3. ASSUME h.by = u, h.value = TRUE
        PROVE  Heard(m) /\ Coming(m)'
    <3>1. h.property = m
      BY <1>2, <2>1, <2>3 DEF Wake, Reads
    <3>2. IsReply(h, m) /\ IsTrue(h, m)
      BY <1>2, <2>3, <3>1 DEF IsReply, IsTrue
    <3>3. Heard(m)
      BY <1>1, <1>2, <2>2, <3>2, TailNews DEF Informed
    <3>4. moving[m] # None \/ ~NoStand(events, m)'
      BY <1>1, <1>2, <2>2, <3>2, TailNews DEF Informed
    <3>. QED
      BY <3>3, <3>4 DEF Coming, serverVars
  <2>4. ASSUME NEW a \in answers', a.owner = u, a.value = TRUE
        PROVE  Heard(m) /\ (Waiting(u) \in waiting => Coming(m)')
    <3>1. CASE a \in answers
      BY <2>1, <2>2, <2>4, <3>1 DEF Roused
    <3>2. CASE a \notin answers
      <4>1. a = [owner |-> h.by, value |-> h.value]
        BY <1>2, <2>4, <3>2
      <4>. QED
        BY <2>3, <2>4, <4>1
    <3>. QED
      BY <3>1, <3>2
  <2>. QED
    BY <1>2, <2>1, <2>2, <2>4 DEF Roused
<1>. QED
  BY <1>2, <1>3, <1>4, <1>5, <1>6 DEF Wake

LEMMA WakeUpdate ==
  ASSUME Inv, Calm, Wake, OnPropertyUpdate, UNCHANGED <<taskVars, serverVars>>
  PROVE  Wake'
<1>1. PICK h : h = Head(events)
  OBVIOUS
<1>2. PICK p : p = h.property
  OBVIOUS
<1>3. PICK streams : streams = {s \in MotorStreams : StreamMotor(s) = p}
  OBVIOUS
<1>4. /\ events # <<>> /\ h.command = "EVENT" /\ events' = Tail(events)
      /\ cache' = [cache EXCEPT ![p] = h.value]
      /\ initialized' = initialized \cup UNION {{<<o, s>> : o \in listening[s]} : s \in streams}
      /\ waiting' = {w \in waiting : ~(w.stream \in Updating(p) /\ w.value = h.value)}
      /\ UNCHANGED <<watchers, depth, listening, answers, requests>>
      /\ UNCHANGED <<open, pc>>
      /\ events \in Seq(Notice) /\ 1 \in DOMAIN events /\ h = events[1] /\ h \in Notice
      /\ cache \in [Motors -> BOOLEAN \cup {None}] /\ open \subseteq Motors
  BY <1>1, <1>2, <1>3, TailElements
     DEF OnPropertyUpdate, taskVars, Inv, WireOK, TypeOK, StreamTypeOK
<1>5. waiting' \subseteq waiting /\ p \in Motors
  BY <1>2, <1>4 DEF Notice
<1>6. Reads'
  BY <1>1, <1>4, <1>5, ReadsDispatch DEF Wake
<1>7. ASSUME NEW m \in Motors, m # p
      PROVE  Heard(m)' = Heard(m) /\ ~IsEvent(h, m) /\ cache'[m] = cache[m]
  <2>1. Moving(m) \notin streams
    BY <1>3, <1>7, StreamFacts
  <2>2. <<m, Moving(m)>> \in initialized' <=> <<m, Moving(m)>> \in initialized
    BY <1>4, <2>1
  <2>. QED
    BY <1>2, <1>4, <1>7, <2>2 DEF Heard, IsEvent
<1>8. ASSUME NEW m \in open, m # p
      PROVE  Informed(m)' /\ Heard(m)' = Heard(m) /\ (Coming(m) => Coming(m)')
  <2>1. Informed(m) /\ m \in Motors
    BY <1>4 DEF Wake
  <2>2. Heard(m)' = Heard(m) /\ ~IsEvent(h, m) /\ cache'[m] = cache[m]
    BY <1>7, <1>8, <2>1
  <2>3. UNCHANGED <<listening, requests, taskVars, serverVars>>
    BY <1>4
  <2>. QED
    BY <1>1, <1>4, <2>1, <2>2, <2>3, InformedStill
<1>9. ASSUME NEW m \in open, m = p
      PROVE  /\ Informed(m)' /\ Heard(m)'
             /\ ~IsStand(h, m) => (Coming(m) => Coming(m)')
             /\ IsStand(h, m) /\ Heard(m) => \A u : Waiter(u, Moving(m), FALSE) \notin waiting'
  <2>1. Informed(m) /\ m \in listening[Moving(m)] /\ Moving(m) \in streams
    BY <1>3, <1>5, <1>9, StreamFacts DEF Wake, Informed
  <2>2. Heard(m)'
    BY <1>4, <2>1 DEF Heard
  <2>3. IsEvent(h, m) /\ ~NoEvent(events, m)
    BY <1>2, <1>4, <1>9 DEF IsEvent, NoEvent
  <2>4. m \in registered
    BY <2>1, <2>3 DEF Informed
  <2>5. BeforeStand(events, m) => /\ BeforeStand(events, m)'
                                  /\ IsTrue(h, m) => ~NoStand(events, m)'
    BY <1>1, <1>4, TailNews
  <2>6. Fresh(m)' = Fresh(m)
    BY <1>4 DEF Fresh
  <2>7. cache'[m] = TRUE => Coming(m)'
    <3>1. cache'[m] = h.value
      BY <1>4, <1>5, <1>9
    <3>2. cache'[m] = TRUE => IsTrue(h, m)
      BY <1>2, <1>9, <3>1 DEF IsTrue
    <3>. QED
      BY <2>1, <2>5, <3>2 DEF Coming, Informed, serverVars
  <2>8. Informed(m)'
    BY <1>4, <2>1, <2>2, <2>4, <2>5, <2>7 DEF Informed, serverVars
  <2>9. ~IsStand(h, m) => (Coming(m) => Coming(m)')
    <3>1. NoStand(events, m)' /\ ~IsStand(h, m) => NoStand(events, m)
      BY <1>1, <1>4, TailEvents
    <3>. QED
      BY <3>1 DEF Coming, serverVars
  <2>10. ASSUME IsStand(h, m), Heard(m), NEW u
         PROVE  Waiter(u, Moving(m), FALSE) \notin waiting'
    <3>1. Moving(m) \in Updating(p)
      BY <1>3, <2>1, <2>10 DEF Updating, Heard
    <3>2. h.value = FALSE
      BY <2>10 DEF IsStand
    <3>3. PICK w : w = Waiter(u, Moving(m), FALSE)
      OBVIOUS
    <3>4. w.stream = Moving(m) /\ w.value = FALSE
      BY <3>3 DEF Waiter
    <3>. QED
      BY <1>4, <3>1, <3>2, <3>3, <3>4
  <2>. QED
    BY <2>2, <2>8, <2>9, <2>10
<1>10. ASSUME \A t \in Tasks : pc[t] = "idle", NEW m \in Motors \ open
       PROVE  Unwatched(m)'
  <2>1. Unwatched(m) /\ NoEvent(events, m)
    BY <1>10 DEF Wake, Calm, Groups, Unused
  <2>2. m # p
    BY <1>2, <1>4, <2>1 DEF NoEvent, IsEvent
  <2>3. cache'[m] = cache[m]
    BY <1>7, <2>2
  <2>. QED
    BY <1>4, <2>1, <2>3 DEF Unwatched
<1>11. ASSUME NEW u \in Waits, MotorOf[u] \in open
       PROVE  Roused(u)'
  <2>1. PICK m : m = MotorOf[u]
    OBVIOUS
  <2>2. Roused(u)
    BY <1>11 DEF Wake
  <2>3. Heard(m) => Heard(m)'
    BY <1>8, <1>9, <1>11, <2>1
  <2>4. Waiting(u) = Waiter(u, Moving(m), FALSE)
    BY <2>1 DEF Waiting
  <2>5. ASSUME Waiting(u) \in waiting', Heard(m), Coming(m)
        PROVE  Coming(m)'
    <3>1. CASE m = p
      BY <1>9, <1>11, <2>1, <2>4, <2>5, <3>1
    <3>2. CASE m # p
      BY <1>8, <1>11, <2>1, <2>5, <3>2
    <3>. QED
      BY <3>1, <3>2
  <2>. QED
    BY <1>4, <1>5, <2>1, <2>2, <2>3, <2>5, RousedSame
<1>. QED
  BY <1>4, <1>6, <1>8, <1>9, <1>10, <1>11 DEF Wake

LEMMA WakeStutter ==
  ASSUME Wake, UNCHANGED vars
  PROVE  Wake'
<1>1. UNCHANGED <<watchers, cache, listening, initialized, waiting, answers, requests, events,
                  open, pc, registered, moving>>
  BY DEF vars, streamVars, taskVars, serverVars
<1>2. Reads'
  BY <1>1 DEF Wake, Reads, Asked, Answered, Waiting, Waiter
<1>3. ASSUME NEW m
      PROVE  Informed(m)' = Informed(m) /\ Unwatched(m)' = Unwatched(m)
  BY <1>1 DEF Informed, Unwatched, Heard, Coming, Fresh
<1>4. ASSUME NEW u
      PROVE  Roused(u)' = Roused(u)
  BY <1>1 DEF Roused, Waiting, Waiter, OnlyWait, Heard, Coming
<1>. QED
  BY <1>1, <1>2, <1>3, <1>4 DEF Wake

LEMMA WakeInit ==
  ASSUME Init
  PROVE  Wake
<1>1. /\ requests = <<>> /\ events = <<>> /\ waiting = {} /\ answers = {} /\ open = {}
      /\ \A t \in Waits : pc[t] = "idle"
      /\ \A m \in Motors : watchers[m] = 0 /\ cache[m] = None
  BY TasksApart DEF Init, StreamInit
<1>2. Reads
  BY <1>1 DEF Reads
<1>3. \A m \in Motors : Unwatched(m)
  BY <1>1 DEF Unwatched, NoUnregister
<1>. QED
  BY <1>1, <1>2, <1>3 DEF Wake

LEMMA WakeStep ==
  ASSUME Inv, Calm, Wake, [Next]_vars
  PROVE  Wake'
<1>0. (\A t \in Children : t \in Moves) /\ Inv'
  BY InvStep, MotorsAssumption DEF Children
<1>1. CASE CallStep
  <2>1. \A t \in Moves \ Children : t \in Moves
    OBVIOUS
  <2>2. ASSUME NEW m \in Motors, EnterGroup(m) \/ ExitGroup(m)
        PROVE  Wake'
    BY <1>0, <2>2, WakeEnterGroup, WakeExitGroup
  <2>3. ASSUME NEW t \in Moves, Move(t) \/ MoveRefused(t)
        PROVE  Wake'
    BY <1>0, <2>3, WakeMove, WakeQuiet
  <2>4. ASSUME NEW t \in Starts, StartMove(t)
        PROVE  Wake'
    BY <1>0, <2>4, WakeStartMove
  <2>5. ASSUME NEW t \in Waits, WaitUntil(t)
        PROVE  Wake'
    BY <1>0, <2>5, WakeWaitUntil
  <2>6. ASSUME NEW t \in Syncs, SyncStart(t)
        PROVE  Wake'
    BY <1>0, <2>6, WakeSyncStart
  <2>7. ASSUME NEW t \in Syncs, \/ SyncRefused(t) \/ SyncEnter(t) \/ SyncBodyRaises(t)
                                \/ \E m \in Motors : PrepareMove(t, m)
        PROVE  Wake'
    BY <1>0, <2>7, WakeQuiet
  <2>. QED
    BY <1>1, <2>1, <2>2, <2>3, <2>4, <2>5, <2>6, <2>7 DEF CallStep
<1>2. CASE Dispatch
  BY <1>0, <1>2, WakeReply, WakeUpdate DEF Dispatch
<1>3. CASE ServerStep
  BY <1>0, <1>3, WakeServer
<1>4. ASSUME NEW t \in Tasks, Resume(t)
      PROVE  Wake'
  <2>1. ASSUME t \in Moves \cup Starts \cup Waits, Return(t)
        PROVE  Wake'
    BY <1>0, <2>1, WakeReturn
  <2>2. ASSUME t \in Children, Move(t) \/ MoveRefused(t)
        PROVE  Wake'
    BY <1>0, <2>2, WakeMove, WakeQuiet
  <2>3. ASSUME t \in Waits, WaitRead(t)
        PROVE  Wake'
    BY <1>0, <2>3, WakeWaitRead
  <2>4. ASSUME t \in Syncs, SyncUnwind(t)
        PROVE  Wake'
    BY <1>0, <2>4, WakeSyncUnwind
  <2>. QED
    BY <1>4, <2>1, <2>2, <2>3, <2>4 DEF Resume
<1>5. CASE UNCHANGED vars
  BY <1>5, WakeStutter
<1>. QED
  BY <1>1, <1>2, <1>3, <1>4, <1>5 DEF Next

\* Inside its motor's group the only wait for a motor to stand is never left
\* behind: once the channels are empty and nothing moves, it has its update,
\* whatever came between its look at the cache, the read it sends when the
\* cache has nothing, and the answer.
THEOREM GroupWaitsWoken == Spec => []GroupWaitsEnd
<1>1. Init => Wake
  BY WakeInit
<1>2. Inv /\ Calm /\ Wake /\ [Next]_vars => Wake'
  BY WakeStep
<1>3. Wake => GroupWaitsEnd
  <2>. SUFFICES ASSUME Wake, Settled, NEW t \in Waits, MotorOf[t] \in open, OnlyWait(t),
                       Expects(t, Moving(MotorOf[t]))
                PROVE  FALSE
    BY DEF GroupWaitsEnd, OnlyWait
  <2>1. PICK w \in waiting : w.owner = t
    BY DEF Expects
  <2>2. Waiting(t) \in waiting /\ pc[t] \in {"reading", "waiting"}
    BY <2>1 DEF Wake, Reads
  <2>3. CASE pc[t] = "reading"
    BY <2>3 DEF Wake, Reads, Settled, Asked, Answered
  <2>4. CASE pc[t] = "waiting"
    <3>1. Coming(MotorOf[t])
      BY <2>2, <2>4 DEF Wake, Roused
    <3>2. NoStand(events, MotorOf[t])
      BY DEF Settled, NoStand
    <3>3. moving[MotorOf[t]] = None
      BY TasksApart DEF Settled
    <3>. QED
      BY <3>1, <3>2, <3>3 DEF Coming
  <2>. QED
    BY <2>2, <2>3, <2>4
<1>4. Init => Calm
  BY CalmInit
<1>5. Inv /\ Calm /\ [Next]_vars => Calm'
  BY CalmStep
<1>. QED
  BY <1>1, <1>2, <1>3, <1>4, <1>5, Invariance, PTL DEF Spec
===============================================================================
