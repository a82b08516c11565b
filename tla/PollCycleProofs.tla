--------------------------- MODULE PollCycleProofs ---------------------------
(***************************************************************************)
(* Theorems about poll() for every set of accounts, messages and bounds.   *)
(***************************************************************************)
EXTENDS PollCycle, TLAPS, SequenceTheorems, FiniteSetTheorems

AccountMap == [Accounts -> AccountStates]
Units == {"messageErrors", "accountErrors", "expired", "quarantined"}

-----------------------------------------------------------------------------
(* Helpers on sequences. *)

LEMMA TakeType ==
    ASSUME NEW S, NEW s \in Seq(S), NEW n \in Nat
    PROVE  Take(s, n) \in Seq(S)
  BY SubSeqProperties DEF Take

LEMMA LastNType ==
    ASSUME NEW S, NEW s \in Seq(S), NEW n \in Nat
    PROVE  LastN(s, n) \in Seq(S)
  BY SubSeqProperties DEF LastN

LEMMA TailType ==
    ASSUME NEW S, NEW s \in Seq(S), s # <<>>
    PROVE  Tail(s) \in Seq(S) /\ (Len(s) > 1 => Tail(s) # <<>>)
<1>1. Tail(s) \in Seq(S) /\ Len(Tail(s)) = Len(s) - 1 /\ Len(s) \in Nat
  BY HeadTailProperties, LenProperties
<1>2. ASSUME Len(s) > 1, Tail(s) = <<>> PROVE FALSE
  <2>1. Len(Tail(s)) # 0
    BY <1>1, <1>2
  <2>2. Len(<<>>) = 0
    BY EmptySeq
  <2> QED
    BY <1>2, <2>1, <2>2
<1> QED
  BY <1>1, <1>2

LEMMA StrikeType ==
    ASSUME NEW s \in Seq(Strikes), NEW m \in Messages
    PROVE  Strike(s, m) \in Seq(Strikes)
<1>1. CASE Entry(s, m) = {}
  BY <1>1 DEF Strike, Strikes
<1>2. CASE Entry(s, m) # {}
  <2> DEFINE k == CHOOSE k \in Entry(s, m) : TRUE
  <2>1. k \in Entry(s, m)
    BY <1>2
  <2>2. k \in DOMAIN s
    BY <2>1 DEF Entry
  <2> HIDE DEF k
  <2>3. s[k] \in Strikes
    BY <2>2
  <2>4. [s[k] EXCEPT !.n = @ + 1] \in Strikes
    BY <2>3 DEF Strikes
  <2>5. [s EXCEPT ![k].n = @ + 1] \in Seq(Strikes)
    BY <2>2, <2>4
  <2> QED
    BY <1>2, <2>5 DEF Strike, k
<1> QED
  BY <1>1, <1>2

LEMMA ForgiveType ==
    ASSUME NEW s \in Seq(Strikes), NEW m \in Messages
    PROVE  Forgive(s, m) \in Seq(Strikes)
<1>1. CASE Entry(s, m) = {}
  BY <1>1 DEF Forgive
<1>2. CASE Entry(s, m) # {}
  <2> DEFINE k == CHOOSE k \in Entry(s, m) : TRUE
  <2>1. k \in Entry(s, m)
    BY <1>2
  <2>2. k \in 1..Len(s)
    BY <2>1 DEF Entry
  <2> HIDE DEF k
  <2>3. SubSeq(s, 1, k - 1) \in Seq(Strikes) /\ SubSeq(s, k + 1, Len(s)) \in Seq(Strikes)
    BY <2>2, SubSeqProperties
  <2>4. SubSeq(s, 1, k - 1) \o SubSeq(s, k + 1, Len(s)) \in Seq(Strikes)
    BY <2>3
  <2> QED
    BY <1>2, <2>4 DEF Forgive, k
<1> QED
  BY <1>1, <1>2

(* ringAdd keeps the turn's locals well formed and leaves the batch alone. *)
LEMMA RingAddType ==
    ASSUME NEW w \in Works, NEW m \in Messages
    PROVE  /\ RingAdd(w, m) \in Works
           /\ RingAdd(w, m).todo = w.todo
           /\ RingAdd(w, m).listed = w.listed
           /\ RingAdd(w, m).toArchive = w.toArchive
<1>1. Forgive(w.strikes, m) \in Seq(Strikes)
  BY ForgiveType DEF Works
<1>2. (IF m \in Range(w.ring) THEN w.ring ELSE Append(w.ring, m)) \in Seq(Messages)
  BY DEF Works
<1> QED
  BY <1>1, <1>2 DEF RingAdd, Works

(* Whatever Gmail enumerates of a set of messages is a sequence of them. *)
LEMMA InOrderType ==
    ASSUME NEW S \in SUBSET Messages, NEW q \in InOrder(S)
    PROVE  q \in Seq(Messages)
<1>1. Cardinality(S) \in Nat
  BY MailAssumption, FS_Subset, FS_CardinalityType
<1>2. q \in [1..Cardinality(S) -> S]
  BY DEF InOrder
<1>3. q \in Seq(S)
  BY <1>1, <1>2
<1> QED
  BY <1>3

(* A listing holds nothing but the window. *)
LEMMA ListedInWindow ==
    ASSUME NEW a, NEW r, NEW S \in ListingsOf(a, r)
    PROVE  S \subseteq Window(a)
  BY DEF ListingsOf, Listings, Attributable, UpTo

LEMMA EnumerationsType ==
    ASSUME NEW S \in SUBSET Messages, NEW r, NEW q \in Enumerations(S, r)
    PROVE  q \in Seq(Messages)
<1> DEFINE X == {m \in S : hist[m] <= r}
           Y == {m \in S : hist[m] = r}
           Z == {m \in S : hist[m] > r}
<1>1. X \in SUBSET Messages /\ Y \in SUBSET Messages /\ Z \in SUBSET Messages
  OBVIOUS
<1>2. q \in ListedInTurn(X, Y, Z)
  BY DEF Enumerations
<1> HIDE DEF X, Y, Z
<1>3. PICK x \in InOrder(X), y \in InOrder(Y), z \in InOrder(Z) : q = x \o y \o z
  BY <1>2 DEF ListedInTurn
<1>4. x \in Seq(Messages) /\ y \in Seq(Messages) /\ z \in Seq(Messages)
  BY <1>1, InOrderType
<1> QED
  BY <1>3, <1>4

-----------------------------------------------------------------------------
(* The pieces actions are built from. *)

LEMMA AcctType == TypeOK => acct \in Accounts
  BY ClientsAssumption DEF TypeOK, acct, Accounts, Range

LEMMA CountType ==
    ASSUME NEW s \in Counters, NEW u \in Units
    PROVE  Count(s, u) \in Counters
  BY DEF Count, Counters, Units

LEMMA FreshType == Fresh \in AccountStates /\ NoWork \in Works /\ NoStats \in Counters
  BY BoundsAssumption DEF Fresh, AccountStates, NoWork, Works, NoStats, Counters

LEMMA NextAccountType ==
    ASSUME TypeOK, NextAccount
    PROVE  /\ work' \in Works
           /\ pc' \in {"account", "finish"}
           /\ at' \in 1..Len(Clients)
<1>1. Len(Clients) \in Nat
  BY ClientsAssumption
<1> QED
  BY <1>1, FreshType DEF NextAccount, TypeOK

LEMMA EndTurnType ==
    ASSUME TypeOK, NEW m \in AccountMap, NEW s \in Counters, NEW u \in Units,
           EndTurn(m, s, u)
    PROVE  /\ work' \in Works
           /\ pc' \in {"account", "finish"}
           /\ at' \in 1..Len(Clients)
           /\ mem' \in AccountMap /\ disk' \in AccountMap
           /\ stats' \in Counters
           /\ budget' \in Nat
<1>1. NextAccount
  BY DEF EndTurn
<1>2. mem' \in AccountMap /\ disk' \in AccountMap
  BY DEF EndTurn, TypeOK, AccountMap
<1>3. stats' \in Counters
  BY CountType DEF EndTurn
<1>4. budget' \in Nat
  BY DEF EndTurn, Fault, NoFault, TypeOK
<1> QED
  BY <1>1, <1>2, <1>3, <1>4, NextAccountType

LEMMA GiveUpType ==
    ASSUME TypeOK, NEW m \in AccountMap, NEW u \in Units, GiveUp(m, u)
    PROVE  /\ work' \in Works
           /\ pc' \in {"account", "finish"}
           /\ at' \in 1..Len(Clients)
           /\ mem' \in AccountMap /\ disk' \in AccountMap
           /\ stats' \in Counters
<1>1. stats' \in Counters
  BY CountType DEF GiveUp, TypeOK
<1> QED
  BY <1>1, NextAccountType DEF GiveUp, TypeOK, AccountMap

LEMMA AliasedType == TypeOK => Aliased \in AccountMap
<1> SUFFICES ASSUME TypeOK PROVE Aliased \in AccountMap
  OBVIOUS
<1>1. mem \in AccountMap /\ acct \in Accounts /\ mem[acct] \in AccountStates
  BY AcctType DEF TypeOK, AccountMap
<1>2. work.ring \in Seq(Messages) /\ work.strikes \in Seq(Strikes)
  BY DEF TypeOK, Works
<1>3. [mem[acct] EXCEPT !.ring = work.ring, !.strikes = work.strikes] \in AccountStates
  BY <1>1, <1>2 DEF AccountStates
<1>4. Aliased = mem \/ Aliased =
          [mem EXCEPT ![acct] = [mem[acct] EXCEPT !.ring = work.ring, !.strikes = work.strikes]]
  BY <1>1 DEF Aliased, AccountMap, AccountStates
<1> QED
  BY <1>1, <1>3, <1>4 DEF AccountMap

LEMMA ConcludeType ==
    ASSUME TypeOK, NEW r \in AccountStates, NEW c \in BOOLEAN, Conclude(r, c)
    PROVE  /\ work' \in Works
           /\ pc' \in {"account", "finish"}
           /\ at' \in 1..Len(Clients)
           /\ mem' \in AccountMap /\ disk' \in AccountMap
           /\ stats' \in Counters
           /\ budget' \in Nat
<1> DEFINE progress == r.cursor # mem[acct].cursor \/ work.progressed \/ c
           stalled == IF progress THEN 0
                      ELSE IF r.stalled < StallCap THEN r.stalled + 1 ELSE StallCap
           worst == IF Durable /\ stalled > stats.maxStalled THEN stalled ELSE stats.maxStalled
           m == [mem EXCEPT ![acct] = [r EXCEPT !.stalled = stalled]]
           s == [stats EXCEPT !.maxStalled = worst]
<1>1. stalled \in 0..StallCap
  BY BoundsAssumption DEF AccountStates
<1> HIDE DEF stalled
<1>2. m \in AccountMap
  <2>1. mem \in AccountMap /\ acct \in Accounts
    BY AcctType DEF TypeOK, AccountMap
  <2>2. [r EXCEPT !.stalled = stalled] \in AccountStates
    BY <1>1 DEF AccountStates
  <2> QED
    BY <2>1, <2>2 DEF AccountMap
<1>3. s \in Counters
  <2>1. stats \in Counters /\ worst \in Nat
    BY <1>1, BoundsAssumption DEF TypeOK, Counters
  <2> HIDE DEF worst
  <2> QED
    BY <2>1 DEF Counters
<1>4. EndTurn(m, s, "messageErrors")
  BY DEF Conclude, stalled
<1> HIDE DEF m, s
<1> QED
  BY <1>2, <1>3, <1>4, EndTurnType DEF Units

LEMMA ConsumeType ==
    ASSUME NEW w \in Works, w.todo # <<>>, Consume(w)
    PROVE  /\ work' \in Works
           /\ pc' \in {"message", "archive", "commit"}
           /\ pc' = "message" => work'.todo # <<>>
           /\ work'.listed = w.listed /\ work'.toArchive = w.toArchive
<1>1. w.todo \in Seq(Messages)
  BY DEF Works
<1>2. Tail(w.todo) \in Seq(Messages) /\ (Len(w.todo) > 1 => Tail(w.todo) # <<>>)
  BY <1>1, TailType
<1> QED
  BY <1>2 DEF Consume, Works

LEMMA IdType == TypeOK /\ pc = "message" => id \in Messages
  BY DEF TypeOK, Works, id

Fates == {"pending", "skipped", "screened", "handled", "duplicate",
          "gone", "mistaken", "quarantined"}

LEMMA RetireType ==
    ASSUME TypeOK, pc = "message", NEW f \in Fates, Retire(id, f)
    PROVE  /\ work' \in Works
           /\ pc' \in {"message", "archive", "commit"}
           /\ pc' = "message" => work'.todo # <<>>
           /\ fate' \in [Messages -> Fates]
<1>1. id \in Messages /\ work \in Works /\ work.todo # <<>>
  BY IdType DEF TypeOK
<1>2. RingAdd(work, id) \in Works /\ RingAdd(work, id).todo # <<>>
  BY <1>1, RingAddType
<1>3. fate' \in [Messages -> Fates]
  BY DEF Retire, Becomes, TypeOK, Fates
<1> QED
  BY <1>1, <1>2, <1>3, ConsumeType DEF Retire

LEMMA StruckType ==
    ASSUME TypeOK, pc = "message", Struck(id)
    PROVE  /\ work' \in Works
           /\ pc' \in {"message", "archive", "commit"}
           /\ pc' = "message" => work'.todo # <<>>
           /\ fate' \in [Messages -> Fates]
           /\ mem' \in AccountMap
           /\ stats' \in Counters
<1> DEFINE w == [work EXCEPT !.strikes = Strike(@, id)]
           failed == Count(stats, "messageErrors")
<1>1. id \in Messages /\ work \in Works /\ work.todo # <<>>
  BY IdType DEF TypeOK
<1>2. w \in Works /\ w.todo # <<>>
  BY <1>1, StrikeType DEF Works
<1>3. RingAdd(w, id) \in Works /\ RingAdd(w, id).todo # <<>>
  BY <1>1, <1>2, RingAddType
<1>4. failed \in Counters
  BY CountType DEF TypeOK, Units
<1>5. Count(failed, "quarantined") \in Counters
  BY <1>4, CountType DEF Units
<1> HIDE DEF w, failed
<1>6. stats' \in Counters
  BY <1>4, <1>5 DEF Struck, w, failed
<1>7. LastN(Append(mem[acct].dropped, id), QuarantineMax) \in Seq(Messages)
  <2>1. mem[acct].dropped \in Seq(Messages)
    BY AcctType DEF TypeOK, AccountStates
  <2>2. Append(mem[acct].dropped, id) \in Seq(Messages)
    BY <1>1, <2>1
  <2>3. QuarantineMax \in Nat
    BY BoundsAssumption
  <2> QED
    BY <2>2, <2>3, LastNType
<1>8. mem' \in AccountMap
  <2>1. mem \in AccountMap /\ acct \in Accounts
    BY AcctType DEF TypeOK, AccountMap
  <2>2. CASE mem' = mem
    BY <2>1, <2>2
  <2>3. CASE mem' = [mem EXCEPT ![acct].dropped = LastN(Append(@, id), QuarantineMax)]
    BY <1>7, <2>1, <2>3 DEF AccountMap, AccountStates
  <2> QED
    BY <2>2, <2>3 DEF Struck
<1>9. fate' \in [Messages -> Fates]
  BY DEF Struck, Becomes, TypeOK, Fates
<1>10. Consume(work) \/ Consume(w) \/ Consume(RingAdd(w, id))
  BY DEF Struck, w
<1> QED
  BY <1>1, <1>2, <1>3, <1>6, <1>8, <1>9, <1>10, ConsumeType

(* Whatever nextCursor answers is a history id. *)
LEMMA NextCursorsNat == TypeOK => \A c \in NextCursors : c \in Nat
<1> SUFFICES ASSUME TypeOK PROVE \A c \in NextCursors : c \in Nat
  OBVIOUS
<1>0. acct \in Accounts /\ mem[acct] \in AccountStates /\ profile[acct] \in Nat
  BY AcctType DEF TypeOK
<1>1. work.listed \in SUBSET Messages
  BY DEF TypeOK, Works
<1>2. \A c \in Watermarks(work.listed, work.ring, mem[acct].cursor) : c \in Nat
  <2> DEFINE holes == {hist[m] : m \in work.listed \ Range(work.ring)}
             passable == {r \in {hist[m] : m \in work.listed} : \A h \in holes : r < h}
  <2>1. \A c \in passable : c \in Nat
    BY <1>1 DEF TypeOK
  <2>2. mem[acct].cursor \in Nat
    BY <1>0 DEF AccountStates
  <2>3. \A c \in Watermarks(work.listed, work.ring, mem[acct].cursor) :
           c = mem[acct].cursor \/ c \in passable
    BY DEF Watermarks
  <2> QED
    BY <2>1, <2>2, <2>3
<1> QED
  BY <1>0, <1>2 DEF NextCursors

-----------------------------------------------------------------------------
(* The type invariant. *)

LEMMA InitType == Init => TypeOK
<1>1. Init => at \in 1..Len(Clients)
  BY ClientsAssumption, EmptySeq DEF Init
<1> QED
  BY <1>1, FreshType, BoundsAssumption DEF Init, TypeOK

(* A turn's end leaves every other variable typed. *)
LEMMA TurnType ==
    ASSUME TypeOK, TurnStep
    PROVE  TypeOK'
<1> USE DEF Units
<1>0. acct \in Accounts /\ mem \in AccountMap /\ mem[acct] \in AccountStates /\ profile[acct] \in Nat
  BY AcctType DEF TypeOK, AccountMap
<1>1. CASE Unreachable
  <2>1. GiveUp(mem, "accountErrors")
    BY <1>1 DEF Unreachable
  <2>2. budget' \in Nat
    BY <1>1 DEF Unreachable, Fault, NoFault, TypeOK
  <2> QED
    BY <1>1, <2>1, <2>2, <1>0, GiveUpType DEF Unreachable, TypeOK, env, ghosts, AccountMap
<1>2. CASE Seed
  <2> DEFINE m == [mem EXCEPT ![acct] = [Fresh EXCEPT !.cursor = profile[acct]]]
  <2>1. m \in AccountMap
    BY <1>0, FreshType DEF AccountMap, AccountStates
  <2>2. EndTurn(m, stats, "accountErrors")
    BY <1>2 DEF Seed
  <2> HIDE DEF m
  <2>3. stats \in Counters
    BY DEF TypeOK
  <2> QED
    BY <1>0, <1>2, <2>1, <2>2, <2>3, EndTurnType DEF Seed, TypeOK, env, AccountMap
<1>3. CASE ListExpired
  <2>1. stats' \in Counters
    BY <1>3, CountType DEF ListExpired, TypeOK
  <2> QED
    BY <1>3, <2>1 DEF ListExpired, TypeOK, env, ghosts, NoFault
<1>4. CASE List
  <2>1. PICK record \in Overlaps(acct) : \E listed \in ListingsOf(acct, record) :
             \E batch \in Enumerations(listed \ Range(mem[acct].ring), record) :
                Begin(listed, batch)
    BY <1>4 DEF List
  <2>2. PICK listed \in ListingsOf(acct, record) :
             \E batch \in Enumerations(listed \ Range(mem[acct].ring), record) :
                Begin(listed, batch)
    BY <2>1
  <2>3. PICK batch \in Enumerations(listed \ Range(mem[acct].ring), record) :
             Begin(listed, batch)
    BY <2>2
  <2>4. listed \in SUBSET Messages
    BY ListedInWindow DEF Window
  <2>5. batch \in Seq(Messages)
    BY <2>4, EnumerationsType
  <2> DEFINE todo == Take(batch, MaxPerRun)
             truncated == listed # Window(acct)
             capped == Len(batch) > MaxPerRun
             windows == IF truncated THEN stats.truncated + 1 ELSE stats.truncated
  <2>6. todo \in Seq(Messages) /\ truncated \in BOOLEAN /\ capped \in BOOLEAN
        /\ windows \in Nat
    <3>1. todo \in Seq(Messages)
      BY <2>5, TakeType, BoundsAssumption
    <3>2. windows \in Nat
      BY DEF TypeOK, Counters
    <3> QED
      BY <3>1, <3>2
  <2>7. /\ work' = [NoWork EXCEPT !.listed = listed, !.truncated = truncated,
                       !.capped = capped, !.todo = todo,
                       !.ring = mem[acct].ring, !.strikes = mem[acct].strikes]
        /\ stats' = [stats EXCEPT !.fetched = @ + Len(todo), !.truncated = windows]
        /\ pc' = IF todo = <<>> THEN "quiet" ELSE "message"
    BY <2>3 DEF Begin, TypeOK, Counters
  <2> HIDE DEF todo, truncated, capped, windows
  <2>8. work' \in Works /\ work'.todo = todo
    BY <2>4, <2>6, <2>7, <1>0, FreshType DEF Works, AccountStates
  <2>10. stats' \in Counters
    <3>1. Len(todo) \in Nat
      BY <2>6
    <3>2. stats \in Counters /\ stats.fetched + Len(todo) \in Nat
      BY <3>1 DEF TypeOK, Counters
    <3> QED
      BY <2>6, <2>7, <3>2 DEF Counters
  <2>9. pc' \in {"quiet", "message"} /\ (pc' = "message" => todo # <<>>)
    BY <2>7
  <2> QED
    BY <1>4, <2>8, <2>9, <2>10 DEF List, TypeOK, env, ghosts, NoFault
<1>5. CASE ResetExpired
  <2>1. CASE Conclude([mem[acct] EXCEPT !.cursor = profile[acct]], FALSE)
    <3>1. [mem[acct] EXCEPT !.cursor = profile[acct]] \in AccountStates
      BY <1>0 DEF AccountStates
    <3> QED
      BY <1>5, <2>1, <3>1, ConcludeType DEF ResetExpired, TypeOK, env, ghosts, AccountMap
  <2>2. CASE Fault("profile") /\ GiveUp(mem, "messageErrors")
    BY <1>0, <1>5, <2>2, GiveUpType DEF ResetExpired, Fault, TypeOK, env, ghosts, AccountMap
  <2> QED
    BY <1>5, <2>1, <2>2 DEF ResetExpired
<1>6. \A c \in NextCursors : c \in Nat
  BY NextCursorsNat
<1>7. CASE QuietTurn
  <2>1. ASSUME NEW c \in NextCursors,
               Conclude([mem[acct] EXCEPT !.cursor = c],
                        work.listed = {} \/ ~work.truncated)
        PROVE  TypeOK'
    <3>1. [mem[acct] EXCEPT !.cursor = c] \in AccountStates
      BY <1>0, <1>6 DEF AccountStates
    <3>2. (work.listed = {} \/ ~work.truncated) \in BOOLEAN
      OBVIOUS
    <3> QED
      BY <1>7, <2>1, <3>1, <3>2, ConcludeType DEF QuietTurn, TypeOK, env, ghosts, AccountMap
  <2>2. CASE Fault("profile") /\ GiveUp(Aliased, "messageErrors")
    BY <1>7, <2>2, GiveUpType, AliasedType DEF QuietTurn, Fault, TypeOK, env, ghosts, AccountMap
  <2> QED
    BY <1>7, <2>1, <2>2 DEF QuietTurn
<1>8. CASE MessageStep
  <2>1. pc = "message" /\ id \in Messages
    BY <1>8, IdType DEF MessageStep, InLoop, FetchGone, HandlerGone, ScreenOut, SkipDuplicate,
                        Handle, FetchThrows, HandlerThrows
  <2>2. InLoop /\ budget' \in Nat
    BY <1>8 DEF MessageStep, FetchGone, HandlerGone, ScreenOut, SkipDuplicate,
                Handle, FetchThrows, HandlerThrows, Fault, NoFault, TypeOK
  <2>3. ASSUME NEW f \in Fates, Retire(id, f), UNCHANGED <<mem, stats, calls>>
        PROVE  TypeOK'
    BY <2>1, <2>2, <2>3, RetireType DEF InLoop, TypeOK, env, Fates
  <2>4. ASSUME Struck(id), UNCHANGED calls
        PROVE  TypeOK'
    BY <2>1, <2>2, <2>4, StruckType DEF InLoop, TypeOK, env, Fates, AccountMap
  <2>5. CASE Handle
    <3> DEFINE w == IF Durable THEN RingAdd(work, id) ELSE work
               v == [w EXCEPT !.toArchive = @ \cup
                       (IF mode # "dry" /\ ShouldArchive(id) THEN {id} ELSE {})]
    <3>1. work \in Works /\ work.todo # <<>>
      BY <2>1 DEF TypeOK
    <3>2. w \in Works /\ w.todo # <<>>
      BY <3>1, <2>1, RingAddType
    <3> HIDE DEF w
    <3>3. v \in Works /\ v.todo # <<>>
      BY <3>2, <2>1 DEF Works
    <3>4. PICK u \in Works : u.todo # <<>> /\ Consume(u)
      BY <2>5, <3>3 DEF Handle, w
    <3>5. /\ work' \in Works
          /\ pc' \in {"message", "archive", "commit"}
          /\ pc' = "message" => work'.todo # <<>>
      BY <3>4, ConsumeType
    <3>6. fate' \in [Messages -> Fates] /\ calls' \in [Messages -> Nat]
      <4>1. CASE Durable
        <5>1. fate' \in [Messages -> Fates]
          BY <2>5, <4>1 DEF Handle, TypeOK, Fates
        <5> DEFINE n == calls[id] + 1
        <5>2. calls' = [calls EXCEPT ![id] = n]
          BY <2>5, <4>1 DEF Handle
        <5>3. calls \in [Messages -> Nat] /\ calls[id] \in Nat
          BY <2>1 DEF TypeOK
        <5>4. n \in Nat
          BY <5>3
        <5> HIDE DEF n
        <5> QED
          BY <5>1, <5>2, <5>3, <5>4
      <4>2. CASE ~Durable
        BY <2>5, <4>2 DEF Handle, TypeOK, Fates
      <4> QED
        BY <4>1, <4>2
    <3> QED
      BY <2>2, <2>5, <3>5, <3>6 DEF Handle, InLoop, TypeOK, env, Fates
  <2>6. CASE FetchGone
    BY <2>3, <2>6 DEF FetchGone, Fates
  <2>7. CASE HandlerGone
    BY <2>3, <2>7 DEF HandlerGone, Fates
  <2>8. CASE ScreenOut
    BY <2>3, <2>8 DEF ScreenOut, Fates
  <2>9. CASE SkipDuplicate
    BY <2>3, <2>9 DEF SkipDuplicate, Fates
  <2>10. CASE FetchThrows
    BY <2>4, <2>10 DEF FetchThrows
  <2>11. CASE HandlerThrows
    BY <2>4, <2>11 DEF HandlerThrows
  <2> QED
    BY <1>8, <2>5, <2>6, <2>7, <2>8, <2>9, <2>10, <2>11 DEF MessageStep
<1>9. CASE ArchiveBatch
  <2>1. archived' \subseteq Messages /\ budget' \in Nat
    BY <1>9 DEF ArchiveBatch, Fault, NoFault, TypeOK, Works
  <2> QED
    BY <1>9, <2>1 DEF ArchiveBatch, TypeOK, env, ghosts
<1>10. CASE Commit
  <2>1. UNCHANGED <<env, archived, mode, seen, ghosts>>
    BY <1>10 DEF Commit
  <2>2. ASSUME NEW c \in Nat,
               Conclude([mem[acct] EXCEPT !.cursor = c, !.kept = TRUE,
                            !.ring = LastN(work.ring, RingMax),
                            !.strikes = LastN(work.strikes, MaxTracked)], FALSE)
        PROVE  TypeOK'
    <3>1. LastN(work.ring, RingMax) \in Seq(Messages)
          /\ LastN(work.strikes, MaxTracked) \in Seq(Strikes)
      BY LastNType, BoundsAssumption DEF TypeOK, Works
    <3>2. [mem[acct] EXCEPT !.cursor = c, !.kept = TRUE,
               !.ring = LastN(work.ring, RingMax),
               !.strikes = LastN(work.strikes, MaxTracked)] \in AccountStates
      BY <1>0, <3>1 DEF AccountStates
    <3>3. PICK r \in AccountStates : Conclude(r, FALSE)
      BY <2>2, <3>2
    <3> QED
      BY <2>1, <3>3, ConcludeType DEF TypeOK, env, ghosts, AccountMap
  <2>3. CASE Fault("profile") /\ GiveUp(Aliased, "messageErrors")
    BY <2>1, <2>3, GiveUpType, AliasedType DEF Fault, TypeOK, env, ghosts, AccountMap
  <2>4. mem[acct].cursor \in Nat
    BY <1>0 DEF AccountStates
  <2> QED
    BY <1>6, <1>10, <2>2, <2>3, <2>4 DEF Commit
<1> QED
  BY <1>1, <1>2, <1>3, <1>4, <1>5, <1>7, <1>8, <1>9, <1>10 DEF TurnStep

LEMMA NextType == TypeOK /\ [Next]_vars => TypeOK'
<1> SUFFICES ASSUME TypeOK, [Next]_vars PROVE TypeOK'
  OBVIOUS
<1>0. 1 \in 1..Len(Clients)
  BY ClientsAssumption, EmptySeq
<1>1. CASE StartRun
  <2>1. mem' \in AccountMap /\ budget' \in Nat
    BY <1>1, FreshType DEF StartRun, Fault, NoFault, TypeOK, AccountMap
  <2> QED
    BY <1>0, <1>1, <2>1, FreshType DEF StartRun, TypeOK, env, ghosts, AccountMap
<1>2. CASE TurnStep
  BY <1>2, TurnType
<1>3. CASE Return
  BY <1>0, <1>3 DEF Return, NoFault, TypeOK, env, ghosts
<1>4. CASE Reject
  BY <1>0, <1>4, FreshType DEF Reject, Fault, TypeOK, env, ghosts
<1>5. CASE Deliver
  <2>1. hist' \in [Messages -> Nat] /\ profile' \in [Accounts -> Nat] /\ budget' \in Nat
    BY <1>5 DEF Deliver, NoFault, TypeOK
  <2> QED
    BY <1>5, <2>1 DEF Deliver, TypeOK, ghosts
<1>6. CASE Expire
  <2>1. retained' \in [Accounts -> Nat] /\ budget' \in Nat
    BY <1>6 DEF Expire, Fault, TypeOK
  <2> QED
    BY <1>6, <2>1 DEF Expire, TypeOK, ghosts
<1>7. CASE Crash
  BY <1>0, <1>7, FreshType DEF Crash, Fault, TypeOK, env, ghosts
<1>8. CASE UNCHANGED vars
  BY <1>8 DEF vars, env, ghosts, TypeOK
<1> QED
  BY <1>1, <1>2, <1>3, <1>4, <1>5, <1>6, <1>7, <1>8 DEF Next, RunStep

(* Through every failing call, crash and arrival the run's variables keep the *)
(* shape poll() gives them, and the message loop never takes from an empty    *)
(* batch (poll.js 108-147, 210-227, 390-392).                                 *)
THEOREM PollTypeCorrect == Spec => []TypeOK
  BY InitType, NextType, PTL DEF Spec

-----------------------------------------------------------------------------
(* The cursor of an account never moves back, for every mailbox, batch size,  *)
(* bound and sequence of failing calls.                                       *)
(*                                                                            *)
(* CursorNeverRegresses alone is not inductive: that a turn ends with a       *)
(* cursor at least as high needs (1) the object in memory to be no older than *)
(* the file, although writes are lost and runs die, (2) the profile to be     *)
(* ahead of every cursor and record, and (3) the listed window to lie beyond  *)
(* the cursor it was listed from, until the turn ends.                        *)

Reseeded == "state" \in Faults
NoOlder(new, old) == new >= old \/ (new = 0 /\ Reseeded)

ProfileAhead ==
    /\ \A m \in Messages : hist[m] <= profile[Owner[m]]
    /\ \A a \in Accounts : mem[a].cursor <= profile[a] /\ disk[a].cursor <= profile[a]
MemoryNoOlder == \A a \in Accounts : NoOlder(mem[a].cursor, disk[a].cursor)
WindowBeyond ==
    pc \in {"quiet", "message", "archive", "commit"} =>
        /\ mem[acct].cursor # 0
        /\ \A m \in work.listed : Owner[m] = acct /\ hist[m] > mem[acct].cursor
CursorInv == ProfileAhead /\ MemoryNoOlder /\ WindowBeyond

Forward == \A a \in Accounts : NoOlder(disk'[a].cursor, disk[a].cursor)

(* A state object that may be written: no older than the file, not beyond now. *)
Writable(m) ==
    \A a \in Accounts : m[a].cursor <= profile[a] /\ NoOlder(m[a].cursor, disk[a].cursor)

LEMMA MemWritable == CursorInv => Writable(mem)
  BY DEF CursorInv, ProfileAhead, MemoryNoOlder, Writable

LEMMA OneAccountWritable ==
    ASSUME TypeOK, CursorInv, NEW r \in AccountStates,
           r.cursor <= profile[acct], NoOlder(r.cursor, disk[acct].cursor)
    PROVE  Writable([mem EXCEPT ![acct] = r])
<1>1. acct \in Accounts /\ mem \in AccountMap
  BY AcctType DEF TypeOK, AccountMap
<1> QED
  BY <1>1, MemWritable DEF Writable, AccountMap

LEMMA EndTurnCursor ==
    ASSUME TypeOK, CursorInv, NEW m \in AccountMap, NEW s, NEW u, Writable(m),
           EndTurn(m, s, u), UNCHANGED env
    PROVE  CursorInv' /\ Forward
<1>1. pc' \in {"account", "finish"}
  BY DEF EndTurn, NextAccount
<1>2. \/ mem' = mem /\ disk' = disk
      \/ mem' = m /\ disk' = m
      \/ mem' = m /\ disk' = disk
  BY DEF EndTurn
<1>3. \A a \in Accounts : disk[a].cursor \in Nat /\ m[a].cursor \in Nat
  BY DEF TypeOK, AccountMap, AccountStates
<1>4. Forward
  BY <1>2, <1>3 DEF Forward, Writable, NoOlder
<1>5. ProfileAhead' /\ MemoryNoOlder'
  BY <1>2, <1>3 DEF CursorInv, ProfileAhead, MemoryNoOlder, Writable, NoOlder, env
<1> QED
  BY <1>1, <1>4, <1>5 DEF CursorInv, WindowBeyond

LEMMA GiveUpCursor ==
    ASSUME TypeOK, CursorInv, NEW m \in AccountMap, NEW u, Writable(m),
           GiveUp(m, u), UNCHANGED env
    PROVE  CursorInv' /\ Forward
<1>1. pc' \in {"account", "finish"}
  BY DEF GiveUp, NextAccount
<1>2. (mem' = mem \/ mem' = m) /\ disk' = disk
  BY DEF GiveUp
<1>3. \A a \in Accounts : disk[a].cursor \in Nat
  BY DEF TypeOK, AccountStates
<1>4. Forward
  BY <1>2, <1>3 DEF Forward, NoOlder
<1>5. ProfileAhead' /\ MemoryNoOlder'
  BY <1>2 DEF CursorInv, ProfileAhead, MemoryNoOlder, Writable, env
<1> QED
  BY <1>1, <1>4, <1>5 DEF CursorInv, WindowBeyond

LEMMA AliasedWritable == TypeOK /\ CursorInv => Writable(Aliased)
<1> SUFFICES ASSUME TypeOK, CursorInv PROVE Writable(Aliased)
  OBVIOUS
<1>1. acct \in Accounts /\ mem \in AccountMap
  BY AcctType DEF TypeOK, AccountMap
<1>2. \A a \in Accounts : Aliased[a].cursor = mem[a].cursor
  BY <1>1 DEF Aliased, AccountMap, AccountStates
<1> QED
  BY <1>2, MemWritable DEF Writable

LEMMA ConcludeCursor ==
    ASSUME TypeOK, CursorInv, NEW r \in AccountStates, NEW c,
           r.cursor <= profile[acct], NoOlder(r.cursor, disk[acct].cursor),
           Conclude(r, c), UNCHANGED env
    PROVE  CursorInv' /\ Forward
<1> DEFINE progress == r.cursor # mem[acct].cursor \/ work.progressed \/ c
           stalled == IF progress THEN 0
                      ELSE IF r.stalled < StallCap THEN r.stalled + 1 ELSE StallCap
           rec == [r EXCEPT !.stalled = stalled]
           worst == IF Durable /\ stalled > stats.maxStalled THEN stalled ELSE stats.maxStalled
           s == [stats EXCEPT !.maxStalled = worst]
           m == [mem EXCEPT ![acct] = rec]
<1>1. stalled \in 0..StallCap
  BY BoundsAssumption DEF AccountStates
<1>2. EndTurn(m, s, "messageErrors")
  BY DEF Conclude
<1>3. rec \in AccountStates /\ rec.cursor = r.cursor
  BY <1>1 DEF AccountStates
<1> HIDE DEF rec, s
<1>4. Writable(m)
  BY <1>3, OneAccountWritable
<1>5. m \in AccountMap
  BY <1>3, AcctType DEF TypeOK, AccountMap
<1> QED
  BY <1>2, <1>4, <1>5, EndTurnCursor

(* The answer of nextCursor lies between the cursor it started from and now. *)
LEMMA NextCursorsAhead ==
    ASSUME TypeOK, CursorInv, pc \in {"quiet", "commit"}, NEW c \in NextCursors
    PROVE  /\ c \in Nat /\ c >= mem[acct].cursor /\ c <= profile[acct]
           /\ NoOlder(c, disk[acct].cursor)
<1>1. acct \in Accounts /\ mem[acct].cursor \in Nat /\ disk[acct].cursor \in Nat
      /\ profile[acct] \in Nat
  BY AcctType DEF TypeOK, AccountStates
<1>2. mem[acct].cursor # 0 /\ mem[acct].cursor <= profile[acct]
      /\ mem[acct].cursor >= disk[acct].cursor
  BY <1>1 DEF CursorInv, ProfileAhead, MemoryNoOlder, WindowBeyond, NoOlder
<1>3. work.listed \subseteq Messages
  BY DEF TypeOK, Works
<1>4. \A m \in work.listed : hist[m] \in Nat /\ hist[m] > mem[acct].cursor
                              /\ hist[m] <= profile[acct]
  BY <1>3 DEF TypeOK, CursorInv, ProfileAhead, WindowBeyond
<1>5. c = profile[acct] \/ c = mem[acct].cursor \/ \E m \in work.listed : c = hist[m]
  BY DEF NextCursors, Watermarks
<1> QED
  BY <1>1, <1>2, <1>4, <1>5 DEF NoOlder

(* A step of the message loop moves no cursor and leaves the window alone. *)
LEMMA LoopCursor ==
    ASSUME TypeOK, CursorInv, pc \in {"message", "archive"}, at' = at, UNCHANGED <<env, disk>>,
           work'.listed = work.listed,
           \A a \in Accounts : mem'[a].cursor = mem[a].cursor
    PROVE  CursorInv' /\ Forward
<1>1. acct' = acct /\ acct \in Accounts
  BY AcctType DEF acct
<1>2. \A a \in Accounts : disk[a].cursor \in Nat
  BY DEF TypeOK, AccountStates
<1>3. ProfileAhead' /\ MemoryNoOlder'
  BY DEF CursorInv, ProfileAhead, MemoryNoOlder, env
<1>4. WindowBeyond'
  BY <1>1 DEF CursorInv, WindowBeyond, env
<1> QED
  BY <1>2, <1>3, <1>4 DEF CursorInv, Forward, NoOlder

LEMMA MessageStepCursor ==
    ASSUME TypeOK, CursorInv, MessageStep
    PROVE  CursorInv' /\ Forward
<1>1. InLoop
  BY DEF MessageStep, FetchGone, HandlerGone, ScreenOut, SkipDuplicate, Handle,
         FetchThrows, HandlerThrows
<1>2. id \in Messages /\ work \in Works
  BY <1>1, IdType DEF InLoop, TypeOK
<1>3. work'.listed = work.listed
  <2>1. \A w : Consume(w) /\ w \in Works /\ w.listed = work.listed => work'.listed = work.listed
    BY DEF Consume, Works
  <2>2. RingAdd(work, id) \in Works /\ RingAdd(work, id).listed = work.listed
    BY <1>2, RingAddType
  <2>3. \A f : Retire(id, f) => work'.listed = work.listed
    BY <1>2, <2>1, <2>2 DEF Retire
  <2>4. Struck(id) => work'.listed = work.listed
    <3> DEFINE w == [work EXCEPT !.strikes = Strike(@, id)]
    <3>1. w \in Works /\ w.listed = work.listed
      BY <1>2, StrikeType DEF Works
    <3>2. RingAdd(w, id) \in Works /\ RingAdd(w, id).listed = work.listed
      BY <1>2, <3>1, RingAddType
    <3> HIDE DEF w
    <3>3. Struck(id) => Consume(work) \/ Consume(w) \/ Consume(RingAdd(w, id))
      BY DEF Struck, w
    <3> QED
      BY <1>2, <2>1, <3>1, <3>2, <3>3
  <2>5. Handle => work'.listed = work.listed
    <3> SUFFICES ASSUME Handle PROVE work'.listed = work.listed
      OBVIOUS
    <3> DEFINE w == IF Durable THEN RingAdd(work, id) ELSE work
               v == [w EXCEPT !.toArchive = @ \cup
                       (IF mode # "dry" /\ ShouldArchive(id) THEN {id} ELSE {})]
    <3>1. w \in Works /\ w.listed = work.listed
      BY <1>2, <2>2
    <3>2. Consume(v)
      BY DEF Handle
    <3> HIDE DEF w
    <3>3. v \in Works /\ v.listed = work.listed
      BY <1>2, <3>1 DEF Works
    <3> HIDE DEF v
    <3> QED
      BY <2>1, <3>2, <3>3
  <2> QED
    BY <2>3, <2>4, <2>5 DEF MessageStep, FetchGone, HandlerGone, ScreenOut, SkipDuplicate,
                            FetchThrows, HandlerThrows
<1>4. \A a \in Accounts : mem'[a].cursor = mem[a].cursor
  <2>1. mem' = mem \/ Struck(id)
    BY DEF MessageStep, FetchGone, HandlerGone, ScreenOut, SkipDuplicate, Handle,
           FetchThrows, HandlerThrows
  <2>2. mem \in AccountMap /\ acct \in Accounts
    BY AcctType DEF TypeOK, AccountMap
  <2>3. mem' = mem \/ mem' = [mem EXCEPT ![acct].dropped = LastN(Append(@, id), QuarantineMax)]
    BY <2>1 DEF Struck
  <2> QED
    BY <2>2, <2>3 DEF AccountMap, AccountStates
<1> QED
  BY <1>1, <1>3, <1>4, LoopCursor DEF InLoop

LEMMA InitCursor == Init => CursorInv
  BY MailAssumption DEF Init, Fresh, CursorInv, ProfileAhead, MemoryNoOlder, WindowBeyond, NoOlder

LEMMA TurnCursor ==
    ASSUME TypeOK, CursorInv, TurnStep
    PROVE  CursorInv' /\ Forward
<1>0. acct \in Accounts /\ mem \in AccountMap /\ mem[acct] \in AccountStates
      /\ profile[acct] \in Nat /\ disk[acct].cursor \in Nat
  BY AcctType DEF TypeOK, AccountMap, AccountStates
<1>1. mem[acct].cursor \in Nat /\ mem[acct].cursor <= profile[acct]
      /\ disk[acct].cursor <= profile[acct]
      /\ NoOlder(mem[acct].cursor, disk[acct].cursor)
  BY <1>0 DEF AccountStates, CursorInv, ProfileAhead, MemoryNoOlder
<1>2. CASE Unreachable
  <2>1. GiveUp(mem, "accountErrors") /\ UNCHANGED env
    BY <1>2 DEF Unreachable
  <2> QED
    BY <1>0, <2>1, MemWritable, GiveUpCursor
<1>3. CASE Seed
  <2> DEFINE r == [Fresh EXCEPT !.cursor = profile[acct]]
             m == [mem EXCEPT ![acct] = r]
  <2>1. r \in AccountStates /\ r.cursor = profile[acct]
    BY <1>0, FreshType DEF AccountStates
  <2>2. EndTurn(m, stats, "accountErrors") /\ UNCHANGED env
    BY <1>3 DEF Seed
  <2> HIDE DEF r
  <2>3. Writable(m)
    BY <1>0, <1>1, <2>1, OneAccountWritable DEF NoOlder
  <2>4. m \in AccountMap
    BY <1>0, <2>1 DEF AccountMap
  <2> QED
    BY <2>2, <2>3, <2>4, EndTurnCursor
<1>4. CASE ListExpired
  BY <1>4 DEF ListExpired, CursorInv, ProfileAhead, MemoryNoOlder, WindowBeyond, Forward,
              NoOlder, env, TypeOK, AccountStates
<1>5. CASE List
  <2>1. mem[acct].cursor # 0 /\ UNCHANGED <<env, disk, mem, at>>
    BY <1>5 DEF List
  <2>0. PICK record \in Overlaps(acct) : \E listed \in ListingsOf(acct, record) :
             \E batch \in Enumerations(listed \ Range(mem[acct].ring), record) :
                Begin(listed, batch)
    BY <1>5 DEF List
  <2>2. PICK listed \in ListingsOf(acct, record) :
             \E batch \in Enumerations(listed \ Range(mem[acct].ring), record) :
                Begin(listed, batch)
    BY <2>0
  <2>3. work'.listed = listed
    BY <2>2 DEF Begin, NoWork
  <2>4. \A m \in listed : Owner[m] = acct /\ hist[m] > mem[acct].cursor
    BY ListedInWindow DEF Window
  <2>5. acct' = acct
    BY <2>1 DEF acct
  <2>6. WindowBeyond'
    BY <2>1, <2>3, <2>4, <2>5 DEF WindowBeyond, env
  <2>7. \A a \in Accounts : disk[a].cursor \in Nat
    BY DEF TypeOK, AccountStates
  <2> QED
    BY <2>1, <2>6, <2>7 DEF CursorInv, ProfileAhead, MemoryNoOlder, Forward, NoOlder, env
<1>6. CASE ResetExpired
  <2>1. CASE Conclude([mem[acct] EXCEPT !.cursor = profile[acct]], FALSE)
    <3>1. [mem[acct] EXCEPT !.cursor = profile[acct]] \in AccountStates
      BY <1>0 DEF AccountStates
    <3>2. [mem[acct] EXCEPT !.cursor = profile[acct]].cursor = profile[acct]
      BY <1>0 DEF AccountStates
    <3>3. PICK r \in AccountStates : r.cursor = profile[acct] /\ Conclude(r, FALSE)
      BY <2>1, <3>1, <3>2
    <3>4. r.cursor <= profile[acct] /\ NoOlder(r.cursor, disk[acct].cursor)
      BY <1>0, <1>1, <3>3 DEF NoOlder
    <3>5. UNCHANGED env
      BY <1>6 DEF ResetExpired
    <3> QED
      BY <3>3, <3>4, <3>5, ConcludeCursor
  <2>2. CASE GiveUp(mem, "messageErrors")
    BY <1>0, <1>6, <2>2, MemWritable, GiveUpCursor DEF ResetExpired
  <2> QED
    BY <1>6, <2>1, <2>2 DEF ResetExpired
<1>7. CASE QuietTurn
  <2>1. ASSUME NEW cursor \in NextCursors, NEW c,
               Conclude([mem[acct] EXCEPT !.cursor = cursor], c)
        PROVE  CursorInv' /\ Forward
    <3>1. cursor \in Nat /\ cursor <= profile[acct] /\ NoOlder(cursor, disk[acct].cursor)
      BY <1>7, NextCursorsAhead DEF QuietTurn
    <3>2. [mem[acct] EXCEPT !.cursor = cursor] \in AccountStates
          /\ [mem[acct] EXCEPT !.cursor = cursor].cursor = cursor
      BY <1>0, <3>1 DEF AccountStates
    <3>3. PICK r \in AccountStates : r.cursor = cursor /\ Conclude(r, c)
      BY <2>1, <3>2
    <3> QED
      BY <1>7, <3>1, <3>3, ConcludeCursor DEF QuietTurn
  <2>2. CASE GiveUp(Aliased, "messageErrors")
    BY <1>7, <2>2, AliasedType, AliasedWritable, GiveUpCursor DEF QuietTurn
  <2> QED
    BY <1>7, <2>1, <2>2 DEF QuietTurn
<1>8. CASE MessageStep
  BY <1>8, MessageStepCursor
<1>9. CASE ArchiveBatch
  BY <1>9, LoopCursor DEF ArchiveBatch
<1>10. CASE Commit
  <2>1. ASSUME NEW c \in Nat, c <= profile[acct], NoOlder(c, disk[acct].cursor),
               Conclude([mem[acct] EXCEPT !.cursor = c, !.kept = TRUE,
                            !.ring = LastN(work.ring, RingMax),
                            !.strikes = LastN(work.strikes, MaxTracked)], FALSE)
        PROVE  CursorInv' /\ Forward
    <3> DEFINE record == [mem[acct] EXCEPT !.cursor = c, !.kept = TRUE,
                             !.ring = LastN(work.ring, RingMax),
                             !.strikes = LastN(work.strikes, MaxTracked)]
    <3>1. LastN(work.ring, RingMax) \in Seq(Messages)
          /\ LastN(work.strikes, MaxTracked) \in Seq(Strikes)
      BY LastNType, BoundsAssumption DEF TypeOK, Works
    <3>2. record \in AccountStates
      BY <1>0, <3>1 DEF AccountStates
    <3>3. record.cursor = c
      BY <1>0 DEF AccountStates
    <3>4. PICK r \in AccountStates : r.cursor = c /\ Conclude(r, FALSE)
      BY <2>1, <3>2, <3>3
    <3> QED
      BY <1>10, <2>1, <3>4, ConcludeCursor DEF Commit
  <2>2. CASE GiveUp(Aliased, "messageErrors")
    BY <1>10, <2>2, AliasedType, AliasedWritable, GiveUpCursor DEF Commit
  <2>3. \A c \in NextCursors : c \in Nat /\ c <= profile[acct] /\ NoOlder(c, disk[acct].cursor)
    BY <1>10, NextCursorsAhead DEF Commit
  <2> QED
    BY <1>1, <1>10, <2>1, <2>2, <2>3 DEF Commit
<1> QED
  BY <1>2, <1>3, <1>4, <1>5, <1>6, <1>7, <1>8, <1>9, <1>10 DEF TurnStep

LEMMA NextCursorInv == TypeOK /\ CursorInv /\ [Next]_vars => CursorInv' /\ Forward
<1> SUFFICES ASSUME TypeOK, CursorInv, [Next]_vars PROVE CursorInv' /\ Forward
  OBVIOUS
<1>0. \A a \in Accounts : disk[a].cursor \in Nat /\ mem[a].cursor \in Nat /\ profile[a] \in Nat
  BY DEF TypeOK, AccountStates
<1> USE DEF CursorInv, Forward, NoOlder
<1>1. CASE StartRun
  BY <1>0, <1>1 DEF StartRun, ProfileAhead, MemoryNoOlder, WindowBeyond, Fresh, Fault, Reseeded, env
<1>2. CASE TurnStep
  BY <1>2, TurnCursor
<1>3. CASE Return
  BY <1>0, <1>3 DEF Return, ProfileAhead, MemoryNoOlder, WindowBeyond, env
<1>4. CASE Reject
  BY <1>0, <1>4 DEF Reject, ProfileAhead, MemoryNoOlder, WindowBeyond, env
<1>5. CASE Deliver
  <2>1. UNCHANGED <<disk, mem, pc, at, work>>
    BY <1>5 DEF Deliver
  <2>2. PICK a \in Accounts : \E last \in {m \in Messages : Owner[m] = a /\ hist[m] = 0} :
          LET block == {m \in Messages : Owner[m] = a /\ hist[m] = 0 /\ m <= last}
          IN  /\ profile' = [profile EXCEPT ![a] = @ + 1]
              /\ hist' = [m \in Messages |-> IF m \in block THEN profile[a] + 1 ELSE hist[m]]
    BY <1>5 DEF Deliver
  <2>3. /\ profile' = [profile EXCEPT ![a] = @ + 1]
        /\ \A m \in Messages : \/ hist'[m] = hist[m]
                               \/ Owner[m] = a /\ hist[m] = 0 /\ hist'[m] = profile[a] + 1
    BY <2>2
  <2>4. Owner \in [Messages -> Accounts] /\ hist \in [Messages -> Nat]
        /\ profile \in [Accounts -> Nat]
    BY MailAssumption DEF TypeOK
  <2>5. ProfileAhead'
    BY <1>0, <2>1, <2>3, <2>4 DEF ProfileAhead
  <2>6. MemoryNoOlder'
    BY <2>1 DEF MemoryNoOlder
  <2>7. WindowBeyond'
    <3>1. acct' = acct /\ (pc \in {"quiet", "message", "archive", "commit"} => acct \in Accounts)
      BY <2>1, AcctType DEF acct
    <3>2. work.listed \subseteq Messages
      BY DEF TypeOK, Works
    <3> QED
      BY <1>0, <2>1, <2>3, <2>4, <3>1, <3>2 DEF WindowBeyond
  <2> QED
    BY <1>0, <2>1, <2>5, <2>6, <2>7
<1>6. CASE Expire
  BY <1>0, <1>6 DEF Expire, ProfileAhead, MemoryNoOlder, WindowBeyond, acct
<1>7. CASE Crash
  BY <1>0, <1>7 DEF Crash, ProfileAhead, MemoryNoOlder, WindowBeyond, env
<1>8. CASE UNCHANGED vars
  BY <1>0, <1>8 DEF vars, env, ProfileAhead, MemoryNoOlder, WindowBeyond, acct
<1> QED
  BY <1>1, <1>2, <1>3, <1>4, <1>5, <1>6, <1>7, <1>8 DEF Next, RunStep

(* poll.js 351: through lost writes, expiries, crashes and re-listings, no    *)
(* account's cursor on disk moves back, unless an unreadable state file made  *)
(* the account start over; the whole computation of nextCursor, the ring and  *)
(* the truncation of the window included, for every value of the constants.   *)
THEOREM CursorOnlyAdvances == Spec => CursorNeverRegresses
<1>1. TypeOK /\ CursorInv /\ [Next]_vars
      => [\A a \in Accounts : \/ disk'[a].cursor >= disk[a].cursor
                              \/ disk'[a].cursor = 0 /\ "state" \in Faults]_vars
  BY NextCursorInv DEF Forward, NoOlder, Reseeded
<1> QED
  BY <1>1, InitType, NextType, InitCursor, NextCursorInv, PTL DEF Spec, CursorNeverRegresses
=============================================================================
