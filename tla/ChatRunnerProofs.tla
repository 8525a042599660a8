--------------------------- MODULE ChatRunnerProofs ---------------------------
(***************************************************************************)
(* Proofs about ChatRunner and the request of ManagerBot that it makes,    *)
(* for any number of updates and crashes, any senders, packages and roles: *)
(* no message is handled twice, none that Telegram forgets goes unaccounted*)
(* for, and no answer cites what the asker may not see.                    *)
(***************************************************************************)
EXTENDS ChatRunner, WellFoundedInduction, TLAPS

(* What the request may cite was indexed while it ran, and is for the asker.*)
MayCite(c) == c[1] \in passed /\ (c[1] \in Restricted => chat.person \in Elevated)

RequestInv ==
  /\ chat.pc = "turn" => index \subseteq passed /\ \A c \in chat.citable : MayCite(c)
  /\ AnswersCiteVisible

-----------------------------------------------------------------------------
\* Where the batch stands towards the two offsets.
BatchPlaced ==
  /\ loop.pc \in {"start", "poll", "backoff", "failed"} => loop.batch = {}
  /\ loop.pc \in {"handle", "ask"} => \A u \in loop.batch : u < offset
  /\ loop.pc = "fetched" =>
       /\ offset <= confirmed /\ loop.batch # {}
       /\ \A u \in loop.batch : u >= confirmed
       /\ \A v \in loop.batch, u \in Update : confirmed <= u /\ u <= v => u \in loop.batch

\* An update that met its fate is one that no later poll hands out again.
MetArePast == \A u \in Update : outcome[u] # {} => u < offset \/ u < confirmed

\* What is in memory has not been dealt with.
BatchIsFresh == \A u \in loop.batch : outcome[u] = {}

\* What neither side will hand out again is dealt with, or in memory.
PastIsAccounted ==
  \A u \in Update \ Unmentioned :
    u < confirmed \/ u < offset => outcome[u] # {} \/ u \in loop.batch

OnceInv == BatchPlaced /\ MetArePast /\ BatchIsFresh /\ PastIsAccounted /\ AtMostOnce

-----------------------------------------------------------------------------
(* The ends of a batch. *)

\* A non-empty set of numbers has a least element.
LEMMA LeastExists ==
  ASSUME NEW S \in SUBSET Nat, S # {}
  PROVE  \E u \in S : \A v \in S : u <= v
  <1> DEFINE R == OpToRel(<, Nat)
  <1>1. IsWellFoundedOn(R, Nat)
    BY NatLessThanWellFounded
  <1>2. PICK u \in S : \A v \in S : ~(<<v, u>> \in R)
    <2> HIDE DEF R
    <2> QED BY <1>1, WFMin
  <1>3. \A v \in S : ~(v < u)
    BY <1>2 DEF OpToRel
  <1> QED BY <1>3

\* Earliest is the least update of a batch.
LEMMA EarliestIsLeast ==
  ASSUME NEW S \in SUBSET Update, S # {}
  PROVE  Earliest(S) \in S /\ \A v \in S : Earliest(S) <= v
  <1>1. S \in SUBSET Nat
    BY ChatAssumption DEF Update
  <1> QED BY <1>1, LeastExists DEF Earliest

\* Latest is the greatest: the least bound of the batch is in it.
LEMMA LatestIsGreatest ==
  ASSUME NEW S \in SUBSET Update, S # {}
  PROVE  Latest(S) \in S /\ \A v \in S : v <= Latest(S)
  <1> DEFINE B == {k \in Nat : \A v \in S : v <= k}
  <1>1. S \in SUBSET (Nat \ {0}) /\ MaxUpdate \in B
    BY ChatAssumption DEF Update
  <1>2. PICK m \in B : \A k \in B : m <= k
    BY <1>1, LeastExists
  <1>3. m \in Nat \ {0} /\ m - 1 \notin B
    <2>1. PICK w \in S : w \in Nat \ {0} /\ w <= m
      BY <1>1, <1>2
    <2>2. m \in Nat /\ m - 1 < m /\ m # 0
      BY <2>1
    <2> QED BY <1>2, <2>2
  <1>4. PICK v \in S : ~(v <= m - 1)
    BY <1>3
  <1>5. v = m
    BY <1>1, <1>2, <1>4
  <1>6. \E u \in S : \A w \in S : w <= u
    BY <1>2, <1>5
  <1> QED BY <1>6 DEF Latest

-----------------------------------------------------------------------------
(* The request. *)

\* What the runner's steps do to the request and the index.
RequestNext ==
  \/ Complete
  \/ \E p \in Package : Reindexed(p)
  \/ \E who \in Person : Answer(who)
  \/ /\ chat' = [chat EXCEPT !.pc = "none", !.citable = {}, !.citations = {}, !.turn = 0]
     /\ UNCHANGED <<index, passed>>

\* A request that has not begun is one.
LEMMA NoChatIsChat == NoChat \in Chat
  BY ManagerAssumption DEF NoChat, Chat

\* What ends a request: it can cite nothing more.
LEMMA EndedIsChat ==
  ASSUME chat \in Chat, NEW pc \in {"none", "answered", "refused", "error"}, NEW cited \in SUBSET Ref
  PROVE  [chat EXCEPT !.pc = pc, !.citations = cited, !.citable = {}, !.turn = 0] \in Chat
  <1>1. 0 \in 0..MaxTurns /\ {} \in SUBSET Ref /\ cited \in SUBSET Ref
    BY ManagerAssumption
  <1> QED BY <1>1 DEF Chat

\* Every step of a request keeps its types, and what it may cite in scope.
LEMMA RequestStep ==
  ManagerTypeOK /\ RequestInv /\ [RequestNext]_managerVars => ManagerTypeOK' /\ RequestInv'
  <1> SUFFICES ASSUME ManagerTypeOK, RequestInv, [RequestNext]_managerVars
               PROVE  ManagerTypeOK' /\ RequestInv'
    OBVIOUS
  <1>0. chat \in Chat /\ index \subseteq Package /\ passed \subseteq Package
    BY DEF ManagerTypeOK
  <1>1. ASSUME NEW pc \in {"none", "answered", "refused", "error"}, NEW cited \in SUBSET Ref,
               chat.pc = "turn" \/ pc = "none", Ends(pc, cited),
               pc = "answered" => cited # {} /\ cited \subseteq chat.citable
        PROVE  ManagerTypeOK' /\ RequestInv'
    <2>1. /\ chat' \in Chat /\ chat'.pc = pc /\ chat'.citations = cited /\ chat'.person = chat.person
          /\ UNCHANGED <<index, passed>>
      BY <1>0, <1>1, EndedIsChat DEF Ends, Chat
    <2> QED BY <1>0, <1>1, <2>1 DEF ManagerTypeOK, RequestInv, AnswersCiteVisible, MayCite
  <1>2. ASSUME NEW found \in SUBSET Ref, chat.pc = "turn", NextTurn(found),
               \A c \in found : c[1] \in Searchable(chat.person)
        PROVE  ManagerTypeOK' /\ RequestInv'
    <2>1. CASE chat.turn = MaxTurns
      BY <1>1, <1>2, <2>1 DEF NextTurn
    <2>2. CASE chat.turn # MaxTurns
      <3>1. /\ chat' = [chat EXCEPT !.turn = @ + 1, !.citable = @ \cup found]
            /\ UNCHANGED <<index, passed>>
        BY <1>2, <2>2 DEF NextTurn
      <3>2. chat.turn + 1 \in 0..MaxTurns /\ chat.citable \cup found \in SUBSET Ref
        BY <1>0, <2>2, ManagerAssumption DEF Chat
      <3>3. /\ chat' \in Chat /\ chat'.pc = "turn" /\ chat'.person = chat.person
            /\ chat'.citable = chat.citable \cup found
        BY <1>0, <1>2, <3>1, <3>2 DEF Chat
      <3>4. \A c \in found : MayCite(c)
        BY <1>2 DEF RequestInv, MayCite, Searchable, ConfidentialityFilter
      <3> QED BY <1>0, <1>2, <3>1, <3>3, <3>4
              DEF ManagerTypeOK, RequestInv, AnswersCiteVisible, MayCite
    <2> QED BY <2>1, <2>2
  <1>3. CASE SearchPackages
    <2>1. PICK found \in SUBSET Searchable(chat.person) : NextTurn(found \X {"chunk"})
      BY <1>3 DEF SearchPackages
    <2>2. Searchable(chat.person) \subseteq Package
      BY <1>0 DEF Searchable
    <2>3. found \X {"chunk"} \in SUBSET Ref /\ \A c \in found \X {"chunk"} : c[1] \in Searchable(chat.person)
      BY <2>1, <2>2 DEF Ref
    <2> QED BY <1>2, <1>3, <2>1, <2>3 DEF SearchPackages
  <1>4. CASE GetGateReport
    <2>1. PICK p \in Searchable(chat.person) : NextTurn({<<p, "gate">>})
      BY <1>4 DEF GetGateReport
    <2>2. p \in Package
      BY <1>0, <2>1 DEF Searchable
    <2>3. {<<p, "gate">>} \in SUBSET Ref /\ \A c \in {<<p, "gate">>} : c[1] \in Searchable(chat.person)
      BY <2>1, <2>2 DEF Ref
    <2> QED BY <1>2, <1>4, <2>1, <2>3 DEF GetGateReport
  <1>5. CASE ProvideAnswer
    <2>1. PICK refs \in SUBSET Ref, usable \in BOOLEAN :
            IF usable /\ refs \cap chat.citable # {}
            THEN Ends("answered", refs \cap chat.citable) ELSE Ends("refused", {})
      BY <1>5 DEF ProvideAnswer, ResolveCitations
    <2>2. chat.pc = "turn"
      BY <1>5 DEF ProvideAnswer
    <2>3. CASE usable /\ refs \cap chat.citable # {}
      BY <1>1, <2>1, <2>2, <2>3
    <2>4. CASE ~(usable /\ refs \cap chat.citable # {})
      BY <1>1, <2>1, <2>2, <2>4
    <2> QED BY <2>3, <2>4
  <1>6. CASE NoToolUse \/ LLMClientError
    BY <1>1, <1>6 DEF NoToolUse, LLMClientError
  <1>7. ASSUME NEW p \in Package, Reindexed(p) PROVE ManagerTypeOK' /\ RequestInv'
    <2>1. /\ index' \subseteq Package /\ chat' = chat /\ passed' \subseteq Package
          /\ passed \subseteq passed' /\ (chat.pc = "turn" => index' \subseteq passed')
      BY <1>0, <1>7 DEF Reindexed
    <2>2. \A c : MayCite(c) => MayCite(c)'
      BY <2>1 DEF MayCite
    <2>3. AnswersCiteVisible'
      BY <2>1 DEF RequestInv, AnswersCiteVisible
    <2> QED BY <1>0, <2>1, <2>2, <2>3 DEF ManagerTypeOK, RequestInv
  <1>8. ASSUME NEW who \in Person, Answer(who) PROVE ManagerTypeOK' /\ RequestInv'
    <2> DEFINE c == [NoChat EXCEPT !.pc = "turn", !.person = who, !.turn = 1]
    <2>a. 1 \in 0..MaxTurns /\ NoChat.citable = {}
      BY ManagerAssumption DEF NoChat
    <2>b. c \in Chat /\ c.pc = "turn" /\ c.citable = {}
      BY <2>a, NoChatIsChat DEF Chat
    <2>1. /\ chat' \in Chat /\ chat'.pc = "turn" /\ chat'.citable = {}
          /\ passed' = index /\ index' = index
      BY <1>8, <2>b DEF Answer
    <2> QED BY <1>0, <2>1 DEF ManagerTypeOK, RequestInv, AnswersCiteVisible
  <1>9. CASE /\ chat' = [chat EXCEPT !.pc = "none", !.citable = {}, !.citations = {}, !.turn = 0]
             /\ UNCHANGED <<index, passed>>
    <2>1. Ends("none", {})
      BY <1>0, <1>9 DEF Ends, Chat
    <2> QED BY <1>1, <2>1
  <1>10. CASE UNCHANGED managerVars
    BY <1>10 DEF managerVars, ManagerTypeOK, RequestInv, AnswersCiteVisible, MayCite
  <1> QED BY <1>3, <1>4, <1>5, <1>6, <1>7, <1>8, <1>9, <1>10 DEF RequestNext, Complete

-----------------------------------------------------------------------------
(* The loop. *)

\* Updates in a batch are handed out to people, in order.
LEMMA RequestMoves == TypeOK /\ [Next]_vars => [RequestNext]_managerVars
  <1> SUFFICES ASSUME TypeOK, [Next]_vars PROVE [RequestNext]_managerVars
    OBVIOUS
  <1>1. CASE HandleMessage
    <2> DEFINE u == Earliest(loop.batch)
    <2>1. u \in Update
      BY <1>1, EarliestIsLeast DEF HandleMessage, TypeOK, Loop
    <2> HIDE DEF u
    <2>2. SenderOf[u] # NoPerson => SenderOf[u] \in Person
      BY <2>1, ChatAssumption
    <2>3. UNCHANGED managerVars \/ (SenderOf[u] # NoPerson /\ Answer(SenderOf[u]))
      BY <1>1 DEF HandleMessage, u
    <2> QED BY <2>2, <2>3 DEF RequestNext
  <1>2. CASE AskTransportError
    BY <1>2 DEF AskTransportError, RequestNext
  <1>3. CASE \E p \in Package : Reindexed(p) /\ UNCHANGED chatVars
    BY <1>3 DEF RequestNext
  <1>4. CASE Complete /\ UNCHANGED chatVars
    BY <1>4 DEF RequestNext
  <1>5. CASE Start \/ GiveUp \/ GetUpdates \/ Retry \/ SaveOffset \/ BatchDone \/ Reply
    BY <1>5 DEF Start, GiveUp, GetUpdates, Retry, SaveOffset, BatchDone, Reply
  <1>7. CASE StartFails \/ GetUpdatesFails \/ SaveOffsetFails \/ Crash \/ IntervalPasses \/ SendUpdate
    BY <1>7 DEF StartFails, GetUpdatesFails, SaveOffsetFails, Crash, IntervalPasses, SendUpdate
  <1>6. UNCHANGED vars => UNCHANGED managerVars
    BY DEF vars
  <1> QED BY <1>1, <1>2, <1>3, <1>4, <1>5, <1>6, <1>7, Zenon DEF Next, Runner

\* The types of the loop's own variables.
LoopTypeOK ==
  /\ sent \in 0..MaxUpdate /\ confirmed \in 1..(MaxUpdate + 1) /\ offset \in 0..(MaxUpdate + 1)
  /\ loop \in Loop
  /\ outcome \in [Update -> SUBSET (Fates \cup {"twice"})]
  /\ starts \in 0..StartBurst /\ crashes \in 0..MaxCrashes

\* Bounds as numbers.
LEMMA UpdateArithmetic ==
  /\ MaxUpdate \in Nat /\ MaxCrashes \in Nat /\ StartBurst \in Nat
  /\ \A u \in Update : u \in Nat /\ 1 <= u /\ u <= MaxUpdate
  /\ LoopTypeOK => confirmed \in Nat /\ offset \in Nat /\ sent \in Nat
                /\ starts \in Nat /\ crashes \in Nat
  BY ChatAssumption DEF Update, LoopTypeOK

\* Fresh updates that meet a fate meet that one only.
LEMMA MeetsOnce ==
  ASSUME LoopTypeOK, NEW S \in SUBSET Update, NEW fate \in Fates, Meets(S, fate),
         \A u \in S : outcome[u] = {}
  PROVE  /\ outcome' \in [Update -> SUBSET (Fates \cup {"twice"})]
         /\ \A u \in Update : outcome'[u] = IF u \in S THEN {fate} ELSE outcome[u]
  <1>1. /\ outcome \in [Update -> SUBSET (Fates \cup {"twice"})]
        /\ \A u \in Update : outcome'[u] =
             IF u \notin S THEN outcome[u]
             ELSE outcome[u] \cup {IF outcome[u] \cap {"asked", "turned_away"} # {} THEN "twice" ELSE fate}
    BY DEF Meets, LoopTypeOK
  <1>2. \A u \in Update : outcome'[u] = IF u \in S THEN {fate} ELSE outcome[u]
    BY <1>1
  <1>3. outcome' \in [Update -> SUBSET (Fates \cup {"twice"})]
    BY <1>1, <1>2 DEF Meets
  <1> QED BY <1>2, <1>3

\* A step that deals with no update, leaves the offsets alone and keeps the batch.
LEMMA QuietLoop ==
  ASSUME LoopTypeOK, OnceInv, UNCHANGED <<confirmed, offset, outcome>>,
         sent' \in 0..MaxUpdate, starts' \in 0..StartBurst, crashes' \in 0..MaxCrashes,
         loop' \in Loop, loop'.batch = loop.batch,
         \/ loop'.pc = loop.pc
         \/ loop'.pc \in {"start", "poll", "backoff", "failed"} /\ loop.batch = {}
         \/ loop'.pc = "handle" /\ loop.pc = "ask"
  PROVE  LoopTypeOK' /\ OnceInv'
  BY DEF LoopTypeOK, OnceInv, BatchPlaced, MetArePast, BatchIsFresh, PastIsAccounted, AtMostOnce

\* Every step of the loop deals with each update at most once, and forgets none.
LEMMA LoopStep == LoopTypeOK /\ OnceInv /\ [Next]_vars => LoopTypeOK' /\ OnceInv'
  <1> SUFFICES ASSUME LoopTypeOK, OnceInv, [Next]_vars PROVE LoopTypeOK' /\ OnceInv'
    OBVIOUS
  <1>0. /\ sent \in 0..MaxUpdate /\ crashes \in 0..MaxCrashes /\ starts \in 0..StartBurst
        /\ loop \in Loop
        /\ confirmed \in Nat /\ offset \in Nat /\ loop.batch \in SUBSET Update
        /\ MaxUpdate \in Nat /\ MaxCrashes \in Nat /\ StartBurst \in Nat
        /\ \A u \in Update : u \in Nat /\ 1 <= u /\ u <= MaxUpdate
        /\ \A pc \in {"start", "poll", "fetched", "handle", "ask", "backoff", "failed"} :
             \A b \in SUBSET Update : /\ In(pc, b) \in Loop
                                      /\ In(pc, b).pc = pc /\ In(pc, b).batch = b
    BY UpdateArithmetic DEF LoopTypeOK, Loop, In
  <1>1. CASE SendUpdate
    <2>1. sent' \in 0..MaxUpdate /\ UNCHANGED <<confirmed, offset, loop, outcome, starts, crashes>>
      BY <1>0, <1>1 DEF SendUpdate
    <2> QED BY <1>0, <2>1, QuietLoop
  <1>2. CASE Start \/ GiveUp \/ Retry \/ BatchDone
    <2>1. /\ loop.batch = {} /\ loop' \in {In("poll", {}), In("failed", {})}
          /\ starts' \in 0..StartBurst /\ UNCHANGED <<sent, confirmed, offset, outcome, crashes>>
      BY <1>0, <1>2 DEF Start, GiveUp, Retry, BatchDone, OnceInv, BatchPlaced
    <2> QED BY <1>0, <2>1, QuietLoop
  <1>14. CASE StartFails \/ IntervalPasses
    <2>1. /\ starts' \in 0..StartBurst
          /\ UNCHANGED <<sent, confirmed, offset, loop, outcome, crashes>>
      BY <1>0, <1>14 DEF StartFails, IntervalPasses
    <2> QED BY <1>0, <2>1, QuietLoop
  <1>3. CASE Reply
    <2>1. /\ loop.pc = "ask" /\ loop' = In("handle", loop.batch)
          /\ UNCHANGED <<sent, confirmed, offset, outcome, starts, crashes>>
      BY <1>3 DEF Reply
    <2> QED BY <1>0, <2>1, QuietLoop
  <1>4. ASSUME NEW B \in SUBSET Update, NEW pc \in {"poll", "fetched", "backoff"},
               loop.pc = "poll", Confirm \/ UNCHANGED confirmed,
               loop' = In(pc, B), pc # "fetched" => B = {},
               pc = "fetched" => Confirm /\ B # {} /\ B = {u \in Update : u >= confirmed' /\ u <= sent},
               UNCHANGED <<sent, offset, outcome, starts, crashes>>
        PROVE  LoopTypeOK' /\ OnceInv'
    <2>1. /\ loop' \in Loop /\ loop'.pc = pc /\ loop'.batch = B /\ loop.batch = {}
      BY <1>0, <1>4 DEF OnceInv, BatchPlaced
    <2>2. /\ confirmed' \in 1..(MaxUpdate + 1) /\ confirmed <= confirmed'
          /\ \A u \in Update : u < confirmed' => u < confirmed \/ u < offset
          /\ Confirm => offset <= confirmed'
      BY <1>0, <1>4 DEF Confirm, LoopTypeOK
    <2>3. BatchPlaced'
      BY <1>0, <1>4, <2>1, <2>2 DEF BatchPlaced
    <2>4. MetArePast'
      BY <1>0, <1>4, <2>2 DEF OnceInv, MetArePast
    <2>5. BatchIsFresh'
      BY <1>0, <1>4, <2>1, <2>2 DEF OnceInv, MetArePast, BatchIsFresh
    <2>6. PastIsAccounted'
      BY <1>0, <1>4, <2>1, <2>2 DEF OnceInv, PastIsAccounted
    <2> QED BY <1>0, <1>4, <2>1, <2>2, <2>3, <2>4, <2>5, <2>6 DEF LoopTypeOK, OnceInv, AtMostOnce
  <1>5. CASE GetUpdates
    <2> DEFINE B == {u \in Update : u >= confirmed' /\ u <= sent}
    <2>1. /\ loop.pc = "poll" /\ Confirm /\ UNCHANGED <<sent, offset, outcome, starts, crashes>>
          /\ loop' = IF B = {} THEN In("poll", {}) ELSE In("fetched", B)
      BY <1>5 DEF GetUpdates
    <2> HIDE DEF B
    <2>2. B \in SUBSET Update /\ {} \in SUBSET Update
      BY DEF B
    <2>3. CASE B = {}
      BY <1>4, <2>1, <2>2, <2>3
    <2>4. CASE B # {}
      BY <1>4, <2>1, <2>2, <2>4 DEF B
    <2> QED BY <2>3, <2>4
  <1>6. CASE GetUpdatesFails
    <2>1. {} \in SUBSET Update
      OBVIOUS
    <2> QED BY <1>4, <1>6, <2>1 DEF GetUpdatesFails
  <1>7. CASE SaveOffset
    <2> DEFINE b == loop.batch
               m == Latest(b)
    <2>1. /\ loop.pc = "fetched" /\ offset' = m + 1 /\ loop' = In("handle", b \ Unmentioned)
          /\ UNCHANGED <<sent, confirmed, outcome, starts, crashes>>
      BY <1>7 DEF SaveOffset
    <2>2. /\ offset <= confirmed /\ b # {} /\ \A u \in b : u >= confirmed
          /\ \A v \in b, u \in Update : confirmed <= u /\ u <= v => u \in b
      BY <2>1 DEF OnceInv, BatchPlaced
    <2>3. m \in b /\ \A u \in b : u <= m
      BY <1>0, <2>2, LatestIsGreatest
    <2> HIDE DEF m
    <2>4. /\ loop' \in Loop /\ loop'.pc = "handle" /\ loop'.batch = b \ Unmentioned
          /\ m \in Update /\ offset' \in 0..(MaxUpdate + 1) /\ confirmed < offset'
      BY <1>0, <2>1, <2>2, <2>3
    <2>5. BatchPlaced'
      BY <1>0, <2>1, <2>3, <2>4 DEF BatchPlaced
    <2>6. MetArePast'
      BY <1>0, <2>1, <2>2, <2>4 DEF OnceInv, MetArePast
    <2>7. BatchIsFresh'
      BY <2>1, <2>4 DEF OnceInv, BatchIsFresh
    <2>8. PastIsAccounted'
      <3> SUFFICES ASSUME NEW u \in Update \ Unmentioned, u < confirmed' \/ u < offset'
                   PROVE  outcome'[u] # {} \/ u \in loop'.batch
        BY DEF PastIsAccounted
      <3>1. CASE u < confirmed
        BY <2>1, <2>4, <3>1 DEF OnceInv, PastIsAccounted
      <3>2. CASE ~(u < confirmed)
        <4>1. u <= m /\ confirmed <= u
          BY <1>0, <2>1, <2>4, <3>2
        <4> QED BY <2>2, <2>3, <2>4, <4>1
      <3> QED BY <3>1, <3>2
    <2> QED BY <2>1, <2>4, <2>5, <2>6, <2>7, <2>8 DEF LoopTypeOK, OnceInv, AtMostOnce
  <1>8. ASSUME NEW S \in SUBSET loop.batch, NEW fate \in Fates, Meets(S, fate),
               loop.pc \in {"handle", "ask"},
               loop' \in Loop, loop'.batch = loop.batch \ S,
               loop'.pc \in {"handle", "ask"} \/ loop'.batch = {}, loop'.pc # "fetched",
               UNCHANGED <<sent, confirmed, offset, starts>>, crashes' \in 0..MaxCrashes
        PROVE  LoopTypeOK' /\ OnceInv'
    <2>1. S \in SUBSET Update /\ \A u \in S : outcome[u] = {} /\ u < offset
      BY <1>0, <1>8 DEF OnceInv, BatchIsFresh, BatchPlaced
    <2>2. /\ outcome' \in [Update -> SUBSET (Fates \cup {"twice"})]
          /\ \A u \in Update : outcome'[u] = IF u \in S THEN {fate} ELSE outcome[u]
      BY <1>8, <2>1, MeetsOnce
    <2>3. BatchPlaced'
      BY <1>8 DEF OnceInv, BatchPlaced
    <2>4. MetArePast'
      BY <1>8, <2>1, <2>2 DEF OnceInv, MetArePast
    <2>5. BatchIsFresh'
      BY <1>0, <1>8, <2>2 DEF OnceInv, BatchIsFresh
    <2>6. PastIsAccounted'
      BY <1>8, <2>2 DEF OnceInv, PastIsAccounted
    <2>7. AtMostOnce'
      BY <2>2 DEF OnceInv, AtMostOnce
    <2> QED BY <1>8, <2>2, <2>3, <2>4, <2>5, <2>6, <2>7 DEF LoopTypeOK, OnceInv
  <1>9. CASE HandleMessage
    <2> DEFINE u == Earliest(loop.batch)
    <2>1. u \in loop.batch /\ {u} \in SUBSET loop.batch /\ loop.batch \ {u} \in SUBSET Update
      BY <1>0, <1>9, EarliestIsLeast DEF HandleMessage
    <2> HIDE DEF u
    <2>2. /\ loop.pc = "handle" /\ UNCHANGED <<sent, confirmed, offset, starts, crashes>>
          /\ \/ loop' = In("handle", loop.batch \ {u}) /\ Meets({u}, "turned_away")
             \/ loop' = In("ask", loop.batch \ {u}) /\ Meets({u}, "asked")
      BY <1>9 DEF HandleMessage, u
    <2>3. {"asked", "turned_away"} \subseteq Fates
      BY DEF Fates
    <2> HIDE DEF Fates
    <2>4. CASE loop' = In("handle", loop.batch \ {u}) /\ Meets({u}, "turned_away")
      BY <1>0, <1>8, <2>1, <2>2, <2>3, <2>4
    <2>5. CASE loop' = In("ask", loop.batch \ {u}) /\ Meets({u}, "asked")
      BY <1>0, <1>8, <2>1, <2>2, <2>3, <2>5
    <2> QED BY <2>2, <2>4, <2>5
  <1>10. CASE AskTransportError
    <2>1. "dropped" \in Fates /\ loop.batch \in SUBSET loop.batch /\ {} \in SUBSET Update
      BY DEF Fates
    <2> QED BY <1>0, <1>8, <1>10, <2>1 DEF AskTransportError
  <1>15. ASSUME loop.pc = "fetched", offset' \in {offset, 0}, loop' \in Loop,
                loop'.pc \in {"start", "backoff"}, loop'.batch = {},
                UNCHANGED <<sent, confirmed, outcome, starts>>, crashes' \in 0..MaxCrashes
         PROVE  LoopTypeOK' /\ OnceInv'
    <2>1. offset <= confirmed /\ \A u \in loop.batch : u >= confirmed
      BY <1>15 DEF OnceInv, BatchPlaced
    <2>2. BatchPlaced' /\ BatchIsFresh' /\ AtMostOnce'
      BY <1>15 DEF OnceInv, BatchPlaced, BatchIsFresh, AtMostOnce
    <2>3. MetArePast'
      BY <1>0, <1>15, <2>1 DEF OnceInv, MetArePast
    <2>4. PastIsAccounted'
      BY <1>0, <1>15, <2>1 DEF OnceInv, PastIsAccounted
    <2>5. offset' \in 0..(MaxUpdate + 1)
      BY <1>0, <1>15 DEF LoopTypeOK
    <2>6. LoopTypeOK'
      BY <1>15, <2>5 DEF LoopTypeOK
    <2> QED BY <2>2, <2>3, <2>4, <2>6 DEF OnceInv
  <1>16. CASE SaveOffsetFails
    <2>1. In("backoff", {}) \in Loop /\ In("backoff", {}).pc = "backoff" /\ In("backoff", {}).batch = {}
      BY <1>0
    <2> QED BY <1>0, <1>15, <1>16, <2>1 DEF SaveOffsetFails
  <1>11. CASE Crash
    <2>1. /\ crashes' \in 0..MaxCrashes /\ loop' \in Loop /\ loop'.pc = "start" /\ loop'.batch = {}
          /\ UNCHANGED <<sent, confirmed, starts>>
      BY <1>0, <1>11, UpdateArithmetic DEF Crash
    <2>2. CASE loop.pc \in {"handle", "ask"}
      <3>1. "lost_in_crash" \in Fates /\ loop.batch \in SUBSET loop.batch
        BY DEF Fates
      <3>2. Meets(loop.batch, "lost_in_crash") /\ offset' = offset
        BY <1>11, <2>2 DEF Crash
      <3> QED BY <1>8, <2>1, <2>2, <3>1, <3>2
    <2>3. CASE loop.pc = "fetched"
      BY <1>11, <1>15, <2>1, <2>3 DEF Crash
    <2>4. CASE loop.pc \in {"start", "poll", "backoff", "failed"}
      <3>1. loop.batch = {} /\ UNCHANGED <<outcome, offset>>
        BY <1>11, <2>4 DEF Crash, OnceInv, BatchPlaced
      <3> QED BY <1>0, <2>1, <3>1, QuietLoop
    <2> QED BY <1>0, <2>2, <2>3, <2>4 DEF Loop
  <1>12. CASE UNCHANGED chatVars
    BY <1>0, <1>12, QuietLoop DEF chatVars
  <1>13. UNCHANGED vars => UNCHANGED chatVars
    BY DEF vars
  <1> QED BY <1>1, <1>2, <1>3, <1>5, <1>6, <1>7, <1>9, <1>10, <1>11, <1>12, <1>13, <1>14, <1>16, Zenon
          DEF Next, Runner

-----------------------------------------------------------------------------
\* The runner and the request: types, and the two invariants.
Inv == TypeOK /\ RequestInv /\ OnceInv

\* Where the runner is towards the two offsets, what it has in memory, and what
\* the request may cite, at all times.
THEOREM ChatInvariant == Spec => []Inv
  <1>1. Init => Inv
    <2> SUFFICES ASSUME Init PROVE Inv
      OBVIOUS
    <2>1. ManagerTypeOK /\ RequestInv
      BY NoChatIsChat DEF Init, ManagerInit, ManagerTypeOK, RequestInv, AnswersCiteVisible, NoChat
    <2>2. LoopTypeOK
      BY UpdateArithmetic DEF Init, LoopTypeOK, Loop, In
    <2>3. /\ loop.pc = "start" /\ loop.batch = {} /\ offset = 0 /\ confirmed = 1
          /\ \A u \in Update : outcome[u] = {} /\ ~(u < 1) /\ ~(u < 0)
      BY UpdateArithmetic DEF Init, In
    <2>4. OnceInv
      BY <2>3 DEF OnceInv, BatchPlaced, MetArePast, BatchIsFresh, PastIsAccounted, AtMostOnce
    <2> QED BY <2>1, <2>2, <2>4 DEF Inv, TypeOK, LoopTypeOK
  <1>2. Inv /\ [Next]_vars => Inv'
    <2>1. TypeOK <=> ManagerTypeOK /\ LoopTypeOK
      BY DEF TypeOK, LoopTypeOK
    <2>2. TypeOK' <=> ManagerTypeOK' /\ LoopTypeOK'
      BY DEF TypeOK, LoopTypeOK
    <2> QED BY <2>1, <2>2, RequestMoves, RequestStep, LoopStep DEF Inv
  <1> QED BY <1>1, <1>2, PTL DEF Spec

\* The types of the runner, the offsets and the request.
THEOREM ChatTyping == Spec => []TypeOK
  <1>1. Inv => TypeOK
    BY DEF Inv
  <1> QED BY <1>1, ChatInvariant, PTL

\* No message is answered or turned away twice, whatever crashes, torn offset
\* files and lost responses there are.
THEOREM NothingIsHandledTwice == Spec => []AtMostOnce
  <1>1. Inv => AtMostOnce
    BY DEF Inv, OnceInv
  <1> QED BY <1>1, ChatInvariant, PTL

\* What Telegram was told to forget was dealt with, is in memory, or was lost
\* in one of the two known ways.
THEOREM NothingIsForgotten == Spec => []ForgottenIsAccounted
  <1>1. Inv => ForgottenIsAccounted
    BY DEF Inv, OnceInv, PastIsAccounted, ForgottenIsAccounted
  <1> QED BY <1>1, ChatInvariant, PTL

\* An answer cites something, and only what was searchable for the asker while
\* the request ran, whatever the model wrote and however the index changed.
THEOREM CitationsAreVisible == Spec => []AnswersCiteVisible
  <1>1. Inv => AnswersCiteVisible
    BY DEF Inv, RequestInv
  <1> QED BY <1>1, ChatInvariant, PTL
=============================================================================
