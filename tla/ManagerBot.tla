------------------------------ MODULE ManagerBot ------------------------------
(***************************************************************************)
(* ap_manager_bot: one POST /chat/manager request.  A loop of at most      *)
(* MaxTurns completions; the model (external, so: anything) answers with   *)
(* nothing, with tool calls, or with provide_answer and references of its  *)
(* choice.  The tools read the search index, which the re-index hook       *)
(* changes at any time, with the scope of the identity the request came    *)
(* in with.  References are pairs of a package and what was retrieved.     *)
(***************************************************************************)
EXTENDS Naturals

CONSTANTS
  Package,        \* packages that may be indexed
  Restricted,     \* those whose confidentiality is internal_restricted
  Person,         \* fathm users who ask
  Elevated,       \* those with an analyst, reviewer, standard_approver or admin role
  NoPerson,
  MaxTurns

ASSUME ManagerAssumption ==
  /\ Restricted \subseteq Package
  /\ Elevated \subseteq Person
  /\ NoPerson \notin Person
  /\ MaxTurns \in Nat \ {0}

VARIABLES
  index,      \* packages with chunks in the search index
  chat,       \* the request
  passed      \* history: packages that were indexed while the request ran

managerVars == <<index, chat, passed>>

Ref == Package \X {"chunk", "gate"}

Chat == [pc : {"none", "turn", "answered", "refused", "error"},
         person : Person \cup {NoPerson}, turn : 0..MaxTurns,
         citable : SUBSET Ref, citations : SUBSET Ref]

NoChat == [pc |-> "none", person |-> NoPerson, turn |-> 0, citable |-> {}, citations |-> {}]

ManagerInit == index = {} /\ chat = NoChat /\ passed = {}

-----------------------------------------------------------------------------
\* confidentiality_filter_for: internal, and for elevated roles internal_restricted.
ConfidentialityFilter(who) == IF who \in Elevated THEN Package ELSE Package \ Restricted

\* chunk_in_scope: the same filter again, on what the search returned.
ChunkInScope(who, p) == p \in ConfidentialityFilter(who)

\* What a search of this request can return.
Searchable(who) == {p \in index \cap ConfidentialityFilter(who) : ChunkInScope(who, p)}

Answer(who) ==
  /\ chat.pc \notin {"turn"}
  /\ chat' = [NoChat EXCEPT !.pc = "turn", !.person = who, !.turn = 1]
  /\ passed' = index
  /\ UNCHANGED index

Ends(pc, cited) ==
  /\ chat' = [chat EXCEPT !.pc = pc, !.citations = cited, !.citable = {}, !.turn = 0]
  /\ UNCHANGED <<index, passed>>

\* Another turn, or fail closed when it was the last one.
NextTurn(found) ==
  IF chat.turn = MaxTurns THEN Ends("refused", {})
  ELSE /\ chat' = [chat EXCEPT !.turn = @ + 1, !.citable = @ \cup found]
       /\ UNCHANGED <<index, passed>>

\* search_packages and get_package_summary: some of what is searchable becomes citable.
SearchPackages ==
  /\ chat.pc = "turn"
  /\ \E found \in SUBSET Searchable(chat.person) : NextTurn(found \X {"chunk"})

\* get_gate_report: as visible as the summary; an error names no reference.
GetGateReport ==
  /\ chat.pc = "turn"
  /\ \E p \in Searchable(chat.person) : NextTurn({<<p, "gate">>})

\* Mutant of ResolveCitations: the model's word is taken.
ResolveCitationsTrusting(refs) == refs

\* resolve_citation keeps what this request handed out.
ResolveCitations(refs) == refs \cap chat.citable

\* provide_answer: no evidence, no text or nothing that resolves is a refusal.
ProvideAnswer ==
  /\ chat.pc = "turn"
  /\ \E refs \in SUBSET Ref, usable \in BOOLEAN :
       LET resolved == ResolveCitations(refs) IN
       IF usable /\ resolved # {} THEN Ends("answered", resolved) ELSE Ends("refused", {})

\* A completion without a tool call is a refusal, not an answer.
NoToolUse == chat.pc = "turn" /\ Ends("refused", {})

\* LLMClientError becomes a 502.
LLMClientError == chat.pc = "turn" /\ Ends("error", {})

Complete == SearchPackages \/ GetGateReport \/ ProvideAnswer \/ NoToolUse \/ LLMClientError

\* Approvals and recalls elsewhere, through the re-index hook.
Reindexed(p) ==
  /\ index' = IF p \in index THEN index \ {p} ELSE index \cup {p}
  /\ passed' = IF chat.pc = "turn" THEN passed \cup index' ELSE passed
  /\ UNCHANGED chat

-----------------------------------------------------------------------------
ManagerTypeOK == index \subseteq Package /\ chat \in Chat /\ passed \subseteq Package

(* An answer that is not a refusal cites something, and only packages that   *)
(* were searchable while the question was worked on and that the asker may   *)
(* see, whatever the model wrote and however the index changed.              *)
AnswersCiteVisible ==
  chat.pc = "answered" =>
    /\ chat.citations # {}
    /\ \A c \in chat.citations :
         /\ c[1] \in passed
         /\ c[1] \in Restricted => chat.person \in Elevated
=============================================================================
