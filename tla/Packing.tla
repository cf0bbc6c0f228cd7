-------------------------------- MODULE Packing ---------------------------------
(***************************************************************************)
(* ContextManager.build of agent/context.py: what of a conversation goes   *)
(* into one request.  A message is its role and its cost in tokens.  The   *)
(* oldest exchanges go first, then the outline of the workspace, then the  *)
(* instructions of the project; the latest exchange and the policy stay.   *)
(***************************************************************************)
EXTENDS Integers, Sequences, FiniteSets, FiniteSetsExt, SequencesExt

CONSTANTS
    Budgets,    \* provider_context_floor less reserve_output_tokens
    Costs,      \* estimate_tokens of a message
    MaxResult,  \* tool_result_max_chars, in tokens
    MaxLength   \* bound on the conversation

ASSUME PackingAssumption ==
    /\ Budgets \subseteq Int /\ Costs \subseteq Nat \ {0}
    /\ MaxResult \in Nat \ {0} /\ MaxLength \in Nat

VARIABLES
    history,    \* the messages of the session
    budget,     \* the budget of the provider
    offered,    \* the optional blocks there are, the first to go last
    packed,     \* the conversation left
    blocks,     \* the optional blocks left
    packing     \* where build is

packVars == <<history, budget, offered, packed, blocks, packing>>

Roles == {"system", "user", "assistant", "tool"}

Messages == [role : Roles, cost : Nat \ {0}]

PolicyCost == 1

BlockCost == 1

PackTypeOK ==
    /\ history \in Seq(Messages) /\ budget \in Budgets
    /\ packed \in Seq(Messages)
    /\ \A m \in ToSet(packed) : m.role # "system" /\ (m.role = "tool" => m.cost <= MaxResult + 1)
    /\ {offered, blocks} \subseteq Seq({"instructions", "workspace-stub"}) /\ IsPrefix(blocks, offered)
    /\ packing \in {"called", "dropping", "sent", "no room for the policy", "overflow"}

PackInit ==
    /\ \E h \in SeqOf([role : Roles \ {"system"}, cost : Costs], MaxLength) :
          history \in {h, <<[role |-> "system", cost |-> 1]>> \o h}
    /\ budget \in Budgets
    /\ offered \in {<<>>, <<"instructions">>, <<"workspace-stub">>, <<"instructions", "workspace-stub">>}
    /\ packed = <<>> /\ blocks = <<>> /\ packing = "called"

-----------------------------------------------------------------------------
(* A tool result is cut, and the cut is marked.                            *)
Bounded(m) == IF m.role = "tool" /\ m.cost > MaxResult THEN [m EXCEPT !.cost = MaxResult + 1] ELSE m

Conversation[h \in Seq(Messages)] ==
    IF h = <<>> THEN <<>>
    ELSE IF Last(h).role = "system" THEN Conversation[Front(h)]
    ELSE Append(Conversation[Front(h)], Bounded(Last(h)))

Cost[conv \in Seq(Messages)] ==
    IF conv = <<>> THEN 0 ELSE Cost[Front(conv)] + Last(conv).cost

TotalCost(conv, kept) == PolicyCost + BlockCost * Len(kept) + Cost[conv]

Users(conv) == {i \in 1..Len(conv) : conv[i].role = "user"}

(* _keep_floor: from the last user message on.                             *)
KeepFloor(conv) == IF Users(conv) = {} THEN Len(conv) ELSE Len(conv) - Max(Users(conv)) + 1

(* _drop_oldest_pair: up to the next user message.                         *)
DropOldest(conv) ==
    LET later == Users(conv) \ {1}
    IN  IF later = {} THEN <<>> ELSE SubSeq(conv, Min(later), Len(conv))

Fits == TotalCost(packed, blocks) <= budget

Prepare ==
    /\ packing = "called"
    /\ IF PolicyCost >= budget
       THEN packing' = "no room for the policy" /\ UNCHANGED <<packed, blocks>>
       ELSE packing' = "dropping" /\ packed' = Conversation[history] /\ blocks' = offered
    /\ UNCHANGED <<history, budget, offered>>

(* Mutant of DropExchange: one exchange more than is needed.               *)
DropExchangeEarly ==
    /\ packing = "dropping" /\ TotalCost(packed, blocks) >= budget /\ Len(packed) > KeepFloor(packed)
    /\ packed' = DropOldest(packed)
    /\ UNCHANGED <<history, budget, offered, blocks, packing>>

DropExchange ==
    /\ packing = "dropping" /\ ~Fits /\ Len(packed) > KeepFloor(packed)
    /\ packed' = DropOldest(packed)
    /\ UNCHANGED <<history, budget, offered, blocks, packing>>

DropBlock ==
    /\ packing = "dropping" /\ ~Fits /\ Len(packed) <= KeepFloor(packed) /\ blocks # <<>>
    /\ blocks' = Front(blocks)
    /\ UNCHANGED <<history, budget, offered, packed, packing>>

Overflow ==
    /\ packing = "dropping" /\ ~Fits /\ Len(packed) <= KeepFloor(packed) /\ blocks = <<>>
    /\ packing' = "overflow"
    /\ UNCHANGED <<history, budget, offered, packed, blocks>>

Pack ==
    /\ packing = "dropping" /\ Fits
    /\ packing' = "sent"
    /\ UNCHANGED <<history, budget, offered, packed, blocks>>

PackNext == Prepare \/ DropExchange \/ DropBlock \/ Overflow \/ Pack

PackSpec == PackInit /\ [][PackNext]_packVars /\ WF_packVars(PackNext)

-----------------------------------------------------------------------------
(* What may be sent of a conversation: all of it, or what follows a user   *)
(* message, this one included; never a tool result without its call.       *)
Admissible(conv) == {conv} \cup {SubSeq(conv, i, Len(conv)) : i \in Users(conv)}

Longest(suffixes) == CHOOSE s \in suffixes : \A t \in suffixes : Len(t) <= Len(s)

Shortest(suffixes) == CHOOSE s \in suffixes : \A t \in suffixes : Len(s) <= Len(t)

(* What is sent is the most that fits: the longest admissible part of the  *)
(* conversation next to every block; failing that the latest exchange next *)
(* to as many blocks as fit (agent/context.py:254-296, 314-335).           *)
SendsTheMostThatFits ==
    packing = "sent" =>
        LET all  == Conversation[history]
            good == {s \in Admissible(all) : TotalCost(s, offered) <= budget}
            last == Shortest(Admissible(all))
        IN  /\ TotalCost(packed, blocks) <= budget
            /\ IF good # {} THEN packed = Longest(good) /\ blocks = offered
               ELSE /\ packed = last
                    /\ \A n \in (Len(blocks) + 1)..Len(offered) :
                          TotalCost(last, SubSeq(offered, 1, n)) > budget

(* A request is refused only when it must be: the latest exchange alone    *)
(* does not fit next to the policy (agent/context.py:256-261, 290-294).    *)
OverflowIsReal ==
    packing = "overflow" => TotalCost(Shortest(Admissible(Conversation[history])), <<>>) > budget

(* The budget decides, and nothing else: as much of a conversation goes    *)
(* out as fits, and a refusal means that nothing does (agent/context.py).  *)
PacksTheMost ==
    /\ SendsTheMostThatFits
    /\ OverflowIsReal

(* build returns or raises, for every conversation                         *)
(* (agent/context.py:284-294).                                             *)
PackingEnds == <>(packing \in {"sent", "no room for the policy", "overflow"})
=============================================================================
