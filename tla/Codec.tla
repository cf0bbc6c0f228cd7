--------------------------------- MODULE Codec ---------------------------------
(***************************************************************************)
(* How a model that has no native tools asks for one: the two parsers of   *)
(* agent/codec.py, that of a completion arriving in pieces                 *)
(* (ToolCallStreamParser) and that of a whole text (parse_tool_calls).     *)
(* Text is a sequence of characters; what a payload has to be to decode is *)
(* a set of payloads.                                                      *)
(***************************************************************************)
EXTENDS Integers, Sequences, FiniteSetsExt, SequencesExt

CONSTANTS
    Char,       \* the characters
    OpenTag,    \* <tool_call>
    CloseTag,   \* </tool_call>
    Decodable,  \* the payloads _decode_payload makes a call of
    MaxCalls    \* MAX_CALLS_PER_MESSAGE

(* No tag overlaps itself: its first character comes once.                 *)
ASSUME CodecAssumption ==
    /\ OpenTag \in Seq(Char) /\ CloseTag \in Seq(Char) /\ Decodable \subseteq Seq(Char)
    /\ \A tag \in {OpenTag, CloseTag} :
          tag # <<>> /\ \A i \in 2..Len(tag) : tag[i] # tag[1]
    /\ MaxCalls \in Nat

-----------------------------------------------------------------------------
Upto(s, i) == SubSeq(s, 1, i - 1)
From(s, i) == SubSeq(s, i, Len(s))

(* Where the tag stands in s, as str.find looks for it.                    *)
Places(s, tag) == {i \in 1..Len(s) : IsPrefix(tag, From(s, i))}

Has(s, tag) == Places(s, tag) # {}
Before(s, tag) == Upto(s, Min(Places(s, tag)))
After(s, tag) == From(s, Min(Places(s, tag)) + Len(tag))

(* A parser between two deltas.  Of the text, what has been appended is    *)
(* what has been shown; of the errors only their number is kept.           *)
Parser == [buf : Seq(Char), inCall : BOOLEAN, text : Seq(Char),
           calls : Seq(Decodable), errors : Nat]

NewParser == [buf |-> <<>>, inCall |-> FALSE, text |-> <<>>, calls |-> <<>>, errors |-> 0]

Accept(p, payload) ==
    IF payload \in Decodable /\ Len(p.calls) < MaxCalls
    THEN [p EXCEPT !.calls = Append(@, payload)]
    ELSE [p EXCEPT !.errors = @ + 1]

(* Mutant of Held: only a whole tag is kept back.                          *)
HeldNothing(buf) == 0

(* _partial_open_suffix                                                    *)
Held(buf) ==
    Max({n \in 0..Len(OpenTag) - 1 :
           n <= Len(buf) /\ IsPrefix(From(buf, Len(buf) - n + 1), OpenTag)})

(* The loop of feed.                                                       *)
Digest[p \in Parser] ==
    CASE p.inCall /\ Has(p.buf, CloseTag) ->
           Digest[[Accept(p, Before(p.buf, CloseTag)) EXCEPT
                     !.buf = After(p.buf, CloseTag), !.inCall = FALSE]]
      [] ~p.inCall /\ Has(p.buf, OpenTag) ->
           Digest[[p EXCEPT !.text = @ \o Before(p.buf, OpenTag),
                            !.buf = After(p.buf, OpenTag), !.inCall = TRUE]]
      [] ~p.inCall /\ ~Has(p.buf, OpenTag) ->
           LET end == Len(p.buf) - Held(p.buf) + 1 IN
           [p EXCEPT !.text = @ \o Upto(p.buf, end), !.buf = From(p.buf, end)]
      [] OTHER -> p

Feed(p, delta) == Digest[[p EXCEPT !.buf = @ \o delta]]

(* What is left in the buffer is text, or a call that was cut short.       *)
Finish(p) ==
    IF p.inCall
    THEN [p EXCEPT !.errors = @ + 1, !.buf = <<>>, !.inCall = FALSE]
    ELSE [p EXCEPT !.text = @ \o p.buf, !.buf = <<>>]

-----------------------------------------------------------------------------
(* The whole text.  The expression that finds the calls takes the first    *)
(* opening tag and the first closing one after it, over and over; what it  *)
(* does not match is text, with an opening tag that is never closed, which *)
(* is told apart here.                                                     *)
Whole[s \in Seq(Char)] ==
    IF ~Has(s, OpenTag)
    THEN [text |-> s, payloads |-> <<>>, unclosed |-> FALSE]
    ELSE IF ~Has(After(s, OpenTag), CloseTag)
    THEN [text |-> Before(s, OpenTag), payloads |-> <<>>, unclosed |-> TRUE]
    ELSE LET inside == After(s, OpenTag)
             rest == Whole[After(inside, CloseTag)]
         IN [text     |-> Before(s, OpenTag) \o rest.text,
             payloads |-> <<Before(inside, CloseTag)>> \o rest.payloads,
             unclosed |-> rest.unclosed]

(* The loop of parse_tool_calls over what was found: a payload that        *)
(* decodes is a call, up to the limit.                                     *)
Accepted[payloads \in Seq(Seq(Char))] ==
    IF payloads = <<>> THEN <<>>
    ELSE LET calls == Accepted[Front(payloads)] IN
         IF Last(payloads) \in Decodable /\ Len(calls) < MaxCalls
         THEN Append(calls, Last(payloads)) ELSE calls

WholeCalls(s) == Accepted[Whole[s].payloads]
=============================================================================
