------------------------------- MODULE Completion -------------------------------
(***************************************************************************)
(* One attempt at a completion: the server's stream of lines, read by a    *)
(* provider (agent/providers/ollama_chat.py or openai_compat.py) on a      *)
(* thread that pumps its events into a queue, and the coroutine that takes *)
(* them from there, feeds the parser and shows the text (_one_completion   *)
(* and _stream of agent/runtime.py).  Ctrl+C sets the token both look at.  *)
(***************************************************************************)
EXTENDS Codec

CONSTANTS
    Replies,    \* what a model may have to say: text, and native calls
    NativeCalls,\* the native calls
    Pieces,     \* Pieces[c]: the fragments the OpenAI format splits c into
    MaxJunk,    \* MAX_MALFORMED_FRAMES
    MaxLag      \* bound: events in the queue

ASSUME CompletionAssumption ==
    /\ Replies \subseteq [text : Seq(Char), native : SUBSET NativeCalls]
    /\ IsFiniteSet(NativeCalls)
    /\ Pieces \in [NativeCalls -> Nat \ {0}]
    /\ MaxJunk \in Nat /\ MaxLag \in Nat \ {0}

VARIABLES
    provider,   \* the format of the server
    unsent,     \* the text the model has yet to say
    native,     \* the native calls it makes
    partial,    \* the fragments of each that have arrived
    junk,       \* malformed
    ended,      \* history: the marker of the end has been read
    reported,   \* history: the server has reported an error
    pump,       \* the thread of the provider
    queue,      \* the queue to the event loop
    parser,     \* the ToolCallStreamParser
    received,   \* history: the text fed to it
    calls,      \* native_calls
    cancel,     \* the cancel token of the turn and the request
    outcome     \* of the attempt

completionVars == <<provider, unsent, native, partial, junk, ended, reported, pump, queue,
                    parser, received, calls, cancel, outcome>>

serverVars == <<unsent, native, partial, junk, ended, reported>>
loopVars == <<parser, received, calls, outcome>>

Call == [of : NativeCalls, whole : BOOLEAN]

Event == [is : {"text"}, text : Seq(Char)] \cup [is : {"call"}, call : Call]
         \cup [is : {"error", "raised", "done", "sentinel"}]

CompletionTypeOK ==
    /\ provider \in {"ollama", "openai"}
    /\ unsent \in Seq(Char)
    /\ native \subseteq NativeCalls
    /\ partial \in [NativeCalls -> Nat]
    /\ \A c \in NativeCalls : partial[c] <= Pieces[c]
    /\ junk \in 0..MaxJunk
    /\ ended \in BOOLEAN /\ reported \in BOOLEAN /\ cancel \in BOOLEAN
    /\ pump \in {"reading", "stopped"}
    /\ queue \in Seq(Event)
    /\ parser \in Parser
    /\ received \in Seq(Char)
    /\ calls \in Seq(Call)
    /\ outcome \in {"open", "returned", "failed"}

CompletionInit ==
    /\ provider \in {"ollama", "openai"}
    /\ \E reply \in Replies : unsent = reply.text /\ native = reply.native
    /\ partial = [c \in NativeCalls |-> 0]
    /\ junk = 0
    /\ ended = FALSE
    /\ reported = FALSE
    /\ pump = "reading"
    /\ queue = <<>>
    /\ parser = NewParser
    /\ received = <<>>
    /\ calls = <<>>
    /\ cancel = FALSE
    /\ outcome = "open"

-----------------------------------------------------------------------------
(* The pump: one line of the server at a time.                             *)

Puts(events) == queue' = queue \o events

Stops(events) == pump' = "stopped" /\ Puts(Append(events, [is |-> "sentinel"]))

Reading == pump = "reading" /\ Len(queue) < MaxLag

(* A line is handled unless the token is set by then.                      *)
Reads == Reading /\ ~cancel

TextLine ==
    /\ Reads
    /\ \E n \in 1..Len(unsent) :
          /\ Puts(<<[is |-> "text", text |-> SubSeq(unsent, 1, n)]>>)
          /\ unsent' = From(unsent, n + 1)
    /\ UNCHANGED <<provider, native, partial, junk, ended, reported, pump, cancel, loopVars>>

(* Ollama sends a call as a whole.                                         *)
CallLine(c) ==
    /\ Reads /\ provider = "ollama"
    /\ c \in native /\ partial[c] = 0
    /\ partial' = [partial EXCEPT ![c] = Pieces[c]]
    /\ Puts(<<[is |-> "call", call |-> [of |-> c, whole |-> TRUE]]>>)
    /\ UNCHANGED <<provider, unsent, native, junk, ended, reported, pump, cancel, loopVars>>

(* The OpenAI format sends it in fragments, the name first.                *)
FragmentLine(c) ==
    /\ Reads /\ provider = "openai"
    /\ c \in native /\ partial[c] < Pieces[c]
    /\ partial' = [partial EXCEPT ![c] = @ + 1]
    /\ UNCHANGED <<provider, unsent, native, junk, ended, reported, pump, queue, cancel, loopVars>>

(* Mutant of JunkLine: one line more is skipped.                           *)
JunkLineOffByOne ==
    /\ Reads /\ provider = "ollama"
    /\ IF junk <= MaxJunk
       THEN junk' = junk + 1 /\ UNCHANGED <<pump, queue>>
       ELSE Stops(<<[is |-> "raised"]>>) /\ UNCHANGED junk
    /\ UNCHANGED <<provider, unsent, native, partial, ended, reported, cancel, loopVars>>

(* A line that is no JSON; Ollama's are counted, the others are skipped.   *)
JunkLine ==
    /\ Reads /\ provider = "ollama"
    /\ IF junk < MaxJunk
       THEN junk' = junk + 1 /\ UNCHANGED <<pump, queue>>
       ELSE Stops(<<[is |-> "raised"]>>) /\ UNCHANGED junk
    /\ UNCHANGED <<provider, unsent, native, partial, ended, reported, cancel, loopVars>>

(* JSON, but no object: counted too, and the count is not looked at.  Past *)
(* MaxJunk it makes no difference.                                         *)
OtherLine ==
    /\ Reads /\ provider = "ollama"
    /\ junk < MaxJunk
    /\ junk' = junk + 1
    /\ UNCHANGED <<provider, unsent, native, partial, ended, reported, pump, queue, cancel, loopVars>>

ErrorLine ==
    /\ Reads
    /\ ~reported
    /\ reported' = TRUE
    /\ Puts(<<[is |-> "error"]>>)
    /\ UNCHANGED <<provider, unsent, native, partial, junk, ended, pump, cancel, loopVars>>

(* What _finish_calls makes of the fragments: a call whose arguments do    *)
(* not parse is dropped, and one without any has none.                     *)
Usable(c) == partial[c] \in {1, Pieces[c]}

Finished ==
    LET usable == SetToSeq({c \in NativeCalls : Usable(c)}) IN
    [i \in DOMAIN usable |->
        [is |-> "call", call |-> [of |-> usable[i], whole |-> partial[usable[i]] = Pieces[usable[i]]]]]

(* The marker of the end: the model is done, or has said all it may.       *)
DoneLine ==
    /\ Reads
    /\ ended' = TRUE
    /\ Stops((IF provider = "openai" THEN Finished ELSE <<>>) \o <<[is |-> "done"]>>)
    /\ UNCHANGED <<provider, unsent, native, partial, junk, reported, cancel, loopVars>>

(* The body ends without it.                                               *)
BodyEnds ==
    /\ Reading
    /\ Stops((IF provider = "openai" THEN Finished
              ELSE IF cancel THEN <<>> ELSE <<[is |-> "error"]>>) \o <<[is |-> "done"]>>)
    /\ UNCHANGED <<provider, serverVars, cancel, loopVars>>

(* The connection breaks or is silent for too long.                        *)
Breaks ==
    /\ Reading
    /\ Stops(<<[is |-> "raised"]>>)
    /\ UNCHANGED <<provider, serverVars, cancel, loopVars>>

(* The next line comes with the token set.                                 *)
CancelSeen ==
    /\ Reading
    /\ cancel
    /\ Stops(<<>>)
    /\ UNCHANGED <<provider, serverVars, cancel, loopVars>>

-----------------------------------------------------------------------------
(* The coroutine.                                                          *)

HandsOn(p, cs, to) ==
    /\ parser' = IF to = "returned" THEN Finish(p) ELSE p
    /\ calls' = cs
    /\ outcome' = to

(* An event is handled first; then the token is looked at.                 *)
Handled == IF cancel THEN "returned" ELSE "open"

Take ==
    /\ outcome = "open"
    /\ queue # <<>>
    /\ queue' = Tail(queue)
    /\ LET event == Head(queue) IN
          /\ CASE event.is = "text"     -> HandsOn(Feed(parser, event.text), calls, Handled)
               [] event.is = "call"     -> HandsOn(parser, Append(calls, event.call), Handled)
               [] event.is = "done"     -> HandsOn(parser, calls, Handled)
               [] event.is = "sentinel" -> HandsOn(parser, calls, "returned")
               [] event.is \in {"error", "raised"} -> HandsOn(parser, calls, "failed")
          /\ received' = IF event.is = "text" THEN received \o event.text ELSE received
    /\ UNCHANGED <<provider, serverVars, pump, cancel>>

CtrlC ==
    /\ ~cancel
    /\ outcome = "open"
    /\ cancel' = TRUE
    /\ UNCHANGED <<provider, serverVars, pump, queue, loopVars>>

Line == \/ TextLine \/ JunkLine \/ OtherLine \/ ErrorLine
        \/ \E c \in NativeCalls : CallLine(c) \/ FragmentLine(c)

CompletionNext == Line \/ DoneLine \/ BodyEnds \/ Breaks \/ CancelSeen \/ Take \/ CtrlC

CompletionSpec == CompletionInit /\ [][CompletionNext]_completionVars

(* The server's stream ends, in one way or another: the client's timeout   *)
(* breaks a silent one, and the model may not go on for ever.              *)
FairCompletionSpec ==
    /\ CompletionSpec
    /\ WF_completionVars(Take)
    /\ SF_completionVars(DoneLine \/ BodyEnds \/ Breaks \/ CancelSeen)

-----------------------------------------------------------------------------
(* The pieces a text arrives in make no difference: at any time the calls  *)
(* are those parse_tool_calls finds in what has arrived, what is shown is  *)
(* the text outside of them, and at most the beginning of a tag is kept    *)
(* back.                                                                   *)
StreamAgreesWithWhole ==
    outcome # "failed" =>
        /\ parser.calls = WholeCalls(received)
        /\ parser.inCall = (Whole[received].unclosed /\ outcome = "open")
        /\ IF parser.inCall THEN parser.text = Whole[received].text
           ELSE parser.text \o parser.buf = Whole[received].text
        /\ ~parser.inCall => Len(parser.buf) < Len(OpenTag)

(* What is returned as an answer is one: nobody reported an error, and of  *)
(* Ollama's the marker of the end has been seen ("rather than presenting a *)
(* partial answer as complete", ollama_chat.py).                           *)
ReturnedIsComplete ==
    outcome = "returned" /\ ~cancel => ~reported /\ (provider = "ollama" => ended)

(* An answer is read as the model gave it: its pieces as the whole text,   *)
(* and the end of it only where it ends (agent/codec.py,                   *)
(* agent/providers/).                                                      *)
AnswersAreWhole ==
    /\ StreamAgreesWithWhole
    /\ ReturnedIsComplete

(* Whatever the server does, and also after Ctrl+C, the attempt comes to   *)
(* an end.                                                                 *)
CompletionEnds == outcome = "open" ~> outcome # "open"

=============================================================================
