------------------------------- MODULE MCStreams -------------------------------
(***************************************************************************)
(* What keeps arriving: the pieces of a completion (Completion) and the    *)
(* answers to the two timers of the page (Readiness).  They share no       *)
(* state, so each behaviour moves one of them, the subject.                *)
(***************************************************************************)
EXTENDS Completion, Readiness

VARIABLE subject

streamsVars == <<subject, completionVars, readinessVars>>

(* Tags of three characters, texts of up to three fragments, and a short   *)
(* text with two native calls.                                             *)
Chars == {"<", "t", "/", ">", "x"}
Open == <<"<", "t", ">">>
Close == <<"<", "/", ">">>
Good == {<<"x">>}

Fragments == {Open, Close, Open \o <<"x">> \o Close, <<"<">>, <<"t", ">">>, <<"x">>}

Texts == {<<>>} \cup Fragments \cup {f \o g : f, g \in Fragments}
         \cup {f \o g \o h : f, g, h \in Fragments}

Native == {"c1", "c2"}
PiecesOf == [c \in Native |-> IF c = "c1" THEN 3 ELSE 1]

MCReplies == [text : Texts, native : {{}}]
             \cup [text : {<<>>, <<"<">>}, native : {{"c1"}, {"c1", "c2"}}]

CompletionIdle ==
    /\ provider = "ollama" /\ unsent = <<>> /\ native = {}
    /\ partial = [c \in NativeCalls |-> 0] /\ junk = 0 /\ ended = FALSE /\ reported = FALSE
    /\ pump = "reading" /\ queue = <<>> /\ parser = NewParser /\ received = <<>>
    /\ calls = <<>> /\ cancel = FALSE /\ outcome = "open"

StreamsInit ==
    /\ subject \in {"completion", "readiness"}
    /\ IF subject = "completion" THEN CompletionInit ELSE CompletionIdle
    /\ ReadinessInit /\ (subject # "readiness" => serving /\ runtime = "ready")

StreamsNext ==
    /\ UNCHANGED subject
    /\ \/ subject = "completion" /\ CompletionNext /\ UNCHANGED readinessVars
       \/ subject = "readiness" /\ ReadinessNext /\ UNCHANGED completionVars

(* The fairness of each specification, for the behaviours of its subject.  *)
StreamsSpec ==
    /\ StreamsInit /\ [][StreamsNext]_streamsVars
    /\ WF_completionVars(subject = "completion" /\ Take)
    /\ SF_completionVars(subject = "completion" /\ (DoneLine \/ BodyEnds \/ Breaks \/ CancelSeen))
    /\ \A p \in Polls : WF_readinessVars(subject = "readiness" /\ PollStep(p))
    /\ SF_readinessVars(subject = "readiness" /\ \E p \in Polls : Begin(p, "status"))
    /\ WF_readinessVars(subject = "readiness" /\ Age)

(* CompletionEnds of the behaviours of a completion: the attempt comes to  *)
(* an end, whatever the server does (providers/base.py, openai_compat.py). *)
ACompletionEnds == subject = "completion" => CompletionEnds

(* BadgeSettles of the behaviours of the two timers: once the service      *)
(* stays as it is, the badge comes to say so and keeps saying it           *)
(* (app.js:251-277).                                                       *)
TimersBadgeSettles == subject = "readiness" => BadgeSettles

(* A completion ends, and the badge comes to rest.                         *)
StreamsSettle ==
    /\ ACompletionEnds
    /\ TimersBadgeSettles

(* The components have their types.                                        *)
StreamsTypeOK ==
    /\ CompletionTypeOK
    /\ ReadinessTypeOK
=============================================================================
