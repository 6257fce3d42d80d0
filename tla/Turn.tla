---------------------------------- MODULE Turn ----------------------------------
(***************************************************************************)
(* internal/ai/orchestrator.go: the turns of one persona.  Process and     *)
(* ForceReply decide under o.mu, ask the model without it, and take it     *)
(* again to publish; Stop, SetPersona and the goroutines that extract      *)
(* memories come in between.  The batcher calls one of the two at a time   *)
(* (Batcher).  Who gets a turn is AIChain's subject: here any batch may    *)
(* start one that must reply or one that need not.                         *)
(*                                                                         *)
(* A reply is a word and the way it calls on everybody; what the model     *)
(* says may also be blank, the signal for silence in brackets, or without. *)
(***************************************************************************)
EXTENDS Integers, Sequences, FiniteSetsExt

CONSTANTS Words,          \* short replies
          Names, Models,  \* what the user may call the persona and run it with
          FallbackModels, \* the models tried after the persona's own, in order
          Installed,      \* the models the server has
          Lookback,       \* own messages isDuplicate looks at, 5
          AtAllCooldown,  \* aiAtAllCooldown, 10 minutes
          MaxTime,        \* bound: the clock stops there
          MaxTurns,       \* bound: turns that ask the model
          MaxEdits        \* bound: changes of the persona

ASSUME TurnAssumption ==
    /\ FallbackModels \in Seq(Models) /\ Installed \subseteq Models
    /\ {Lookback, AtAllCooldown, MaxTime, MaxTurns, MaxEdits} \subseteq Nat

VARIABLES
    persona,   \* name and model
    stopped,
    heard,     \* somebody else's message is in the history
    own,       \* the persona's replies in the history, oldest first
    lastAtAll, \* when a reply last called @all, Never before the first
    turn,      \* the turn that runs
    thinking,  \* the indicator other users see
    learners,  \* per reply of Process, the goroutine that extracts memories
    learned,   \* the replies whose extraction stored a memory
    now, turns, edits

vars == <<persona, stopped, heard, own, lastAtAll, turn, thinking, learners,
          learned, now, turns, edits>>

Never == -1

\* "hey", "hey @all", "hey @aLL", "hey everyone".
Calls == {"none", "@all", "@aLL", "everyone"}
Texts == [word : Words, call : Calls]

NoText == [word |-> "", call |-> "none"]
Fallback == [word |-> "Sounds good!", call |-> "none"]
Signal == [word |-> "SILENCE", call |-> "none"]
Bracketed == [word |-> "[SILENCE]", call |-> "none"]

\* What the model may say.
Raws == Texts \cup {NoText, Signal, Bracketed}

NoTurn == [pc |-> "none", must |-> FALSE, forced |-> FALSE, name |-> "",
           model |-> "", used |-> "", text |-> NoText]

Init ==
    /\ persona \in [name : Names, model : Models]
    /\ stopped = FALSE /\ heard = FALSE /\ own = << >>
    /\ lastAtAll = Never
    /\ turn = NoTurn /\ thinking = FALSE
    /\ learners = << >> /\ learned = {}
    /\ now = 0 /\ turns = 0 /\ edits = 0

-----------------------------------------------------------------------------
(* Texts.                                                                  *)

\* cleanReply: brackets around the signal are always taken for silence, the
\* bare signal only when nobody addressed the persona.
Clean(raw, must) ==
    IF raw = Bracketed \/ (raw = Signal /\ ~ must) THEN NoText ELSE raw

\* isDuplicate compares in lower case; a text is alike one it contains, and
\* "hey @all" and "hey everyone" share half of their words, which is not enough.
Alike(a, b) ==
    /\ a.word = b.word
    /\ \/ a.call = b.call \/ "none" \in {a.call, b.call}
       \/ {a.call, b.call} = {"@all", "@aLL"}

\* The last Lookback replies made under a name.
Recent(name) ==
    {i \in DOMAIN own :
        own[i].name = name
        /\ Cardinality({j \in i + 1 .. Len(own) : own[j].name = name}) < Lookback}

IsDuplicate(text, name) == \E i \in Recent(name) : Alike(text, own[i].text)

\* Mutant: the cooldown ends one unit of time early.
CoolingStrict == lastAtAll # Never /\ now - lastAtAll < AtAllCooldown - 1

Cooling == lastAtAll # Never /\ now - lastAtAll < AtAllCooldown

\* rewriteAtAllLocked: three spellings are replaced, others pass.
RewriteAtAll(text) ==
    IF text.call = "@all" /\ Cooling THEN [text EXCEPT !.call = "everyone"] ELSE text

-----------------------------------------------------------------------------
(* A turn.                                                                 *)

\* The models tried after the persona's, by their places in the list.
Tried(model) == {i \in DOMAIN FallbackModels : FallbackModels[i] # model}

\* The model that answers, "" when the server has none of them.
Answering(model) ==
    LET Has == {i \in Tried(model) : FallbackModels[i] \in Installed} IN
    IF model \in Installed THEN model
    ELSE IF Has = {} THEN "" ELSE FallbackModels[Min(Has)]

Begin(must, forced) ==
    /\ turn' = [NoTurn EXCEPT !.pc = "starting", !.must = must, !.forced = forced,
                              !.name = persona.name, !.model = persona.model]
    /\ turns' = turns + 1

\* Process: others' messages enter the history; the last one may start a turn.
Process(respond, must) ==
    /\ turn = NoTurn /\ ~ stopped
    /\ heard' = TRUE
    /\ IF respond THEN turns < MaxTurns /\ Begin(must, FALSE)
                  ELSE UNCHANGED <<turn, turns>>
    /\ UNCHANGED <<persona, stopped, own, lastAtAll, thinking, learners, learned,
                   now, edits>>

\* ForceReply needs a message of another name, were it an own one from before
\* a change of name.
ForceReply ==
    /\ turn = NoTurn /\ ~ stopped /\ turns < MaxTurns
    /\ heard \/ \E i \in DOMAIN own : own[i].name # persona.name
    /\ Begin(TRUE, TRUE)
    /\ UNCHANGED <<persona, stopped, heard, own, lastAtAll, thinking, learners,
                   learned, now, edits>>

\* thinkingCb(true), after the lock was given back.
Show ==
    /\ turn.pc = "starting"
    /\ turn' = [turn EXCEPT !.pc = "asking"]
    /\ thinking' = TRUE
    /\ UNCHANGED <<persona, stopped, heard, own, lastAtAll, learners, learned, now,
                   turns, edits>>

\* The first half of generate: a fallback that answers becomes the persona's
\* model.  After Stop the request is cancelled, which is no answer.
Answer(raw) ==
    LET used  == Answering(turn.model)
        reply == IF used = "" THEN NoText ELSE Clean(raw, turn.must) IN
    /\ turn.pc = "asking"
    /\ stopped => raw = NoText
    /\ turn' = [turn EXCEPT !.pc = IF reply = NoText THEN "answered" ELSE "calibrating",
                            !.used = used, !.text = reply]
    /\ persona' = IF raw # NoText /\ used \notin {"", turn.model}
                  THEN [persona EXCEPT !.model = used] ELSE persona
    /\ UNCHANGED <<stopped, heard, own, lastAtAll, thinking, learners, learned, now,
                   turns, edits>>

\* calibrateReply keeps the draft or takes the revised reply; it is cleaned again.
Calibrate(revised) ==
    /\ turn.pc = "calibrating"
    /\ turn' = [turn EXCEPT !.pc = "answered",
                            !.text = Clean(IF revised = NoText THEN @ ELSE revised, turn.must)]
    /\ stopped => revised = NoText
    /\ UNCHANGED <<persona, stopped, heard, own, lastAtAll, thinking, learners,
                   learned, now, turns, edits>>

\* Mutant: no fallback text.
WordingNone == turn.text

\* A turn that must reply has a text of its own when the model gave none.
Wording == IF turn.text = NoText /\ turn.must THEN Fallback ELSE turn.text

\* The turn ends without a reply.
Withdrawn ==
    \/ Wording = NoText \/ stopped
    \/ ~ turn.forced /\ ~ turn.must /\ IsDuplicate(Wording, turn.name)

\* Mutant: the indicator is taken down where the reply is published.
LightsWhenPublished == Withdrawn

\* The deferred thinkingCb(false).
Lights == FALSE

\* The reply goes out and in the history: at its end, or, when the publish
\* failed, at its beginning, without a clock (AIChain).
Finish(published) ==
    LET text  == RewriteAtAll(Wording)
        reply == [name |-> turn.name, text |-> text, at |-> now, must |-> turn.must,
                  out |-> published] IN
    /\ turn.pc = "answered"
    /\ IF Withdrawn THEN UNCHANGED <<own, lastAtAll, learners>>
       ELSE /\ own' = IF published THEN Append(own, reply) ELSE <<reply>> \o own
            /\ lastAtAll' = IF text.call \in {"@all", "@aLL"} /\ ~ Cooling
                            THEN now ELSE lastAtAll
            /\ learners' = IF turn.forced THEN learners
                           ELSE Append(learners, [pc |-> "sleeping", model |-> turn.model])
    /\ turn' = NoTurn
    /\ thinking' = Lights
    /\ UNCHANGED <<persona, stopped, heard, learned, now, turns, edits>>

-----------------------------------------------------------------------------
(* The others.                                                             *)

\* Two seconds after a reply, unless the orchestrator was stopped.
Wake(i) ==
    /\ learners[i].pc = "sleeping"
    /\ learners' = [learners EXCEPT ![i].pc = IF stopped THEN "done" ELSE "asking"]
    /\ UNCHANGED <<persona, stopped, heard, own, lastAtAll, turn, thinking, learned,
                   now, turns, edits>>

\* extractMemories asks the model the turn began with, and stores what is left
\* of the answer.  Stop cancels the request, not an answer that was read.
Extract(i, useful) ==
    /\ learners[i].pc = "asking"
    /\ useful => learners[i].model \in Installed
    /\ learned' = IF useful THEN learned \cup {i} ELSE learned
    /\ learners' = [learners EXCEPT ![i].pc = "done"]
    /\ UNCHANGED <<persona, stopped, heard, own, lastAtAll, turn, thinking, now,
                   turns, edits>>

\* The web page edits the persona.
SetPersona(p) ==
    /\ edits < MaxEdits /\ edits' = edits + 1
    /\ persona' = p
    /\ UNCHANGED <<stopped, heard, own, lastAtAll, turn, thinking, learners, learned,
                   now, turns>>

Stop ==
    /\ ~ stopped /\ stopped' = TRUE
    /\ UNCHANGED <<persona, heard, own, lastAtAll, turn, thinking, learners, learned,
                   now, turns, edits>>

Tick ==
    /\ now < MaxTime /\ now' = now + 1
    /\ UNCHANGED <<persona, stopped, heard, own, lastAtAll, turn, thinking, learners,
                   learned, turns, edits>>

\* The steps of the goroutine of a turn.
TurnStep ==
    \/ Show
    \/ \E raw \in Raws : Answer(raw) \/ Calibrate(raw)
    \/ \E published \in BOOLEAN : Finish(published)

Next ==
    \/ \E respond, must \in BOOLEAN : (must => respond) /\ Process(respond, must)
    \/ ForceReply \/ TurnStep
    \/ \E i \in DOMAIN learners : Wake(i) \/ \E useful \in BOOLEAN : Extract(i, useful)
    \/ \E p \in [name : Names, model : Models] : SetPersona(p)
    \/ Stop \/ Tick

Spec == Init /\ [][Next]_vars

\* Every request to the model server has a timeout (orchestrator.go:33-34): a
\* turn goes on.  Nothing else is fair.
FairSpec == Spec /\ WF_vars(TurnStep)

-----------------------------------------------------------------------------
(* Properties.                                                             *)

\* orchestrator.go:45-60: the indicator is only up while a turn asks the model,
\* and only replies of Process leave a goroutine that extracts memories.
TypeOK ==
    /\ persona \in [name : Names, model : Models]
    /\ \A i \in DOMAIN own : own[i].text \in Texts \cup {Fallback, Signal}
    /\ lastAtAll \in Never .. now
    /\ thinking => turn.pc \notin {"none", "starting"}
    /\ turn.used \in Installed \cup {""}
    /\ Len(learners) <= Len(own) /\ learned \subseteq DOMAIN learners

\* orchestrator.go:947-959: two replies that call "@all" are AtAllCooldown apart,
\* whichever of Process and ForceReply made them, and whether the cooldown began
\* with a reply that could be published.
AtAllSpaced ==
    \A i, j \in DOMAIN own :
        (/\ i # j /\ own[i].at <= own[j].at
         /\ {own[i].text.call, own[j].text.call} = {"@all"})
            => own[j].at - own[i].at >= AtAllCooldown

\* orchestrator.go:272-284: a turn that must reply ends with a reply, unless the
\* orchestrator was stopped: no model, a failed request, a signal for silence
\* from the model or from the calibration, and a duplicate are no way out.
MustAnswered ==
    [][turn.must /\ turn' = NoTurn => stopped \/ Len(own') = Len(own) + 1]_vars

\* orchestrator.go:273-276: the other users' indicator goes off again, however
\* the turn ends.
ThinkingEnds == thinking ~> ~ thinking

\* docs/report_discussion_notes.md:214: repeated content is suppressed: a reply
\* that nobody had to get is not the same as one of the last.  Violated: the
\* text is compared before @all is replaced in it.
NoRepeat ==
    \A i, j \in DOMAIN own :
        i < j /\ j <= i + Lookback /\ own[i].out /\ ~ own[j].must
            => own[i].text # own[j].text

\* orchestrator.go:403-404: "if we were explicitly mentioned by name, ignore
\* silence signals": the signal is not said.  Violated: without its brackets it
\* is taken for the reply.
SignalNeverSaid == \A i \in DOMAIN own : own[i].text # Signal
=============================================================================
