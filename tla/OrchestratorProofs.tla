------------------------------- MODULE OrchestratorProofs -------------------------------
(***************************************************************************)
(* internal/ai/orchestrator.go, for all values of the constants.  One      *)
(* persona's turns (Turn): replies that call on everybody keep their       *)
(* distance, and whoever must reply does.  Several personas (AIChain):     *)
(* their exchanges end and no human is muted by them.                      *)
(***************************************************************************)
EXTENDS Turn, AIChain, WellFoundedInduction, FiniteSetTheorems, SequenceTheorems,
        TLAPS

\* What a turn may hold or a reply say.
Saying ==
    [word : Words \cup {"", "SILENCE", "[SILENCE]", "Sounds good!"}, call : Calls]

ReplyRecord ==
    [name : Names \cup {""}, text : Saying, at : Nat, must : BOOLEAN, out : BOOLEAN]

CallsAll(reply) == reply.text.call = "@all"

\* AtAllSpaced of any replies.
Spaced(s) ==
    \A i, j \in DOMAIN s :
        i # j /\ s[i].at <= s[j].at /\ CallsAll(s[i]) /\ CallsAll(s[j])
            => s[j].at - s[i].at >= AtAllCooldown

\* The cooldown began with the last reply that called on everybody, or later.
Covered(s, last) ==
    \A i \in DOMAIN s : CallsAll(s[i]) => s[i].at <= last

Clock ==
    /\ now \in Nat
    /\ lastAtAll \in Nat \cup {Never} /\ lastAtAll <= now

\* The models a turn and a persona name are whatever they are.
Shape ==
    /\ persona \in [name : Names, model : {persona.model}]
    /\ turn \in [pc : {"none", "starting", "asking", "calibrating", "answered"},
                 must : BOOLEAN, forced : BOOLEAN, name : Names \cup {""},
                 model : {turn.model}, used : {turn.used}, text : Saying]

Inv ==
    /\ Clock /\ Shape
    /\ own \in Seq(ReplyRecord)
    /\ Covered(own, lastAtAll) /\ Spaced(own)

-----------------------------------------------------------------------------
(* Texts.                                                                  *)

\* orchestrator.go:395-420, 504-518: everything that can be said is a text.
LEMMA TextsAreSayings ==
    /\ Raws \subseteq Saying
    /\ {NoText, Fallback, Signal, Bracketed} \subseteq Saying
    /\ Fallback # NoText
<1>1. {NoText, Fallback, Signal, Bracketed} \subseteq Saying
  <2>1. NoText \in Saying
    BY DEF Saying, NoText, Calls
  <2>2. Fallback \in Saying
    BY DEF Saying, Fallback, Calls
  <2>3. Signal \in Saying
    BY DEF Saying, Signal, Calls
  <2>4. Bracketed \in Saying
    BY DEF Saying, Bracketed, Calls
  <2>. QED BY <2>1, <2>2, <2>3, <2>4
<1>3. Fallback # NoText
  <2>1. Fallback.word = "Sounds good!" /\ NoText.word = ""
    BY DEF Fallback, NoText
  <2>. QED BY <2>1
<1>2. Texts \subseteq Saying
  BY DEF Texts, Saying
<1>. QED BY <1>1, <1>2, <1>3 DEF Raws

\* orchestrator.go:395-420: a cleaned text is the text or nothing.
LEMMA CleanIsSaying ==
    ASSUME NEW raw \in Saying, NEW must PROVE Clean(raw, must) \in Saying
BY TextsAreSayings DEF Clean

\* orchestrator.go:278-284, 947-959: what goes out calls on everybody only when
\* the cooldown is over.
LEMMA WordingIsSaying ==
    ASSUME Inv
    PROVE  /\ Wording \in Saying
           /\ RewriteAtAll(Wording) \in Saying
           /\ RewriteAtAll(Wording).call = "@all" => ~ Cooling
<1>1. Wording \in Saying
  BY TextsAreSayings DEF Inv, Shape, Wording
<1>2. /\ [Wording EXCEPT !.call = "everyone"] \in Saying
      /\ [Wording EXCEPT !.call = "everyone"].call = "everyone"
  BY <1>1 DEF Saying, Calls
<1>. QED BY <1>1, <1>2 DEF RewriteAtAll

-----------------------------------------------------------------------------
(* Replies.                                                                *)

\* orchestrator.go:302-316: wherever a reply goes in the history, it keeps its
\* distance when the cooldown is over.
LEMMA ReplyKeeps ==
    ASSUME Inv, NEW r \in ReplyRecord, r.at = now,
           CallsAll(r) => ~ Cooling,
           NEW last \in Nat \cup {Never}, lastAtAll <= last, CallsAll(r) => last = now,
           NEW s \in {Append(own, r), <<r>> \o own}
    PROVE  s \in Seq(ReplyRecord) /\ Covered(s, last) /\ Spaced(s) /\ Len(s) = Len(own) + 1
<1>. DEFINE n == Len(own)
            new == IF s = Append(own, r) THEN n + 1 ELSE 1
            old(i) == IF s = Append(own, r) THEN i ELSE i - 1
<1>1. own \in Seq(ReplyRecord) /\ n \in Nat /\ DOMAIN own = 1 .. n
  BY DEF Inv
<1>2. /\ s \in Seq(ReplyRecord) /\ Len(s) = n + 1 /\ DOMAIN s = 1 .. n + 1
      /\ s[new] = r
      /\ \A i \in 1 .. n + 1 : i # new => old(i) \in 1 .. n /\ s[i] = own[old(i)]
      /\ \A i, j \in 1 .. n + 1 : i # j => old(i) # old(j)
  <2>1. CASE s = Append(own, r)
    BY <1>1, <2>1
  <2>2. CASE s # Append(own, r)
    <3>1. s = <<r>> \o own /\ <<r>> \in Seq(ReplyRecord) /\ Len(<<r>>) = 1 /\ <<r>>[1] = r
      BY <2>2
    <3>2. /\ s \in Seq(ReplyRecord) /\ Len(s) = 1 + n
          /\ \A i \in 1 .. 1 + n : s[i] = IF i <= 1 THEN <<r>>[i] ELSE own[i - 1]
      BY <1>1, <3>1
    <3>3. new = 1 /\ \A i : old(i) = i - 1
      BY <2>2
    <3>. HIDE DEF new, old, n
    <3>4. DOMAIN s = 1 .. n + 1 /\ s[1] = r
      BY <1>1, <3>1, <3>2
    <3>5. \A i \in 1 .. n + 1 : i # 1 => i - 1 \in 1 .. n /\ s[i] = own[i - 1]
      BY <1>1, <3>2
    <3>. QED BY <1>1, <3>2, <3>3, <3>4, <3>5
  <2>. QED BY <2>1, <2>2
<1>. HIDE DEF new, old, n
<1>3. \A i \in 1 .. n : /\ own[i] \in ReplyRecord /\ own[i].at \in Nat
                        /\ CallsAll(own[i]) => own[i].at <= lastAtAll
  <2>. SUFFICES ASSUME NEW i \in 1 .. n
                PROVE  /\ own[i] \in ReplyRecord /\ own[i].at \in Nat
                       /\ CallsAll(own[i]) => own[i].at <= lastAtAll
    OBVIOUS
  <2>1. own[i] \in ReplyRecord /\ i \in DOMAIN own
    BY <1>1
  <2>2. own[i].at \in Nat
    BY <2>1 DEF ReplyRecord
  <2>. QED BY <2>1, <2>2 DEF Inv, Covered
<1>4. /\ now \in Nat /\ lastAtAll \in Int /\ last \in Int /\ AtAllCooldown \in Nat
      /\ lastAtAll <= now
  BY TurnAssumption DEF Inv, Clock, Never
<1>5. Covered(s, last)
  BY <1>2, <1>3, <1>4 DEF Covered
<1>6. CallsAll(r) => \A i \in 1 .. n : CallsAll(own[i]) => now - own[i].at >= AtAllCooldown
  BY <1>3, <1>4 DEF Cooling, Never
<1>7. Spaced(s)
  <2>. SUFFICES ASSUME NEW i \in 1 .. n + 1, NEW j \in 1 .. n + 1, i # j,
                       s[i].at <= s[j].at, CallsAll(s[i]), CallsAll(s[j])
                PROVE  s[j].at - s[i].at >= AtAllCooldown
    BY <1>2 DEF Spaced
  <2>1. CASE i # new /\ j # new
    BY <1>1, <1>2, <2>1 DEF Inv, Spaced
  <2>2. CASE j = new
    BY <1>2, <1>6, <2>2
  <2>3. CASE i = new
    <3>1. j # new /\ s[i] = r /\ s[j] = own[old(j)] /\ old(j) \in 1 .. n
      BY <1>2, <2>3
    <3>2. now - s[j].at >= AtAllCooldown /\ s[j].at \in Nat /\ now <= s[j].at
      BY <1>3, <1>6, <3>1
    <3>. QED BY <1>4, <3>1, <3>2
  <2>. QED BY <2>1, <2>2, <2>3
<1>. QED BY <1>2, <1>5, <1>7 DEF n

\* orchestrator.go:290-328: a turn that ends keeps the invariant.
LEMMA FinishKeeps ==
    ASSUME Inv, NEW published \in BOOLEAN, Finish(published)
    PROVE  /\ Inv'
           /\ Withdrawn \/ Len(own') = Len(own) + 1
<1>. DEFINE text == RewriteAtAll(Wording)
            r == [name |-> turn.name, text |-> text, at |-> now, must |-> turn.must,
                  out |-> published]
<1>1. turn' = NoTurn /\ UNCHANGED <<persona, now>>
  BY DEF Finish
<1>2. Shape'
  <2>1. NoTurn \in [pc : {"none", "starting", "asking", "calibrating", "answered"},
                    must : BOOLEAN, forced : BOOLEAN, name : Names \cup {""},
                    model : {""}, used : {""}, text : Saying]
    BY TextsAreSayings DEF NoTurn
  <2>2. NoTurn.model = "" /\ NoTurn.used = ""
    BY DEF NoTurn
  <2>. QED BY <1>1, <2>1, <2>2 DEF Inv, Shape
<1>3. CASE Withdrawn
  BY <1>1, <1>2, <1>3 DEF Finish, Inv, Clock
<1>4. CASE ~ Withdrawn
  <2>1. /\ own' = IF published THEN Append(own, r) ELSE <<r>> \o own
        /\ lastAtAll' = IF text.call \in {"@all", "@aLL"} /\ ~ Cooling THEN now ELSE lastAtAll
    BY <1>4 DEF Finish
  <2>2. text \in Saying /\ (text.call = "@all" => ~ Cooling)
    BY WordingIsSaying
  <2>. HIDE DEF text
  <2>3. r \in ReplyRecord /\ r.at = now /\ (CallsAll(r) => text.call = "@all")
    BY <2>2 DEF ReplyRecord, CallsAll, Inv, Clock, Shape
  <2>. HIDE DEF r
  <2>4. /\ lastAtAll' \in Nat \cup {Never} /\ lastAtAll <= lastAtAll' /\ lastAtAll' <= now
        /\ CallsAll(r) => lastAtAll' = now
    BY <2>1, <2>2, <2>3 DEF Inv, Clock, Never
  <2>5. own' \in {Append(own, r), <<r>> \o own}
    BY <2>1
  <2>6. /\ own' \in Seq(ReplyRecord) /\ Covered(own', lastAtAll') /\ Spaced(own')
        /\ Len(own') = Len(own) + 1
    BY <2>2, <2>3, <2>4, <2>5, ReplyKeeps
  <2>7. Clock'
    BY <1>1, <2>4 DEF Inv, Clock
  <2>. QED BY <1>2, <2>6, <2>7 DEF Inv, Covered, Spaced
<1>. QED BY <1>3, <1>4

-----------------------------------------------------------------------------
(* The other steps.                                                        *)

\* orchestrator.go:123-256: a turn begins.
LEMMA BeginKeeps ==
    ASSUME Inv, NEW must \in BOOLEAN, NEW forced \in BOOLEAN, Begin(must, forced),
           UNCHANGED <<persona, own, lastAtAll, now>>
    PROVE  Inv' /\ turn'.pc = "starting"
<1>. DEFINE t == [NoTurn EXCEPT !.pc = "starting", !.must = must, !.forced = forced,
                                !.name = persona.name, !.model = persona.model]
<1>1. turn' = t /\ persona.name \in Names
  BY DEF Begin, Inv, Shape
<1>2. /\ t \in [pc : {"none", "starting", "asking", "calibrating", "answered"},
                must : BOOLEAN, forced : BOOLEAN, name : Names \cup {""},
                model : {persona.model}, used : {""}, text : Saying]
      /\ t.model = persona.model /\ t.used = "" /\ t.pc = "starting"
  BY <1>1, TextsAreSayings DEF NoTurn
<1>. HIDE DEF t
<1>. QED BY <1>1, <1>2 DEF Inv, Clock, Shape, Covered, Spaced

\* orchestrator.go:273-393: the model is asked.
LEMMA AskKeeps ==
    ASSUME Inv, Show \/ \E raw \in Raws : Answer(raw) \/ Calibrate(raw)
    PROVE  Inv' /\ turn'.pc # "none"
<1>. DEFINE Like(pc, used, text) == [turn EXCEPT !.pc = pc, !.used = used, !.text = text]
<1>1. ASSUME NEW pc \in {"asking", "calibrating", "answered"}, NEW used, NEW text \in Saying,
             turn' = Like(pc, used, text)
      PROVE  /\ turn' \in [pc : {"none", "starting", "asking", "calibrating", "answered"},
                           must : BOOLEAN, forced : BOOLEAN, name : Names \cup {""},
                           model : {turn'.model}, used : {turn'.used}, text : Saying]
             /\ turn'.pc = pc
  BY <1>1 DEF Inv, Shape
<1>2. CASE Show
  <2>1. turn' = [turn EXCEPT !.pc = "asking"] /\ UNCHANGED <<persona, own, lastAtAll, now>>
    BY <1>2 DEF Show
  <2>2. Shape' /\ turn'.pc = "asking"
    BY <2>1 DEF Inv, Shape
  <2>. QED BY <2>1, <2>2 DEF Inv, Clock, Covered, Spaced
<1>3. ASSUME NEW raw \in Raws, Answer(raw) PROVE Inv' /\ turn'.pc # "none"
  <2>. DEFINE used  == Answering(turn.model)
              reply == IF used = "" THEN NoText ELSE Clean(raw, turn.must)
              pc == IF reply = NoText THEN "answered" ELSE "calibrating"
  <2>1. turn' = Like(pc, used, reply) /\ UNCHANGED <<own, lastAtAll, now>>
    BY <1>3 DEF Answer
  <2>2. reply \in Saying
    BY TextsAreSayings, CleanIsSaying
  <2>3. persona' \in [name : Names, model : {persona'.model}]
    <3>1. persona' = persona \/ persona' = [persona EXCEPT !.model = used]
      BY <1>3 DEF Answer
    <3>. HIDE DEF used
    <3>. QED BY <3>1 DEF Inv, Shape
  <2>. HIDE DEF used, reply
  <2>4. Shape' /\ turn'.pc # "none"
    BY <1>1, <2>1, <2>2, <2>3 DEF Shape
  <2>. QED BY <2>1, <2>4 DEF Inv, Clock, Covered, Spaced
<1>4. ASSUME NEW raw \in Raws, Calibrate(raw) PROVE Inv' /\ turn'.pc # "none"
  <2>. DEFINE text == Clean(IF raw = NoText THEN turn.text ELSE raw, turn.must)
  <2>1. turn' = [turn EXCEPT !.pc = "answered", !.text = text]
        /\ UNCHANGED <<persona, own, lastAtAll, now>>
    BY <1>4 DEF Calibrate
  <2>2. text \in Saying
    BY TextsAreSayings, CleanIsSaying DEF Inv, Shape
  <2>. HIDE DEF text
  <2>3. Shape' /\ turn'.pc = "answered"
    BY <2>1, <2>2 DEF Inv, Shape
  <2>. QED BY <2>1, <2>3 DEF Inv, Clock, Covered, Spaced
<1>. QED BY <1>2, <1>3, <1>4

\* orchestrator.go: every step keeps the invariant, and a turn that had to reply
\* ends in a reply.
LEMMA NextInv ==
    ASSUME Inv, [Next]_vars
    PROVE  /\ Inv'
           /\ turn.must /\ turn' = NoTurn => stopped \/ Len(own') = Len(own) + 1
<1>1. NoTurn.pc = "none" /\ ~ NoTurn.must
  BY DEF NoTurn
<1>2. ASSUME NEW respond \in BOOLEAN, NEW must \in BOOLEAN, Process(respond, must)
      PROVE  Inv' /\ ~ turn.must
  <2>1. ~ turn.must /\ UNCHANGED <<persona, own, lastAtAll, now>>
    BY <1>1, <1>2 DEF Process
  <2>2. Begin(must, FALSE) \/ UNCHANGED turn
    BY <1>2 DEF Process
  <2>. QED BY <2>1, <2>2, BeginKeeps DEF Inv, Clock, Shape, Covered, Spaced
<1>3. CASE ForceReply
  <2>1. ~ turn.must /\ UNCHANGED <<persona, own, lastAtAll, now>> /\ Begin(TRUE, TRUE)
    BY <1>1, <1>3 DEF ForceReply
  <2>. QED BY <2>1, BeginKeeps
<1>4. CASE Show \/ \E raw \in Raws : Answer(raw) \/ Calibrate(raw)
  BY <1>1, <1>4, AskKeeps
<1>5. ASSUME NEW published \in BOOLEAN, Finish(published)
      PROVE  /\ Inv'
             /\ turn.must => stopped \/ Len(own') = Len(own) + 1
  <2>1. turn.must /\ Withdrawn => stopped
    BY TextsAreSayings DEF Withdrawn, Wording
  <2>. QED BY <1>5, <2>1, FinishKeeps
<1>6. ASSUME UNCHANGED <<turn, own, lastAtAll>>,
             now' = now \/ now' = now + 1,
             persona' = persona \/ persona' \in [name : Names, model : Models]
      PROVE  Inv' /\ (turn' = NoTurn => ~ turn.must)
  <2>1. Clock' /\ (turn' = NoTurn => ~ turn.must)
    BY <1>1, <1>6 DEF Inv, Clock, Never
  <2>2. persona' \in [name : Names, model : {persona'.model}]
    BY <1>6 DEF Inv, Shape
  <2>. QED BY <1>6, <2>1, <2>2 DEF Inv, Shape, Covered, Spaced
<1>7. ASSUME NEW i \in DOMAIN learners, Wake(i) \/ \E useful \in BOOLEAN : Extract(i, useful)
      PROVE  Inv' /\ (turn' = NoTurn => ~ turn.must)
  BY <1>6, <1>7 DEF Wake, Extract
<1>8. ASSUME NEW p \in [name : Names, model : Models], SetPersona(p)
      PROVE  Inv' /\ (turn' = NoTurn => ~ turn.must)
  BY <1>6, <1>8 DEF SetPersona
<1>9. CASE Stop \/ Tick \/ UNCHANGED vars
  BY <1>6, <1>9 DEF Stop, Tick, vars
<1>. QED BY <1>2, <1>3, <1>4, <1>5, <1>7, <1>8, <1>9 DEF Next, TurnStep

\* orchestrator.go:45-75: an orchestrator that was just made.
LEMMA InitInv == Init => Inv
<1>. SUFFICES ASSUME Init PROVE Inv
  OBVIOUS
<1>1. /\ persona \in [name : Names, model : Models] /\ own = << >> /\ lastAtAll = Never
      /\ turn = NoTurn /\ now = 0
  BY DEF Init
<1>2. Clock
  BY <1>1 DEF Clock, Never
<1>3. turn \in [pc : {"none", "starting", "asking", "calibrating", "answered"},
                 must : BOOLEAN, forced : BOOLEAN, name : Names \cup {""},
                 model : {turn.model}, used : {turn.used}, text : Saying]
  BY <1>1, TextsAreSayings DEF NoTurn
<1>4. persona \in [name : Names, model : {persona.model}]
  BY <1>1
<1>5. own \in Seq(ReplyRecord) /\ DOMAIN own = {}
  BY <1>1
<1>6. Covered(own, lastAtAll) /\ Spaced(own)
  BY <1>5 DEF Covered, Spaced
<1>. QED BY <1>2, <1>3, <1>4, <1>5, <1>6 DEF Inv, Shape

\* orchestrator.go: the invariant always holds.
LEMMA SpecInv == Spec => []Inv
<1>. QED BY InitInv, NextInv, PTL DEF Spec

\* orchestrator.go:947-959: for every cooldown, every set of words and any number of
\* turns, two replies that call "@all" are a cooldown apart.
THEOREM CallsKeepDistance == Spec => []AtAllSpaced
<1>1. Inv => AtAllSpaced
  BY DEF Inv, Spaced, CallsAll, AtAllSpaced
<1>. QED BY <1>1, SpecInv, PTL

\* orchestrator.go:272-284: for every list of models, installed or not, a turn that
\* must reply ends with a reply or a stopped orchestrator.
THEOREM MustIsAnswered == Spec => MustAnswered
<1>1. Inv /\ [Next]_vars
        => [turn.must /\ turn' = NoTurn => stopped \/ Len(own') = Len(own) + 1]_vars
  BY NextInv
<1>. QED BY <1>1, SpecInv, PTL DEF Spec, MustAnswered
-----------------------------------------------------------------------------
(* What is said, shown and learned.                                        *)

Learner == [pc : {"sleeping", "asking", "done"}, model : Models \cup {""}]

\* A turn or a reply says what the model said, cleaned; a goroutine learns from
\* each reply that Process made.
TypedInv ==
    /\ persona \in [name : Names, model : Models]
    /\ turn.model \in Models \cup {""} /\ turn.used \in Installed \cup {""}
    /\ turn.text \in Texts \cup {NoText, Signal}
    /\ \A i \in DOMAIN own : own[i].text \in Texts \cup {Fallback, Signal}
    /\ thinking => turn.pc \notin {"none", "starting"}
    /\ learners \in Seq(Learner) /\ Len(learners) <= Len(own)
    /\ learned \subseteq DOMAIN learners

\* A nonempty set of numbers has a least element.
LEMMA Least ==
    ASSUME NEW T \in SUBSET Nat, T # {}
    PROVE  \E n \in T : \A u \in T : ~ (u < n)
<1>1. PICK n \in T : \A u \in T : ~ (<<u, n>> \in OpToRel(<, Nat))
  BY WFMin, NatLessThanWellFounded
<1>. QED BY <1>1 DEF OpToRel

\* The least of a set of places is one of them.
LEMMA FirstOf ==
    ASSUME NEW T \in SUBSET Nat, T # {} PROVE Min(T) \in T
<1>1. PICK n \in T : \A u \in T : ~ (u < n)
  BY Least
<1>2. n \in Nat /\ T \subseteq Nat
  OBVIOUS
<1>3. \A u \in T : n <= u
  BY <1>1, <1>2
<1>. QED BY <1>3 DEF Min

\* orchestrator.go:337-349: only a model the server has gives an answer.
LEMMA AnsweringInstalled ==
    ASSUME NEW model PROVE Answering(model) \in Installed \cup {""}
<1>. DEFINE Has == {i \in Tried(model) : FallbackModels[i] \in Installed}
<1>1. Has \in SUBSET Nat
  BY TurnAssumption DEF Tried
<1>2. Has # {} => Min(Has) \in Has
  BY <1>1, FirstOf
<1>3. Has # {} => FallbackModels[Min(Has)] \in Installed
  BY <1>2
<1>. QED BY <1>3 DEF Answering

\* orchestrator.go:395-420: the signal in brackets never gets through.
LEMMA CleanedOf ==
    ASSUME NEW raw \in Raws, NEW must
    PROVE  Clean(raw, must) \in Texts \cup {NoText, Signal}
BY DEF Clean, Raws

\* orchestrator.go:278-284, 947-959: what goes out is a text, the fallback or the
\* signal.
LEMMA ReplyText ==
    ASSUME TypedInv, ~ Withdrawn
    PROVE  RewriteAtAll(Wording) \in Texts \cup {Fallback, Signal}
<1>1. Wording # NoText /\ Wording \in Texts \cup {Fallback, Signal}
  BY DEF Withdrawn, Wording, TypedInv
<1>2. CASE Wording.call = "@all"
  <2>1. Fallback.call = "none" /\ Signal.call = "none"
    BY DEF Fallback, Signal
  <2>2. Wording \in Texts
    BY <1>1, <1>2, <2>1
  <2>3. [Wording EXCEPT !.call = "everyone"] \in Texts
    BY <2>2 DEF Texts, Calls
  <2>. QED BY <1>1, <2>3 DEF RewriteAtAll
<1>3. CASE Wording.call # "@all"
  BY <1>1, <1>3 DEF RewriteAtAll
<1>. QED BY <1>2, <1>3

\* orchestrator.go: every step keeps the types.
LEMMA NextTyped ==
    ASSUME Inv, TypedInv, [Next]_vars PROVE TypedInv'
<1>1. /\ own \in Seq(ReplyRecord) /\ learners \in Seq(Learner)
      /\ DOMAIN turn = {"pc", "must", "forced", "name", "model", "used", "text"}
      /\ persona.name \in Names /\ persona.model \in Models
  BY DEF Inv, Shape, TypedInv
<1>2. /\ NoTurn.pc = "none" /\ NoTurn.model = "" /\ NoTurn.used = ""
      /\ NoTurn.text = NoText
  BY DEF NoTurn
<1>3. ASSUME NEW must \in BOOLEAN, NEW forced \in BOOLEAN, Begin(must, forced),
             turn = NoTurn, UNCHANGED <<persona, own, thinking, learners, learned>>
      PROVE  TypedInv'
  <2>1. turn' = [NoTurn EXCEPT !.pc = "starting", !.must = must, !.forced = forced,
                               !.name = persona.name, !.model = persona.model]
    BY <1>3 DEF Begin
  <2>2. turn'.model = persona.model /\ turn'.used = "" /\ turn'.text = NoText
    BY <2>1 DEF NoTurn
  <2>3. ~ thinking
    BY <1>2, <1>3 DEF TypedInv
  <2>. QED BY <1>1, <1>3, <2>2, <2>3 DEF TypedInv
<1>4. ASSUME NEW respond \in BOOLEAN, NEW must \in BOOLEAN, Process(respond, must)
      PROVE  TypedInv'
  <2>1. Begin(must, FALSE) \/ UNCHANGED turn
    BY <1>4 DEF Process
  <2>2. turn = NoTurn /\ UNCHANGED <<persona, own, thinking, learners, learned>>
    BY <1>4 DEF Process
  <2>. QED BY <1>3, <2>1, <2>2 DEF TypedInv
<1>5. CASE ForceReply
  BY <1>3, <1>5 DEF ForceReply
<1>6. CASE Show
  <2>1. turn' = [turn EXCEPT !.pc = "asking"]
    BY <1>6 DEF Show
  <2>2. /\ turn'.pc = "asking" /\ turn'.model = turn.model /\ turn'.used = turn.used
        /\ turn'.text = turn.text
    BY <1>1, <2>1
  <2>3. UNCHANGED <<persona, own, learners, learned>>
    BY <1>6 DEF Show
  <2>. QED BY <2>2, <2>3 DEF TypedInv
<1>7. ASSUME NEW raw \in Raws, Answer(raw) PROVE TypedInv'
  <2>. DEFINE used  == Answering(turn.model)
              reply == IF used = "" THEN NoText ELSE Clean(raw, turn.must)
              pc == IF reply = NoText THEN "answered" ELSE "calibrating"
  <2>1. /\ turn' = [turn EXCEPT !.pc = pc, !.used = used, !.text = reply]
        /\ UNCHANGED <<own, thinking, learners, learned>>
        /\ turn.pc = "asking"
    BY <1>7 DEF Answer
  <2>2. used \in Installed \cup {""} /\ reply \in Texts \cup {NoText, Signal}
    BY AnsweringInstalled, CleanedOf
  <2>3. persona' \in [name : Names, model : Models]
    <3>1. persona' = IF raw # NoText /\ used \notin {"", turn.model}
                     THEN [persona EXCEPT !.model = used] ELSE persona
      BY <1>7 DEF Answer
    <3>. HIDE DEF used
    <3>2. used # "" => used \in Models
      BY <2>2, TurnAssumption
    <3>. QED BY <3>1, <3>2 DEF TypedInv
  <2>4. pc \in {"answered", "calibrating"}
    OBVIOUS
  <2>. HIDE DEF used, reply, pc
  <2>5. turn'.pc = pc /\ turn'.model = turn.model /\ turn'.used = used /\ turn'.text = reply
    BY <1>1, <2>1
  <2>. QED BY <2>1, <2>2, <2>3, <2>4, <2>5 DEF TypedInv
<1>8. ASSUME NEW raw \in Raws, Calibrate(raw) PROVE TypedInv'
  <2>. DEFINE kept == IF raw = NoText THEN turn.text ELSE raw
              text == Clean(kept, turn.must)
  <2>1. /\ turn' = [turn EXCEPT !.pc = "answered", !.text = text]
        /\ UNCHANGED <<persona, own, thinking, learners, learned>>
    BY <1>8 DEF Calibrate
  <2>2. kept \in Raws
    BY DEF TypedInv, Raws
  <2>. HIDE DEF kept
  <2>3. text \in Texts \cup {NoText, Signal}
    BY <2>2, CleanedOf
  <2>. HIDE DEF text
  <2>4. /\ turn'.pc = "answered" /\ turn'.model = turn.model
        /\ turn'.used = turn.used /\ turn'.text = text
    BY <1>1, <2>1
  <2>. QED BY <2>1, <2>3, <2>4 DEF TypedInv
<1>9. ASSUME NEW published \in BOOLEAN, Finish(published) PROVE TypedInv'
  <2>. DEFINE text == RewriteAtAll(Wording)
              r == [name |-> turn.name, text |-> text, at |-> now,
                    must |-> turn.must, out |-> published]
              l == [pc |-> "sleeping", model |-> turn.model]
  <2>1. turn' = NoTurn /\ thinking' = FALSE /\ UNCHANGED <<persona, learned>>
    BY <1>9 DEF Finish, Lights
  <2>2. CASE Withdrawn
    <3>1. UNCHANGED <<own, learners>>
      BY <1>9, <2>2 DEF Finish
    <3>. QED BY <1>2, <2>1, <3>1 DEF TypedInv
  <2>3. CASE ~ Withdrawn
    <3>1. own' = IF published THEN Append(own, r) ELSE <<r>> \o own
      BY <1>9, <2>3 DEF Finish
    <3>2. learners' \in {learners, Append(learners, l)}
      BY <1>9, <2>3 DEF Finish
    <3>3. r.text \in Texts \cup {Fallback, Signal}
      BY <2>3, ReplyText
    <3>4. l \in Learner
      BY DEF Learner, TypedInv
    <3>5. Len(own') = Len(own) + 1
      BY <1>9, <2>3, FinishKeeps
    <3>. HIDE DEF r, l
    <3>6. ASSUME NEW i \in DOMAIN own'
          PROVE  own'[i].text \in Texts \cup {Fallback, Signal}
      <4>1. CASE published
        <5>1. own'[i] = IF i = Len(own) + 1 THEN r ELSE own[i]
          BY <1>1, <3>1, <4>1
        <5>2. i = Len(own) + 1 \/ i \in DOMAIN own
          BY <1>1, <3>1, <4>1
        <5>. QED BY <3>3, <5>1, <5>2 DEF TypedInv
      <4>2. CASE ~ published
        <5>1. i = 1 \/ i - 1 \in DOMAIN own
          BY <1>1, <3>1, <4>2
        <5>2. own'[i] = IF i = 1 THEN r ELSE own[i - 1]
          BY <1>1, <3>1, <4>2
        <5>. QED BY <3>3, <5>1, <5>2 DEF TypedInv
      <4>. QED BY <4>1, <4>2
    <3>7. /\ learners' \in Seq(Learner) /\ DOMAIN learners \subseteq DOMAIN learners'
          /\ Len(learners') \in {Len(learners), Len(learners) + 1}
          /\ Len(learners) \in Nat /\ Len(own) \in Nat
      <4>1. learners \in Seq(Learner) /\ Len(learners) \in Nat /\ Len(own) \in Nat
        BY <1>1
      <4>2. CASE learners' = learners
        BY <4>1, <4>2
      <4>3. CASE learners' = Append(learners, l)
        <5>1. learners' \in Seq(Learner) /\ Len(learners') = Len(learners) + 1
          BY <3>4, <4>1, <4>3
        <5>. QED BY <4>1, <5>1
      <4>. QED BY <3>2, <4>2, <4>3
    <3>8. Len(learners') <= Len(own')
      <4>1. Len(learners) <= Len(own)
        BY DEF TypedInv
      <4>. QED BY <3>5, <3>7, <4>1
    <3>9. learned' \subseteq DOMAIN learners'
      BY <2>1, <3>7 DEF TypedInv
    <3>. QED BY <1>2, <2>1, <3>6, <3>7, <3>8, <3>9 DEF TypedInv
  <2>. QED BY <2>2, <2>3
<1>10. ASSUME NEW i \in DOMAIN learners,
              NEW pc \in {"sleeping", "asking", "done"},
              learners' = [learners EXCEPT ![i].pc = pc],
              learned' \in {learned, learned \cup {i}},
              UNCHANGED <<persona, turn, own, thinking>>
       PROVE  TypedInv'
  <2>. DEFINE l == [learners[i] EXCEPT !.pc = pc]
  <2>1. l \in Learner
    <3>1. \A m \in Learner : [m EXCEPT !.pc = pc] \in Learner
      BY DEF Learner
    <3>2. learners[i] \in Learner
      BY <1>1
    <3>. QED BY <3>1, <3>2
  <2>2. learners' = [learners EXCEPT ![i] = l]
    BY <1>10
  <2>. HIDE DEF l
  <2>3. /\ learners' \in Seq(Learner) /\ DOMAIN learners' = DOMAIN learners
        /\ Len(learners') = Len(learners)
    BY <1>1, <2>1, <2>2
  <2>. QED BY <1>10, <2>3 DEF TypedInv
<1>11. ASSUME NEW i \in DOMAIN learners, Wake(i) \/ \E useful \in BOOLEAN : Extract(i, useful)
       PROVE  TypedInv'
  <2>1. CASE Wake(i)
    BY <1>10, <2>1 DEF Wake
  <2>2. ASSUME NEW useful \in BOOLEAN, Extract(i, useful) PROVE TypedInv'
    BY <1>10, <2>2 DEF Extract
  <2>. QED BY <1>11, <2>1, <2>2
<1>12. ASSUME NEW p \in [name : Names, model : Models], SetPersona(p) PROVE TypedInv'
  BY <1>12 DEF SetPersona, TypedInv
<1>13. CASE Stop \/ Tick \/ UNCHANGED vars
  <2>1. UNCHANGED <<persona, own, turn, thinking, learners, learned>>
    BY <1>13 DEF Stop, Tick, vars
  <2>. QED BY <2>1 DEF TypedInv
<1>. QED BY <1>4, <1>5, <1>6, <1>7, <1>8, <1>9, <1>11, <1>12, <1>13 DEF Next, TurnStep

\* orchestrator.go:45-60: TypeOK: the indicator, the models that answer, and the
\* goroutines that learn, for any models and any number of turns.
THEOREM TypeCorrect == Spec => []TypeOK
<1>1. Init => TypedInv
  <2>. SUFFICES ASSUME Init PROVE TypedInv
    OBVIOUS
  <2>1. /\ turn.pc = "none" /\ turn.model = "" /\ turn.used = "" /\ turn.text = NoText
    BY DEF Init, NoTurn
  <2>2. own = << >> /\ learners = << >> /\ learned = {} /\ thinking = FALSE
        /\ persona \in [name : Names, model : Models]
    BY DEF Init
  <2>3. DOMAIN own = {} /\ learners \in Seq(Learner) /\ Len(learners) <= Len(own)
    BY <2>2
  <2>. QED BY <2>1, <2>2, <2>3 DEF TypedInv
<1>2. Inv /\ TypedInv => TypeOK
  <2>. SUFFICES ASSUME Inv, TypedInv PROVE TypeOK
    OBVIOUS
  <2>1. lastAtAll \in Never .. now
    BY DEF Inv, Clock, Never
  <2>. QED BY <2>1 DEF TypedInv, TypeOK
<1>. QED BY <1>1, <1>2, InitInv, NextInv, NextTyped, PTL DEF Spec

-----------------------------------------------------------------------------
(* What is said twice, and what is never said.                             *)

\* A reply that repeats one of the last under its name, and need not be made, only
\* looks like it: it was compared as a call on everybody.
Rewritten(s) ==
    \A i, j \in DOMAIN s :
        (/\ i < j /\ j <= i + Lookback /\ s[i].out /\ ~ s[j].must
         /\ s[i].name = s[j].name /\ s[i].text = s[j].text)
            => s[j].text.call = "everyone"

\* Only replies that had to be made say the signal.
SignalsAddressed(s) == \A i \in DOMAIN s : s[i].text = Signal => s[i].must

SaidInv ==
    /\ turn.forced => turn.must
    /\ turn.text = Signal => turn.must
    /\ SignalsAddressed(own) /\ Rewritten(own)

\* orchestrator.go:961-974: of the last Lookback messages, those under the name
\* are among the ones a new reply is compared with.
LEMMA RecentOf ==
    ASSUME Inv, NEW i \in DOMAIN own, Len(own) + 1 <= i + Lookback
    PROVE  i \in Recent(own[i].name)
<1>. DEFINE J == {j \in i + 1 .. Len(own) : own[j].name = own[i].name}
<1>1. Len(own) \in Nat /\ i \in 1 .. Len(own) /\ Lookback \in Nat
  BY TurnAssumption DEF Inv
<1>2. IsFiniteSet(i + 1 .. Len(own)) /\ Cardinality(i + 1 .. Len(own)) <= Len(own) - i
  <2>1. i + 1 \in Int /\ Len(own) \in Int
    BY <1>1
  <2>2. /\ IsFiniteSet(i + 1 .. Len(own))
        /\ Cardinality(i + 1 .. Len(own)) = IF i + 1 > Len(own) THEN 0 ELSE Len(own) - (i + 1) + 1
    BY <2>1, FS_Interval
  <2>. QED BY <1>1, <2>2
<1>3. /\ Cardinality(J) <= Cardinality(i + 1 .. Len(own))
      /\ Cardinality(J) \in Nat /\ Cardinality(i + 1 .. Len(own)) \in Nat
  <2>1. J \subseteq i + 1 .. Len(own)
    OBVIOUS
  <2>. HIDE DEF J
  <2>. QED BY <1>2, <2>1, FS_Subset, FS_CardinalityType
<1>. HIDE DEF J
<1>4. Cardinality(J) < Lookback
  BY <1>1, <1>2, <1>3
<1>. QED BY <1>4 DEF Recent, J

\* orchestrator.go:290-307, 403-404: the reply that goes out repeats nothing unless
\* its @all was replaced, or it had to be made; nor does it say the signal.
LEMMA ReplySays ==
    ASSUME Inv, SaidInv, ~ Withdrawn, NEW text, text = RewriteAtAll(Wording)
    PROVE  /\ text = Signal => turn.must
           /\ \A i \in DOMAIN own :
                 (/\ Len(own) + 1 <= i + Lookback /\ ~ turn.must
                  /\ own[i].name = turn.name /\ own[i].text = text)
                     => text.call = "everyone"
<1>1. text = Wording \/ text.call = "everyone"
  BY WordingIsSaying DEF RewriteAtAll, Saying
<1>2. text = Signal => turn.must
  <2>1. Signal.call = "none" /\ Fallback # Signal
    BY DEF Signal, Fallback
  <2>. QED BY <1>1, <2>1 DEF Wording, SaidInv
<1>3. ASSUME NEW i \in DOMAIN own, Len(own) + 1 <= i + Lookback, ~ turn.must,
             own[i].name = turn.name, own[i].text = text, text = Wording
      PROVE  FALSE
  <2>1. ~ IsDuplicate(Wording, turn.name)
    BY <1>3 DEF Withdrawn, SaidInv
  <2>2. i \in Recent(turn.name)
    BY <1>3, RecentOf
  <2>3. Alike(Wording, own[i].text)
    BY <1>3 DEF Alike
  <2>. QED BY <2>1, <2>2, <2>3 DEF IsDuplicate
<1>. QED BY <1>1, <1>2, <1>3

\* orchestrator.go:290-328: a turn that ends keeps what was said in order.
LEMMA FinishSays ==
    ASSUME Inv, SaidInv, NEW published \in BOOLEAN, Finish(published)
    PROVE  SaidInv'
<1>. DEFINE text == RewriteAtAll(Wording)
            r == [name |-> turn.name, text |-> text, at |-> now, must |-> turn.must,
                  out |-> published]
            n == Len(own)
<1>1. turn' = NoTurn /\ ~ turn'.forced /\ turn'.text # Signal
  BY DEF Finish, NoTurn, NoText, Signal
<1>2. CASE Withdrawn
  BY <1>1, <1>2 DEF Finish, SaidInv
<1>3. CASE ~ Withdrawn
  <2>1. own' = IF published THEN Append(own, r) ELSE <<r>> \o own
    BY <1>3 DEF Finish
  <2>2. /\ r.text = Signal => r.must
        /\ \A i \in DOMAIN own :
              (/\ n + 1 <= i + Lookback /\ ~ r.must
               /\ own[i].name = r.name /\ own[i].text = r.text)
                  => r.text.call = "everyone"
    BY <1>3, ReplySays
  <2>3. r.out = published
    OBVIOUS
  <2>4. own \in Seq(ReplyRecord) /\ n \in Nat /\ DOMAIN own = 1 .. n /\ Lookback \in Nat
    BY TurnAssumption DEF Inv
  <2>5. Len(own') = n + 1 /\ own' \in Seq(ReplyRecord)
    BY <1>3, FinishKeeps DEF Inv
  <2>6. DOMAIN own' = 1 .. n + 1
    BY <2>5
  <2>. HIDE DEF text, r, n
  <2>7. CASE published
    <3>1. \A i \in 1 .. n + 1 : own'[i] = IF i = n + 1 THEN r ELSE own[i]
      BY <2>1, <2>4, <2>7 DEF n
    <3>2. \A i \in 1 .. n + 1 : i = n + 1 \/ i \in 1 .. n
      BY <2>4
    <3>3. SignalsAddressed(own')
      BY <2>2, <2>4, <2>6, <3>1, <3>2 DEF SaidInv, SignalsAddressed
    <3>4. ASSUME NEW i \in 1 .. n + 1, NEW j \in 1 .. n + 1,
                 i < j, j <= i + Lookback, own'[i].out, ~ own'[j].must,
                 own'[i].name = own'[j].name, own'[i].text = own'[j].text
          PROVE  own'[j].text.call = "everyone"
      <4>1. i \in 1 .. n /\ own'[i] = own[i]
        BY <2>4, <3>1, <3>4
      <4>2. CASE j = n + 1
        BY <2>2, <2>4, <3>1, <3>4, <4>1, <4>2
      <4>3. CASE j # n + 1
        <5>1. j \in 1 .. n /\ own'[j] = own[j]
          BY <3>1, <3>2, <4>3
        <5>. QED BY <2>4, <3>4, <4>1, <5>1 DEF SaidInv, Rewritten
      <4>. QED BY <4>2, <4>3
    <3>. QED BY <1>1, <2>6, <3>3, <3>4 DEF SaidInv, Rewritten
  <2>8. CASE ~ published
    <3>1. \A i \in 1 .. n + 1 : own'[i] = IF i = 1 THEN r ELSE own[i - 1]
      BY <2>1, <2>4, <2>8 DEF n
    <3>2. \A i \in 1 .. n + 1 : i = 1 \/ i - 1 \in 1 .. n
      BY <2>4
    <3>3. SignalsAddressed(own')
      BY <2>2, <2>4, <2>6, <3>1, <3>2 DEF SaidInv, SignalsAddressed
    <3>4. ASSUME NEW i \in 1 .. n + 1, NEW j \in 1 .. n + 1,
                 i < j, j <= i + Lookback, own'[i].out, ~ own'[j].must,
                 own'[i].name = own'[j].name, own'[i].text = own'[j].text
          PROVE  own'[j].text.call = "everyone"
      <4>1. i # 1
        BY <2>3, <2>8, <3>1, <3>4
      <4>2. j # 1
        BY <2>4, <3>4, <4>1
      <4>3. /\ i - 1 \in 1 .. n /\ j - 1 \in 1 .. n
            /\ own'[i] = own[i - 1] /\ own'[j] = own[j - 1]
        BY <3>1, <3>2, <4>1, <4>2
      <4>4. i - 1 < j - 1 /\ j - 1 <= (i - 1) + Lookback
        BY <2>4, <3>4
      <4>. QED BY <2>4, <3>4, <4>3, <4>4 DEF SaidInv, Rewritten
    <3>. QED BY <1>1, <2>6, <3>3, <3>4 DEF SaidInv, Rewritten
  <2>. QED BY <2>7, <2>8
<1>. QED BY <1>2, <1>3

\* orchestrator.go: every step keeps what was said in order.
LEMMA NextSays ==
    ASSUME Inv, SaidInv, [Next]_vars PROVE SaidInv'
<1>1. DOMAIN turn = {"pc", "must", "forced", "name", "model", "used", "text"}
  BY DEF Inv, Shape
<1>2. NoText # Signal /\ NoTurn.text = NoText
  BY DEF NoTurn, NoText, Signal
<1>3. ASSUME NEW must \in BOOLEAN, NEW forced \in BOOLEAN, Begin(must, forced),
             forced => must, UNCHANGED own
      PROVE  SaidInv'
  <2>1. turn' = [NoTurn EXCEPT !.pc = "starting", !.must = must, !.forced = forced,
                               !.name = persona.name, !.model = persona.model]
    BY <1>3 DEF Begin
  <2>2. turn'.forced = forced /\ turn'.must = must /\ turn'.text = NoText
    BY <2>1 DEF NoTurn
  <2>. QED BY <1>2, <1>3, <2>2 DEF SaidInv
<1>4. ASSUME NEW respond \in BOOLEAN, NEW must \in BOOLEAN, Process(respond, must)
      PROVE  SaidInv'
  <2>1. (Begin(must, FALSE) \/ UNCHANGED turn) /\ UNCHANGED own
    BY <1>4 DEF Process
  <2>. QED BY <1>3, <2>1 DEF SaidInv
<1>5. CASE ForceReply
  BY <1>3, <1>5 DEF ForceReply
<1>6. ASSUME NEW pc, NEW used, NEW text, text = Signal => turn.must,
             turn' = [turn EXCEPT !.pc = pc, !.used = used, !.text = text], UNCHANGED own
      PROVE  SaidInv'
  <2>1. turn'.text = text /\ turn'.must = turn.must /\ turn'.forced = turn.forced
    BY <1>1, <1>6
  <2>. QED BY <1>6, <2>1 DEF SaidInv
<1>7. CASE Show
  <2>1. turn' = [turn EXCEPT !.pc = "asking"] /\ UNCHANGED own
    BY <1>7 DEF Show
  <2>2. turn'.text = turn.text /\ turn'.must = turn.must /\ turn'.forced = turn.forced
    BY <1>1, <2>1
  <2>. QED BY <2>1, <2>2 DEF SaidInv
<1>8. ASSUME NEW raw, NEW must, Clean(raw, must) = Signal PROVE must
  BY <1>2, <1>8 DEF Clean
<1>9. ASSUME NEW raw \in Raws, Answer(raw) PROVE SaidInv'
  <2>. DEFINE used  == Answering(turn.model)
              reply == IF used = "" THEN NoText ELSE Clean(raw, turn.must)
              pc == IF reply = NoText THEN "answered" ELSE "calibrating"
  <2>1. /\ turn' = [turn EXCEPT !.pc = pc, !.used = used, !.text = reply]
        /\ UNCHANGED own
    BY <1>9 DEF Answer
  <2>2. reply = Signal => turn.must
    <3>1. ASSUME reply = Signal PROVE turn.must
      <4>1. Clean(raw, turn.must) = Signal
        BY <1>2, <3>1
      <4>. QED BY <1>8, <4>1
    <3>. QED BY <3>1
  <2>. HIDE DEF used, reply, pc
  <2>. QED BY <1>6, <2>1, <2>2
<1>10. ASSUME NEW raw \in Raws, Calibrate(raw) PROVE SaidInv'
  <2>. DEFINE text == Clean(IF raw = NoText THEN turn.text ELSE raw, turn.must)
  <2>1. turn' = [turn EXCEPT !.pc = "answered", !.text = text] /\ UNCHANGED own
    BY <1>10 DEF Calibrate
  <2>2. text = Signal => turn.must
    BY <1>8
  <2>. HIDE DEF text
  <2>3. turn'.text = text /\ turn'.must = turn.must /\ turn'.forced = turn.forced
    BY <1>1, <2>1
  <2>. QED BY <2>1, <2>2, <2>3 DEF SaidInv
<1>11. ASSUME NEW published \in BOOLEAN, Finish(published) PROVE SaidInv'
  BY <1>11, FinishSays
<1>12. ASSUME UNCHANGED <<turn, own>> PROVE SaidInv'
  BY <1>12 DEF SaidInv
<1>13. ASSUME NEW i \in DOMAIN learners, Wake(i) \/ \E useful \in BOOLEAN : Extract(i, useful)
       PROVE  SaidInv'
  BY <1>12, <1>13 DEF Wake, Extract
<1>14. CASE Stop \/ Tick \/ UNCHANGED vars
             \/ \E p \in [name : Names, model : Models] : SetPersona(p)
  BY <1>12, <1>14 DEF Stop, Tick, SetPersona, vars
<1>. QED BY <1>4, <1>5, <1>7, <1>9, <1>10, <1>11, <1>13, <1>14 DEF Next, TurnStep

\* orchestrator.go: what was said is in order in every state.
LEMMA SpecSays == Spec => []SaidInv
<1>1. Init => SaidInv
  <2>. SUFFICES ASSUME Init PROVE SaidInv
    OBVIOUS
  <2>1. ~ turn.forced /\ turn.text # Signal
    BY DEF Init, NoTurn, NoText, Signal
  <2>2. own = << >> /\ DOMAIN own = {}
    BY DEF Init
  <2>. QED BY <2>1, <2>2 DEF SaidInv, SignalsAddressed, Rewritten
<1>. QED BY <1>1, InitInv, NextInv, NextSays, PTL DEF Spec

\* orchestrator.go:290-307: what is left of "repeated content is suppressed": under
\* one name, of any Lookback + 1 messages in a row, a reply nobody had to get is
\* the same as an earlier one that went out only if it calls on everybody in the
\* words that replace @all.
THEOREM RepeatsAreRewritten ==
    Spec => [](\A i, j \in DOMAIN own :
                  (/\ i < j /\ j <= i + Lookback /\ own[i].out /\ ~ own[j].must
                   /\ own[i].name = own[j].name /\ own[i].text = own[j].text)
                      => own[j].text.call = "everyone")
<1>1. SaidInv => \A i, j \in DOMAIN own :
                    (/\ i < j /\ j <= i + Lookback /\ own[i].out /\ ~ own[j].must
                     /\ own[i].name = own[j].name /\ own[i].text = own[j].text)
                        => own[j].text.call = "everyone"
  BY DEF SaidInv, Rewritten
<1>. QED BY <1>1, SpecSays, PTL

\* orchestrator.go:403-417: the signal is said by a persona that was addressed, and
\* by no other, whatever the model and the calibration answer.
THEOREM OnlyTheAddressedSignal ==
    Spec => [](\A i \in DOMAIN own : own[i].text = Signal => own[i].must)
<1>1. SaidInv => \A i \in DOMAIN own : own[i].text = Signal => own[i].must
  BY DEF SaidInv, SignalsAddressed
<1>. QED BY <1>1, SpecSays, PTL

-----------------------------------------------------------------------------
(* The chain of several personas (AIChain).                                *)

\* What AIChain assumes of its constants.
LEMMA ConstantFacts ==
    /\ Peers \subseteq Nat /\ 0 \notin Peers
    /\ HardStop \in Nat \ {0} /\ MaxHistory \in Nat /\ HardStop <= MaxHistory
    /\ HumanKinds \subseteq Kinds /\ AIKinds \subseteq Kinds
BY PeersAssumption, ChainAssumption

\* A nonempty set of positions of a list has a last one.
LEMMA Greatest ==
    ASSUME NEW n \in Nat, NEW I \in SUBSET (1 .. n), I # {}
    PROVE  Max(I) \in I /\ \A i \in I : i <= Max(I)
<1>. DEFINE T == {n - i : i \in I}
<1>1. T \subseteq Nat /\ T # {}
  <2>1. ASSUME NEW i \in I PROVE n - i \in Nat
    OBVIOUS
  <2>2. PICK i \in I : TRUE
    OBVIOUS
  <2>3. n - i \in T
    OBVIOUS
  <2>. QED BY <2>1, <2>3
<1>2. PICK t \in T : \A u \in T : ~ (u < t)
  BY <1>1, Least
<1>3. PICK i \in I : t = n - i
  BY <1>2
<1>4. ASSUME NEW j \in I PROVE i >= j
  <2>1. n - j \in T
    OBVIOUS
  <2>2. ~ (n - j < n - i)
    BY <1>2, <1>3, <2>1
  <2>3. i \in 1 .. n /\ j \in 1 .. n
    OBVIOUS
  <2>. QED BY <2>2, <2>3
<1>5. \E x \in I : \A y \in I : x >= y
  BY <1>4
<1>6. Max(I) \in I /\ \A y \in I : Max(I) >= y
  BY <1>5 DEF Max
<1>. QED BY <1>6

-----------------------------------------------------------------------------
(* One message enters a history.                                           *)

\* The list t is s with m behind position k.
PutBehind(s, m, t, k) ==
    /\ k \in 0 .. Len(s)
    /\ Len(t) = Len(s) + 1
    /\ \A i \in 1 .. k : t[i] = s[i]
    /\ t[k + 1] = m
    /\ \A i \in k + 1 .. Len(s) : t[i + 1] = s[i]

\* orchestrator.go:718-723, 792-812: the sorted history is the old one with one more
\* message, at the end if it is less than nothing in it.
LEMMA InsertionMeaning ==
    ASSUME NEW S, NEW s \in Seq(S), NEW m \in S
    PROVE  /\ Inserted(s, m) \in Seq(S)
           /\ \E k \in 0 .. Len(s) : 
                 /\ PutBehind(s, m, Inserted(s, m), k)
                 /\ (\A j \in 1 .. Len(s) : ~ Less(m, s[j])) => k = Len(s)
<1>. DEFINE n == Len(s)
            I == {i \in 1 .. n : ~ Less(m, s[i])}
            k == IF I # {} THEN Max(I) ELSE 0
            a == SubSeq(s, 1, k)
            b == SubSeq(s, k + 1, n)
<1>1. n \in Nat
  OBVIOUS
<1>2. I # {} => Max(I) \in I /\ \A i \in I : i <= Max(I)
  <2>1. I \in SUBSET (1 .. n)
    OBVIOUS
  <2>. HIDE DEF I
  <2>. QED BY <1>1, <2>1, Greatest
<1>3. k \in 0 .. n
  BY <1>1, <1>2
<1>4. (\A j \in 1 .. n : ~ Less(m, s[j])) => k = n
  <2>. SUFFICES ASSUME \A j \in 1 .. n : ~ Less(m, s[j]) PROVE k = n
    OBVIOUS
  <2>1. I = 1 .. n
    OBVIOUS
  <2>. HIDE DEF I
  <2>2. CASE n = 0
    BY <1>1, <2>1, <2>2
  <2>3. CASE n # 0
    BY <1>1, <1>2, <2>1, <2>3
  <2>. QED BY <2>2, <2>3
<1>5. Inserted(s, m) = InsertAt(s, k + 1, m)
  BY DEF Inserted, SelectLastInSeq
<1>. HIDE DEF k
<1>6. Inserted(s, m) = a \o <<m>> \o b
  <2>1. (k + 1) - 1 = k
    BY <1>3
  <2>. QED BY <1>5, <2>1 DEF InsertAt
<1>7. /\ a \in Seq(S) /\ Len(a) = k
      /\ \A i \in 1 .. k : a[i] = s[i]
  BY <1>3, SubSeqProperties
<1>8. /\ b \in Seq(S) /\ Len(b) = n - k
      /\ \A i \in 1 .. n - k : b[i] = s[k + i]
  BY <1>3, SubSeqProperties
<1>. HIDE DEF a, b
<1>. DEFINE c == a \o <<m>>
<1>9. /\ c \in Seq(S) /\ Len(c) = k + 1
      /\ \A i \in 1 .. k + 1 : c[i] = IF i <= k THEN s[i] ELSE m
  BY <1>3, <1>7, ConcatProperties
<1>. HIDE DEF c
<1>10. /\ c \o b \in Seq(S) /\ Len(c \o b) = n + 1
       /\ \A i \in 1 .. n + 1 :
             (c \o b)[i] = IF i <= k + 1 THEN c[i] ELSE b[i - (k + 1)]
  BY <1>3, <1>8, <1>9, ConcatProperties
<1>11. \A i \in 1 .. k : (c \o b)[i] = s[i]
  BY <1>3, <1>9, <1>10
<1>12. (c \o b)[k + 1] = m
  BY <1>3, <1>9, <1>10
<1>13. ASSUME NEW i \in k + 1 .. n PROVE (c \o b)[i + 1] = s[i]
  <2>1. (i + 1) - (k + 1) \in 1 .. n - k /\ k + ((i + 1) - (k + 1)) = i
    BY <1>3
  <2>2. (c \o b)[i + 1] = b[(i + 1) - (k + 1)]
    BY <1>3, <1>10
  <2>. QED BY <1>8, <2>1, <2>2
<1>14. PutBehind(s, m, c \o b, k)
  BY <1>3, <1>10, <1>11, <1>12, <1>13 DEF PutBehind
<1>. QED BY <1>3, <1>4, <1>6, <1>10, <1>14 DEF c

\* No message of a human is among the last n of the list.
EndsInAI(s, n) == \A i \in 1 .. Len(s) : ~ s[i].ai => i <= Len(s) - n

\* An AI's message leaves the run at the end as long, or one longer if it is
\* put there.
LEMMA InsertionKeepsRun ==
    ASSUME NEW s, NEW m, NEW t, NEW k, PutBehind(s, m, t, k), Len(s) \in Nat,
           m.ai, NEW n \in Nat, EndsInAI(s, n)
    PROVE  /\ EndsInAI(t, n)
           /\ k = Len(s) => EndsInAI(t, n + 1)
<1>1. k \in 0 .. Len(s) /\ Len(t) = Len(s) + 1
  BY DEF PutBehind
<1>2. ASSUME NEW i \in 1 .. Len(t), ~ t[i].ai
      PROVE  i <= Len(t) - n /\ (k = Len(s) => i <= Len(t) - (n + 1))
  <2>1. i # k + 1
    BY <1>2 DEF PutBehind
  <2>2. CASE i <= k
    <3>1. i \in 1 .. Len(s) /\ t[i] = s[i]
      BY <1>1, <2>2 DEF PutBehind
    <3>2. i <= Len(s) - n
      BY <1>2, <3>1 DEF EndsInAI
    <3>. QED BY <1>1, <3>2
  <2>3. CASE i > k + 1
    <3>1. i - 1 \in k + 1 .. Len(s) /\ i - 1 \in 1 .. Len(s) /\ (i - 1) + 1 = i
      BY <1>1, <2>3
    <3>2. t[(i - 1) + 1] = s[i - 1]
      BY <3>1 DEF PutBehind
    <3>3. i - 1 <= Len(s) - n
      BY <1>2, <3>1, <3>2 DEF EndsInAI
    <3>. QED BY <1>1, <2>3, <3>3
  <2>. QED BY <1>1, <2>1, <2>2, <2>3
<1>. QED BY <1>2 DEF EndsInAI

\* orchestrator.go:718-723: compaction keeps the last messages.
LEMMA CompactedMeaning ==
    ASSUME NEW S, NEW h \in Seq(S)
    PROVE  /\ Compacted(h) \in Seq(S)
           /\ Len(Compacted(h)) = IF Len(h) > MaxHistory THEN MaxHistory ELSE Len(h)
           /\ \A i \in 1 .. Len(Compacted(h)) :
                 Compacted(h)[i] = h[i + (Len(h) - Len(Compacted(h)))]
<1>1. MaxHistory \in Nat /\ Len(h) \in Nat
  BY ConstantFacts
<1>2. CASE Len(h) > MaxHistory
  <2>. DEFINE d == Len(h) - MaxHistory
              u == SubSeq(h, d + 1, Len(h))
  <2>1. d \in Nat /\ d + 1 \in 1 .. Len(h) + 1
    BY <1>1, <1>2
  <2>2. Compacted(h) = u
    BY <1>2 DEF Compacted
  <2>3. /\ u \in Seq(S) /\ Len(u) = Len(h) - d
        /\ \A i \in 1 .. Len(h) - d : u[i] = h[d + i]
    <3>. HIDE DEF d
    <3>. QED BY <1>1, <2>1, SubSeqProperties
  <2>4. Len(h) - d = MaxHistory /\ d = Len(h) - MaxHistory
    BY <1>1
  <2>. HIDE DEF u, d
  <2>. QED BY <1>1, <1>2, <2>1, <2>2, <2>3, <2>4
<1>3. CASE ~ (Len(h) > MaxHistory)
  BY <1>1, <1>3 DEF Compacted
<1>. QED BY <1>2, <1>3

\* What compaction drops is not at the end.
LEMMA CompactedKeepsRun ==
    ASSUME NEW S, NEW h \in Seq(S), NEW n \in Nat, EndsInAI(h, n)
    PROVE  EndsInAI(Compacted(h), n)
<1>. DEFINE u == Compacted(h)
            d == Len(h) - Len(u)
<1>1. /\ Len(h) \in Nat /\ Len(u) \in Nat /\ d \in Nat
      /\ \A i \in 1 .. Len(u) : u[i] = h[i + d]
  BY ConstantFacts, CompactedMeaning
<1>2. d = Len(h) - Len(u)
  OBVIOUS
<1>. HIDE DEF u, d
<1>3. ASSUME NEW i \in 1 .. Len(u), ~ u[i].ai PROVE i <= Len(u) - n
  <2>1. i + d \in 1 .. Len(h) /\ ~ h[i + d].ai
    BY <1>1, <1>2, <1>3
  <2>2. i + d <= Len(h) - n
    BY <2>1 DEF EndsInAI
  <2>. QED BY <1>1, <1>2, <2>2
<1>4. EndsInAI(u, n)
  BY <1>3 DEF EndsInAI
<1>. QED BY <1>4 DEF u

-----------------------------------------------------------------------------
(* A batch enters a history.                                               *)

\* What the fold over the positions s returns, f being what it returns for
\* fewer positions.
FoldAt(h, batch, f, s) ==
    IF s = {} THEN h ELSE Inserted(f[s \ {Max(s)}], batch[Max(s)])

\* The function f is the fold over the first n positions.
FoldUpTo(h, batch, f, n) == f = [s \in SUBSET (1 .. n) |-> FoldAt(h, batch, f, s)]

\* Folding over one more position.
LEMMA FoldOneMore ==
    ASSUME NEW h, NEW batch, NEW n \in Nat, n # 0, NEW f,
           FoldUpTo(h, batch, f, n - 1)
    PROVE  \E g : FoldUpTo(h, batch, g, n)
<1>. DEFINE g == [s \in SUBSET (1 .. n) |->
                    IF n \in s THEN Inserted(f[s \ {n}], batch[n]) ELSE f[s]]
<1>1. g = [s \in SUBSET (1 .. n) |-> g[s]]
  OBVIOUS
<1>2. ASSUME NEW s \in SUBSET (1 .. n), n \notin s
      PROVE  g[s] = f[s] /\ s \in SUBSET (1 .. n - 1)
  BY <1>2
<1>3. ASSUME NEW s \in SUBSET (1 .. n), n \in s
      PROVE  g[s] = Inserted(f[s \ {n}], batch[n])
  BY <1>3
<1>4. ASSUME NEW s \in SUBSET (1 .. n - 1) PROVE f[s] = FoldAt(h, batch, f, s)
  BY DEF FoldUpTo
<1>. HIDE DEF g
<1>5. ASSUME NEW s \in SUBSET (1 .. n) PROVE g[s] = FoldAt(h, batch, g, s)
  <2>1. s # {} => Max(s) \in s /\ \A i \in s : i <= Max(s)
    BY Greatest
  <2>2. CASE n \in s
    <3>1. Max(s) = n
      <4>1. n <= Max(s) /\ Max(s) \in 1 .. n
        BY <2>1, <2>2
      <4>. QED BY <4>1
    <3>2. s \ {n} \in SUBSET (1 .. n) /\ n \notin s \ {n}
      OBVIOUS
    <3>3. g[s \ {n}] = f[s \ {n}]
      BY <1>2, <3>2
    <3>4. FoldAt(h, batch, g, s) = Inserted(g[s \ {n}], batch[n])
      BY <2>2, <3>1 DEF FoldAt
    <3>. QED BY <1>3, <2>2, <3>3, <3>4
  <2>3. CASE n \notin s
    <3>1. s \ {Max(s)} \in SUBSET (1 .. n) /\ n \notin s \ {Max(s)}
      BY <2>3
    <3>2. g[s \ {Max(s)}] = f[s \ {Max(s)}]
      BY <1>2, <3>1
    <3>3. FoldAt(h, batch, g, s) = FoldAt(h, batch, f, s)
      BY <3>2 DEF FoldAt
    <3>. QED BY <1>2, <1>4, <2>3, <3>3
  <2>. QED BY <2>2, <2>3
<1>. QED BY <1>1, <1>5 DEF FoldUpTo

\* The fold over any number of positions is defined.
LEMMA FoldExists ==
    ASSUME NEW h, NEW batch, NEW n \in Nat PROVE \E f : FoldUpTo(h, batch, f, n)
<1>. DEFINE T == {i \in Nat : ~ \E f : FoldUpTo(h, batch, f, i)}
<1>. SUFFICES ASSUME T # {} PROVE FALSE
  OBVIOUS
<1>1. PICK i \in T : \A u \in T : ~ (u < i)
  BY Least
<1>2. i # 0
  <2>. DEFINE g == [s \in SUBSET (1 .. 0) |-> h]
  <2>1. SUBSET (1 .. 0) = {{}}
    OBVIOUS
  <2>2. g = [s \in SUBSET (1 .. 0) |-> FoldAt(h, batch, g, s)]
    BY <2>1 DEF FoldAt
  <2>. QED BY <2>2 DEF FoldUpTo
<1>3. i \in Nat /\ i - 1 \in Nat /\ i - 1 < i
  BY <1>2
<1>4. i - 1 \notin T
  BY <1>1, <1>3
<1>5. \E f : FoldUpTo(h, batch, f, i - 1)
  BY <1>3, <1>4
<1>6. \E f : FoldUpTo(h, batch, f, i)
  BY <1>2, <1>3, <1>5, FoldOneMore
<1>. QED BY <1>6

\* The histories f between h and what the fold makes of it, a message apart.
Entering(f, h, batch) ==
    /\ f[0] = h
    /\ \A i \in 1 .. Len(batch) : f[i] = Inserted(f[i - 1], batch[i])
    /\ FoldLeft(Inserted, h, batch) = f[Len(batch)]

\* orchestrator.go:210: the messages of a batch enter one by one.
LEMMA OneByOne ==
    ASSUME NEW h, NEW S, NEW batch \in Seq(S)
    PROVE  \E f : Entering(f, h, batch)
<1>. DEFINE n == Len(batch)
            F == CHOOSE g : g = [s \in SUBSET (1 .. n) |-> FoldAt(h, batch, g, s)]
            f == [i \in 0 .. n |-> F[1 .. i]]
<1>1. n \in Nat /\ DOMAIN batch = 1 .. n
  OBVIOUS
<1>2. FoldLeft(Inserted, h, batch) = F[1 .. n]
  BY <1>1 DEF FoldLeft, MapThenFoldSet, FoldAt
<1>3. F = [s \in SUBSET (1 .. n) |-> FoldAt(h, batch, F, s)]
  <2>1. \E g : g = [s \in SUBSET (1 .. n) |-> FoldAt(h, batch, g, s)]
    BY <1>1, FoldExists DEF FoldUpTo
  <2>. QED BY <2>1
<1>. HIDE DEF F
<1>4. ASSUME NEW s \in SUBSET (1 .. n) PROVE F[s] = FoldAt(h, batch, F, s)
  BY <1>3
<1>5. f[0] = h
  <2>1. 1 .. 0 = {} /\ {} \in SUBSET (1 .. n)
    OBVIOUS
  <2>2. F[{}] = h
    BY <1>4, <2>1 DEF FoldAt
  <2>. QED BY <1>1, <2>1, <2>2
<1>6. ASSUME NEW i \in 1 .. n PROVE f[i] = Inserted(f[i - 1], batch[i])
  <2>1. i \in Nat /\ i - 1 \in 0 .. n /\ i \in 0 .. n
    BY <1>1
  <2>2. 1 .. i \in SUBSET (1 .. n) /\ 1 .. i # {} /\ i \in 1 .. i
    BY <1>1
  <2>3. Max(1 .. i) \in 1 .. i /\ \A j \in 1 .. i : j <= Max(1 .. i)
    BY <2>1, <2>2, Greatest
  <2>4. Max(1 .. i) = i
    BY <2>2, <2>3
  <2>5. (1 .. i) \ {i} = 1 .. i - 1
    BY <2>1
  <2>6. F[1 .. i] = Inserted(F[1 .. i - 1], batch[i])
    BY <1>4, <2>2, <2>4, <2>5 DEF FoldAt
  <2>. QED BY <2>1, <2>6
<1>7. f[n] = F[1 .. n]
  BY <1>1
<1>. HIDE DEF f
<1>8. Entering(f, h, batch)
  BY <1>2, <1>5, <1>6, <1>7 DEF Entering
<1>. QED BY <1>8

\* orchestrator.go:210-213, 718-723: a history takes in a batch, keeps to its
\* limit, and as long as no human is in the batch, its end is of AIs as before.
LEMMA RememberedMeaning ==
    ASSUME NEW S, NEW h \in Seq(S), NEW batch \in Seq(S),
           NEW n \in Nat, EndsInAI(h, n)
    PROVE  /\ Remembered(h, batch) \in Seq(S)
           /\ Len(Remembered(h, batch)) =
                 IF Len(h) + Len(batch) > MaxHistory THEN MaxHistory
                 ELSE Len(h) + Len(batch)
           /\ (\A i \in 1 .. Len(batch) : batch[i].ai)
                 => EndsInAI(Remembered(h, batch), n)
<1>. DEFINE c == Len(batch)
            ofAI == \A i \in 1 .. c : batch[i].ai
<1>0. PICK f : Entering(f, h, batch)
  BY OneByOne
<1>1. c \in Nat /\ \A i \in 1 .. c : batch[i] \in S
  OBVIOUS
<1>2. /\ f[0] = h
      /\ \A i \in 1 .. c : f[i] = Inserted(f[i - 1], batch[i])
      /\ FoldLeft(Inserted, h, batch) = f[c]
  BY <1>0 DEF Entering
<1>. DEFINE Good(i) == /\ f[i] \in Seq(S) /\ Len(f[i]) = Len(h) + i
                       /\ ofAI => EndsInAI(f[i], n)
            T == {i \in 0 .. c : ~ Good(i)}
<1>3. Good(0)
  BY <1>2
<1>4. ASSUME NEW i \in 1 .. c, Good(i - 1) PROVE Good(i)
  <2>. DEFINE s == f[i - 1]
              m == batch[i]
  <2>1. s \in Seq(S) /\ m \in S /\ f[i] = Inserted(s, m) /\ Len(s) = Len(h) + (i - 1)
    BY <1>1, <1>2, <1>4
  <2>2. /\ ofAI => m.ai
        /\ ofAI => EndsInAI(s, n)
    BY <1>4
  <2>. HIDE DEF s, m, ofAI
  <2>3. Inserted(s, m) \in Seq(S)
    BY <2>1, InsertionMeaning
  <2>4. PICK k \in 0 .. Len(s) : PutBehind(s, m, Inserted(s, m), k)
    BY <2>1, InsertionMeaning
  <2>5. Len(Inserted(s, m)) = Len(h) + i
    <3>1. Len(Inserted(s, m)) = Len(s) + 1
      BY <2>4 DEF PutBehind
    <3>. QED BY <2>1, <3>1
  <2>6. ofAI => EndsInAI(Inserted(s, m), n)
    <3>1. Len(s) \in Nat
      BY <2>1
    <3>. QED BY <2>2, <2>4, <3>1, InsertionKeepsRun
  <2>. QED BY <2>1, <2>3, <2>5, <2>6
<1>. HIDE DEF Good
<1>5. T = {}
  <2>. SUFFICES ASSUME T # {} PROVE FALSE
    OBVIOUS
  <2>1. T \in SUBSET Nat
    OBVIOUS
  <2>2. PICK i \in T : \A u \in T : ~ (u < i)
    BY <2>1, Least
  <2>3. i \in 0 .. c /\ ~ Good(i)
    OBVIOUS
  <2>4. i \in 1 .. c /\ i - 1 \in 0 .. c /\ i - 1 < i
    BY <1>1, <1>3, <2>3
  <2>5. Good(i - 1)
    BY <2>2, <2>4
  <2>. QED BY <1>4, <2>3, <2>4, <2>5
<1>6. Good(c)
  BY <1>1, <1>5
<1>7. Remembered(h, batch) = Compacted(f[c])
  BY <1>2 DEF Remembered
<1>8. /\ f[c] \in Seq(S) /\ Len(f[c]) = Len(h) + c
      /\ ofAI => EndsInAI(f[c], n)
  BY <1>6 DEF Good
<1>. HIDE DEF ofAI
<1>9. /\ Compacted(f[c]) \in Seq(S)
      /\ Len(Compacted(f[c])) =
            IF Len(h) + c > MaxHistory THEN MaxHistory ELSE Len(h) + c
  BY <1>8, CompactedMeaning
<1>10. ofAI => EndsInAI(Compacted(f[c]), n)
  BY <1>8, CompactedKeepsRun
<1>. QED BY <1>7, <1>9, <1>10 DEF ofAI

\* orchestrator.go:309-313: a message that is less than none of the history
\* comes last, and counts with the run of AI messages there.
LEMMA RememberedLast ==
    ASSUME NEW S, NEW h \in Seq(S), NEW m \in S,
           \A j \in 1 .. Len(h) : ~ Less(m, h[j]),
           m.ai, NEW n \in Nat, EndsInAI(h, n)
    PROVE  /\ Last(Remembered(h, <<m>>)) = m
           /\ EndsInAI(Remembered(h, <<m>>), n + 1)
<1>. DEFINE t == Inserted(h, m)
            u == Compacted(t)
            b == <<m>>
<1>1. Remembered(h, b) = u
  <2>1. b \in Seq(S) /\ Len(b) = 1 /\ b[1] = m
    OBVIOUS
  <2>. HIDE DEF b
  <2>0. PICK f : Entering(f, h, b)
    BY <2>1, OneByOne
  <2>2. /\ f[0] = h
        /\ \A i \in 1 .. Len(b) : f[i] = Inserted(f[i - 1], b[i])
        /\ FoldLeft(Inserted, h, b) = f[Len(b)]
    BY <2>0 DEF Entering
  <2>3. f[1] = Inserted(f[0], m)
    <3>1. 1 \in 1 .. Len(b) /\ 1 - 1 = 0
      BY <2>1
    <3>. QED BY <2>1, <2>2, <3>1
  <2>. QED BY <2>1, <2>2, <2>3 DEF Remembered
<1>2. t \in Seq(S) /\ PutBehind(h, m, t, Len(h)) /\ Len(h) \in Nat
  <2>1. PICK k \in 0 .. Len(h) :
           /\ PutBehind(h, m, Inserted(h, m), k)
           /\ (\A j \in 1 .. Len(h) : ~ Less(m, h[j])) => k = Len(h)
    BY InsertionMeaning
  <2>2. k = Len(h)
    BY <2>1
  <2>3. Inserted(h, m) \in Seq(S)
    BY InsertionMeaning
  <2>. QED BY <2>1, <2>2, <2>3
<1>. HIDE DEF t
<1>3. t[Len(h) + 1] = m /\ Len(t) = Len(h) + 1
  BY <1>2 DEF PutBehind
<1>4. EndsInAI(t, n + 1)
  BY <1>2, InsertionKeepsRun
<1>5. EndsInAI(u, n + 1)
  BY <1>2, <1>4, CompactedKeepsRun
<1>6. u[Len(u)] = m
  <2>1. /\ Len(u) = IF Len(t) > MaxHistory THEN MaxHistory ELSE Len(t)
        /\ \A i \in 1 .. Len(u) : u[i] = t[i + (Len(t) - Len(u))]
    BY <1>2, CompactedMeaning
  <2>2. MaxHistory \in Nat /\ MaxHistory >= 1
    BY ConstantFacts
  <2>3. Len(u) \in 1 .. Len(u) /\ Len(u) + (Len(t) - Len(u)) = Len(t)
    BY <1>2, <1>3, <2>1, <2>2
  <2>. QED BY <1>3, <2>1, <2>3
<1>. QED BY <1>1, <1>5, <1>6 DEF Last

-----------------------------------------------------------------------------
(* The invariant.                                                          *)

\* A published message counts its own writer.
Written ==
    {m \in [from : Peers, ai : BOOLEAN, vc : VectorClocks, to : Kinds] :
        m.vc[m.from] > 0}

\* The messages that a peer with this clock has counted, and what its history
\* may hold besides.
CountedBy(vc) == {m \in Written : Leq(m.vc, vc)}
Kept(vc) == CountedBy(vc) \cup {Unpublished}

TurnRecord == [on : BOOLEAN, must : BOOLEAN, clock : VectorClocks]

\* What holds of one peer: its clock has counted all it has, its replies since
\* a human's message are among the run of AI messages at the end of its
\* history, and a turn begins only when they are fewer than the hard stop.
PeerOK(vc, batch, h, t, n) ==
    /\ batch \in Seq(CountedBy(vc)) /\ h \in Seq(Kept(vc))
    /\ Len(h) <= MaxHistory
    /\ EndsInAI(h, n) /\ n <= Len(h) /\ n <= HardStop
    /\ t.on => Len(h) > 0 /\ n < HardStop

ChainInv ==
    /\ sent \subseteq Written
    /\ clock \in [Peers -> VectorClocks] /\ seen \in [Peers -> VectorClocks]
    /\ pending \in [Peers -> Seq(Written)]
    /\ history \in [Peers -> Seq(Written \cup {Unpublished})]
    /\ asking \in [Peers -> TurnRecord] /\ chain \in [Peers -> Nat]
    /\ \A p \in Peers :
          PeerOK(clock[p], pending[p], history[p], asking[p], chain[p])

\* vector.go:26-40: a clock that only grows has still counted what it had.
LEMMA CountedGrows ==
    ASSUME NEW a \in VectorClocks, NEW b \in VectorClocks, Leq(a, b)
    PROVE  CountedBy(a) \subseteq CountedBy(b) /\ Kept(a) \subseteq Kept(b)
<1>1. ASSUME NEW m \in CountedBy(a) PROVE m \in CountedBy(b)
  <2>1. m \in Written /\ Leq(m.vc, a)
    BY DEF CountedBy
  <2>2. m.vc \in VectorClocks
    BY <2>1 DEF Written
  <2>3. ASSUME NEW q \in Peers PROVE m.vc[q] <= b[q]
    <3>1. m.vc[q] <= a[q] /\ a[q] <= b[q]
      BY <2>1 DEF Leq
    <3>2. m.vc[q] \in Nat /\ a[q] \in Nat /\ b[q] \in Nat
      BY <2>2 DEF VectorClocks
    <3>. QED BY <3>1, <3>2
  <2>4. Leq(m.vc, b)
    BY <2>3 DEF Leq
  <2>. QED BY <2>1, <2>4 DEF CountedBy
<1>. QED BY <1>1 DEF Kept

\* orchestrator.go:798-844: a message that is signed now is less than nothing
\* its signer has counted.
LEMMA SignedIsLast ==
    ASSUME NEW p \in Peers, NEW c \in VectorClocks, NEW m \in Written,
           m.from = p, m.vc = Increment(c, p), NEW x \in Kept(c)
    PROVE  ~ Less(m, x)
<1>1. p \in Nat /\ p > 0 /\ m.vc \in VectorClocks
  BY ConstantFacts DEF Written
<1>2. CASE x = Unpublished
  <2>1. x.vc = New /\ x.from = 0
    BY <1>2 DEF Unpublished
  <2>. QED BY <1>1, <2>1 DEF Less, Before
<1>3. CASE x \in CountedBy(c)
  <2>1. /\ x.vc \in VectorClocks /\ x.from \in Peers
        /\ x.vc[x.from] > 0 /\ Leq(x.vc, c)
    BY <1>3 DEF CountedBy, Written
  <2>2. m.vc[m.from] > 0
    BY DEF Written
  <2>3. x.vc # New /\ m.vc # New
    BY <2>1, <2>2 DEF New
  <2>4. \A q \in Peers : x.vc[q] <= c[q] /\ x.vc[q] \in Nat /\ c[q] \in Nat
    BY <2>1 DEF Leq, VectorClocks
  <2>5. /\ m.vc[p] = c[p] + 1
        /\ \A q \in Peers : q # p => m.vc[q] = c[q]
    BY DEF Increment, VectorClocks
  <2>6. Behind(x.vc, m.vc) /\ ~ Behind(m.vc, x.vc)
    BY <2>4, <2>5 DEF Behind
  <2>7. Compare(x.vc, m.vc) = "before" /\ Compare(m.vc, x.vc) = "after"
    BY <2>6 DEF Compare
  <2>. QED BY <2>3, <2>7 DEF Less, Before
<1>. QED BY <1>2, <1>3 DEF Kept

\* A step that changes the fields of one peer keeps the invariant if what it
\* leaves there is as it should be.
LEMMA OnePeer ==
    ASSUME ChainInv, NEW p \in Peers,
           NEW vc \in VectorClocks, NEW sn \in VectorClocks,
           NEW batch, NEW h, NEW t \in TurnRecord, NEW n \in Nat,
           PeerOK(vc, batch, h, t, n), sent' \subseteq Written,
           clock' = [clock EXCEPT ![p] = vc], seen' = [seen EXCEPT ![p] = sn],
           pending' = [pending EXCEPT ![p] = batch],
           history' = [history EXCEPT ![p] = h],
           asking' = [asking EXCEPT ![p] = t], chain' = [chain EXCEPT ![p] = n]
    PROVE  ChainInv'
<1>1. batch \in Seq(Written) /\ h \in Seq(Written \cup {Unpublished})
  <2>1. /\ CountedBy(vc) \subseteq Written
        /\ Kept(vc) \subseteq Written \cup {Unpublished}
    BY DEF CountedBy, Kept
  <2>2. batch \in Seq(CountedBy(vc)) /\ h \in Seq(Kept(vc))
    BY DEF PeerOK
  <2>. QED BY <2>1, <2>2
<1>2. /\ clock' \in [Peers -> VectorClocks] /\ seen' \in [Peers -> VectorClocks]
      /\ pending' \in [Peers -> Seq(Written)]
      /\ history' \in [Peers -> Seq(Written \cup {Unpublished})]
      /\ asking' \in [Peers -> TurnRecord] /\ chain' \in [Peers -> Nat]
  BY <1>1 DEF ChainInv
<1>3. ASSUME NEW q \in Peers
      PROVE  PeerOK(clock'[q], pending'[q], history'[q], asking'[q], chain'[q])
  <2>1. CASE q = p
    <3>1. /\ clock'[q] = vc /\ pending'[q] = batch /\ history'[q] = h
          /\ asking'[q] = t /\ chain'[q] = n
      BY <2>1 DEF ChainInv
    <3>. QED BY <3>1
  <2>2. CASE q # p
    <3>1. /\ clock'[q] = clock[q] /\ pending'[q] = pending[q]
          /\ history'[q] = history[q] /\ asking'[q] = asking[q] /\ chain'[q] = chain[q]
      BY <2>2 DEF ChainInv
    <3>2. PeerOK(clock[q], pending[q], history[q], asking[q], chain[q])
      BY DEF ChainInv
    <3>. QED BY <3>1, <3>2
  <2>. QED BY <2>1, <2>2
<1>. QED BY <1>2, <1>3 DEF ChainInv

-----------------------------------------------------------------------------
(* The steps.                                                              *)

\* What holds of a peer still holds when its clock has grown.
LEMMA PeerLater ==
    ASSUME NEW a \in VectorClocks, NEW b \in VectorClocks, Leq(a, b),
           NEW batch, NEW h, NEW t, NEW n, PeerOK(a, batch, h, t, n)
    PROVE  PeerOK(b, batch, h, t, n)
<1>1. CountedBy(a) \subseteq CountedBy(b) /\ Kept(a) \subseteq Kept(b)
  BY CountedGrows
<1>2. batch \in Seq(CountedBy(a)) /\ h \in Seq(Kept(a))
  BY DEF PeerOK
<1>3. batch \in Seq(CountedBy(b)) /\ h \in Seq(Kept(b))
  BY <1>1, <1>2
<1>. QED BY <1>3 DEF PeerOK

\* main.go:199-208: what a peer signs counts its signer and all it has counted.
LEMMA SignedIsWritten ==
    ASSUME ChainInv, NEW p \in Peers, NEW ai \in BOOLEAN, NEW to \in Kinds
    PROVE  /\ Signed(p, ai, to) \in Written
           /\ Signed(p, ai, to).vc = Increment(clock[p], p)
           /\ Increment(clock[p], p) \in VectorClocks
           /\ Leq(clock[p], Increment(clock[p], p))
           /\ Signed(p, ai, to) \in CountedBy(Increment(clock[p], p))
<1>. DEFINE vc == Increment(clock[p], p)
            m == Signed(p, ai, to)
<1>1. clock[p] \in VectorClocks
  BY DEF ChainInv
<1>2. vc \in VectorClocks /\ vc[p] > 0 /\ Leq(clock[p], vc) /\ Leq(vc, vc)
  BY <1>1 DEF Increment, VectorClocks, Leq
<1>3. m = [from |-> p, ai |-> ai, vc |-> vc, to |-> to]
  BY DEF Signed
<1>. HIDE DEF vc, m
<1>4. m \in Written /\ m.vc = vc
  BY <1>2, <1>3 DEF Written
<1>5. m \in CountedBy(vc)
  BY <1>2, <1>4 DEF CountedBy
<1>. QED BY <1>2, <1>4, <1>5 DEF vc, m

\* main.go:1151-1164: a human's message joins its own peer's batcher.
LEMMA HumanWritesKeeps ==
    ASSUME ChainInv, NEW p \in Peers, NEW to \in HumanKinds,
           HumanWrites(p, to)
    PROVE  ChainInv'
<1>. DEFINE m == Signed(p, FALSE, to)
            vc == Increment(clock[p], p)
<1>1. to \in Kinds
  BY ConstantFacts
<1>2. /\ m \in Written /\ m.vc = vc /\ vc \in VectorClocks
      /\ Leq(clock[p], vc) /\ m \in CountedBy(vc)
  BY <1>1, SignedIsWritten
<1>3. /\ sent' = sent \cup {m} /\ clock' = [clock EXCEPT ![p] = m.vc]
      /\ seen' = [seen EXCEPT ![p][p] = m.vc[p]]
      /\ pending' = [pending EXCEPT ![p] = Append(@, m)]
      /\ UNCHANGED <<history, asking, chain>>
  BY DEF HumanWrites
<1>. HIDE DEF m, vc
<1>4. /\ clock[p] \in VectorClocks /\ asking[p] \in TurnRecord /\ chain[p] \in Nat
      /\ PeerOK(clock[p], pending[p], history[p], asking[p], chain[p])
  BY DEF ChainInv
<1>5. PeerOK(vc, pending[p], history[p], asking[p], chain[p])
  BY <1>2, <1>4, PeerLater
<1>6. PeerOK(vc, Append(pending[p], m), history[p], asking[p], chain[p])
  BY <1>2, <1>5, AppendProperties DEF PeerOK
<1>7. [seen[p] EXCEPT ![p] = vc[p]] \in VectorClocks
  BY <1>2 DEF ChainInv, VectorClocks
<1>8. sent' \subseteq Written
  BY <1>2, <1>3 DEF ChainInv
<1>9. /\ clock' = [clock EXCEPT ![p] = vc]
      /\ seen' = [seen EXCEPT ![p] = [seen[p] EXCEPT ![p] = vc[p]]]
      /\ pending' = [pending EXCEPT ![p] = Append(pending[p], m)]
      /\ history' = [history EXCEPT ![p] = history[p]]
      /\ asking' = [asking EXCEPT ![p] = asking[p]]
      /\ chain' = [chain EXCEPT ![p] = chain[p]]
  BY <1>2, <1>3 DEF ChainInv
<1>. QED BY <1>2, <1>4, <1>6, <1>7, <1>8, <1>9, OnePeer

\* main.go:349-386: what a ledger accepted is in the clock before the batcher
\* or the history gets it.
LEMMA AcceptCounts ==
    ASSUME ChainInv, NEW p \in Peers, NEW m \in sent, Accept(p, m)
    PROVE  \E vc \in VectorClocks, sn \in VectorClocks :
              /\ Leq(clock[p], vc) /\ m \in CountedBy(vc)
              /\ clock' = [clock EXCEPT ![p] = vc]
              /\ seen' = [seen EXCEPT ![p] = sn]
              /\ sent' = sent /\ asking' = asking
<1>. DEFINE vc == Merge(clock[p], m.vc)
            sn == [seen[p] EXCEPT ![m.from] = m.vc[m.from]]
<1>1. /\ clock[p] \in VectorClocks /\ seen[p] \in VectorClocks
      /\ m \in Written /\ m.vc \in VectorClocks /\ m.from \in Peers
  BY DEF ChainInv, Written
<1>2. vc \in VectorClocks /\ Leq(clock[p], vc) /\ Leq(m.vc, vc)
  BY <1>1 DEF Merge, VectorClocks, Leq
<1>3. sn \in VectorClocks
  BY <1>1 DEF VectorClocks
<1>4. /\ clock' = [clock EXCEPT ![p] = vc] /\ seen' = [seen EXCEPT ![p] = sn]
      /\ sent' = sent /\ asking' = asking
  BY DEF Accept, ChainInv
<1>. HIDE DEF vc, sn
<1>5. m \in CountedBy(vc)
  BY <1>1, <1>2 DEF CountedBy
<1>. QED BY <1>2, <1>3, <1>4, <1>5

\* main.go:349-402: so does a message of the room.
LEMMA ReceiveKeeps ==
    ASSUME ChainInv, NEW p \in Peers, NEW m \in sent, Receive(p, m)
    PROVE  ChainInv'
<1>1. PICK vc \in VectorClocks, sn \in VectorClocks :
         /\ Leq(clock[p], vc) /\ m \in CountedBy(vc)
         /\ clock' = [clock EXCEPT ![p] = vc] /\ seen' = [seen EXCEPT ![p] = sn]
         /\ sent' = sent /\ asking' = asking
  BY AcceptCounts DEF Receive
<1>2. /\ clock[p] \in VectorClocks /\ asking[p] \in TurnRecord /\ chain[p] \in Nat
      /\ PeerOK(clock[p], pending[p], history[p], asking[p], chain[p])
      /\ sent' \subseteq Written
  BY <1>1 DEF ChainInv
<1>3. PeerOK(vc, pending[p], history[p], asking[p], chain[p])
  BY <1>1, <1>2, PeerLater
<1>4. PeerOK(vc, Append(pending[p], m), history[p], asking[p], chain[p])
  BY <1>1, <1>3, AppendProperties DEF PeerOK
<1>5. /\ pending' = [pending EXCEPT ![p] = Append(pending[p], m)]
      /\ history' = [history EXCEPT ![p] = history[p]]
      /\ asking' = [asking EXCEPT ![p] = asking[p]]
      /\ chain' = [chain EXCEPT ![p] = chain[p]]
  BY <1>1 DEF Receive, ChainInv
<1>. QED BY <1>1, <1>2, <1>4, <1>5, OnePeer

\* A batch may enter the history: unless it is all of AIs, the count starts
\* from zero.
LEMMA BatchKeeps ==
    ASSUME NEW vc, NEW pend, NEW h, NEW t, NEW n \in Nat,
           PeerOK(vc, pend, h, t, n),
           NEW batch \in Seq(Kept(vc)),
           NEW k \in Nat, k \in {0, n},
           k # 0 => \A i \in 1 .. Len(batch) : batch[i].ai
    PROVE  /\ Remembered(h, batch) \in Seq(Kept(vc))
           /\ Len(Remembered(h, batch)) <= MaxHistory
           /\ EndsInAI(Remembered(h, batch), k)
           /\ k <= Len(Remembered(h, batch)) /\ k <= HardStop
           /\ Len(h) > 0 \/ Len(batch) > 0 => Len(Remembered(h, batch)) > 0
<1>. DEFINE r == Remembered(h, batch)
<1>1. /\ h \in Seq(Kept(vc)) /\ EndsInAI(h, n) /\ n <= Len(h) /\ n <= HardStop
      /\ Len(h) <= MaxHistory /\ Len(h) \in Nat /\ Len(batch) \in Nat
  BY DEF PeerOK
<1>2. /\ r \in Seq(Kept(vc))
      /\ Len(r) = IF Len(h) + Len(batch) > MaxHistory THEN MaxHistory
                  ELSE Len(h) + Len(batch)
      /\ (\A i \in 1 .. Len(batch) : batch[i].ai) => EndsInAI(r, n)
  BY <1>1, RememberedMeaning
<1>. HIDE DEF r
<1>3. EndsInAI(r, k)
  <2>1. CASE k = 0
    <3>1. Len(r) \in Nat
      BY <1>2
    <3>. QED BY <2>1, <3>1 DEF EndsInAI
  <2>2. CASE k # 0
    BY <1>2, <2>2
  <2>. QED BY <2>1, <2>2
<1>4. HardStop \in Nat /\ HardStop > 0 /\ MaxHistory \in Nat /\ HardStop <= MaxHistory
  BY ConstantFacts
<1>5. Len(r) <= MaxHistory /\ k <= Len(r) /\ k <= HardStop
  BY <1>1, <1>2, <1>4
<1>6. Len(h) > 0 \/ Len(batch) > 0 => Len(r) > 0
  BY <1>1, <1>2, <1>4
<1>. QED BY <1>2, <1>3, <1>5, <1>6 DEF r

\* main.go:402-404: a repaired message goes to the history at once.
LEMMA RepairKeeps ==
    ASSUME ChainInv, NEW p \in Peers, NEW m \in sent, Repair(p, m)
    PROVE  ChainInv'
<1>. DEFINE b == <<m>>
            k == IF m.ai THEN chain[p] ELSE 0
            h == Remembered(history[p], b)
<1>1. PICK vc \in VectorClocks, sn \in VectorClocks :
         /\ Leq(clock[p], vc) /\ m \in CountedBy(vc)
         /\ clock' = [clock EXCEPT ![p] = vc] /\ seen' = [seen EXCEPT ![p] = sn]
         /\ sent' = sent /\ asking' = asking
  BY AcceptCounts DEF Repair
<1>2. /\ clock[p] \in VectorClocks /\ asking[p] \in TurnRecord /\ chain[p] \in Nat
      /\ PeerOK(clock[p], pending[p], history[p], asking[p], chain[p])
      /\ sent' \subseteq Written
  BY <1>1 DEF ChainInv
<1>3. PeerOK(vc, pending[p], history[p], asking[p], chain[p])
  BY <1>1, <1>2, PeerLater
<1>4. b \in Seq(Kept(vc)) /\ Len(b) = 1 /\ \A i \in 1 .. Len(b) : b[i] = m
  BY <1>1 DEF Kept
<1>5. k \in Nat /\ k \in {0, chain[p]} /\ (k # 0 => m.ai)
  BY <1>2
<1>6. /\ history' = [history EXCEPT ![p] = h] /\ chain' = [chain EXCEPT ![p] = k]
      /\ pending' = [pending EXCEPT ![p] = pending[p]]
      /\ asking' = [asking EXCEPT ![p] = asking[p]]
  BY <1>1 DEF Repair, ChainInv
<1>. HIDE DEF b, k
<1>7. /\ h \in Seq(Kept(vc)) /\ Len(h) <= MaxHistory /\ EndsInAI(h, k)
      /\ k <= Len(h) /\ k <= HardStop /\ Len(h) > 0
  <2>1. k # 0 => \A i \in 1 .. Len(b) : b[i].ai
    BY <1>4, <1>5
  <2>2. Len(b) > 0
    BY <1>4
  <2>3. k \in Nat /\ k \in {0, chain[p]} /\ chain[p] \in Nat /\ b \in Seq(Kept(vc))
    BY <1>2, <1>4, <1>5
  <2>4. PeerOK(vc, pending[p], history[p], asking[p], chain[p])
    BY <1>3
  <2>. QED BY <2>1, <2>2, <2>3, <2>4, BatchKeeps
<1>. HIDE DEF h
<1>8. asking[p].on => k < HardStop
  <2>1. HardStop \in Nat /\ HardStop > 0
    BY ConstantFacts
  <2>. QED BY <1>2, <1>5, <2>1 DEF PeerOK
<1>9. PeerOK(vc, pending[p], h, asking[p], k)
  BY <1>3, <1>7, <1>8 DEF PeerOK
<1>. QED BY <1>1, <1>2, <1>5, <1>6, <1>9, OnePeer

\* orchestrator.go:216, 779-790: the run of AI messages that is counted is as
\* long as what is known of the history's end.
LEMMA RunCounted ==
    ASSUME NEW S, NEW h \in Seq(S), NEW n \in Nat, EndsInAI(h, n), n <= Len(h), NEW p
    PROVE  TrailingAI(h, p) \in Nat /\ n <= TrailingAI(h, p)
<1>. DEFINE I == {i \in 1 .. Len(h) : ~ h[i].ai}
<1>1. TrailingAI(h, p) = Len(h) - (IF I # {} THEN Max(I) ELSE 0)
  BY DEF TrailingAI, SelectLastInSeq
<1>2. Len(h) \in Nat
  OBVIOUS
<1>3. I # {} => Max(I) \in 1 .. Len(h) /\ Max(I) <= Len(h) - n
  <2>. SUFFICES ASSUME I # {}
                PROVE  Max(I) \in 1 .. Len(h) /\ Max(I) <= Len(h) - n
    OBVIOUS
  <2>1. Max(I) \in I
    <3>1. I \in SUBSET (1 .. Len(h))
      OBVIOUS
    <3>. HIDE DEF I
    <3>. QED BY <1>2, <3>1, Greatest
  <2>. QED BY <2>1 DEF EndsInAI
<1>. HIDE DEF I
<1>. QED BY <1>1, <1>2, <1>3

\* orchestrator.go:195-330: a turn begins for a human, whose message starts
\* the count, or while the run of AI messages is below the hard stop.
LEMMA ProcessKeeps ==
    ASSUME ChainInv, NEW p \in Peers, ProcessBatch(p)
    PROVE  ChainInv'
<1>1. PICK n \in 1 .. Len(pending[p]) :
        LET batch  == SubSeq(pending[p], 1, n)
            latest == batch[n]
            h      == Remembered(history[p], batch) IN
        /\ pending' = [pending EXCEPT ![p] = SubSeq(@, n + 1, Len(@))]
        /\ history' = [history EXCEPT ![p] = h]
        /\ chain' = [chain EXCEPT ![p] = IF \A i \in 1 .. n : batch[i].ai THEN @ ELSE 0]
        /\ \E respond \in Eligible(latest, TrailingAI(h, p), p) :
              asking' = [asking EXCEPT ![p] =
                  IF respond THEN Turn(MustReply(latest, p), clock[p])
                ELSE Idle]
  BY DEF ProcessBatch
<1>. DEFINE q == pending[p]
            c == Len(q)
            b == SubSeq(q, 1, n)
            rest == SubSeq(q, n + 1, c)
            h == Remembered(history[p], b)
            d == TrailingAI(h, p)
            ofAI == \A i \in 1 .. n : b[i].ai
            k == IF ofAI THEN chain[p] ELSE 0
            K == Kept(clock[p])
<1>2. PICK respond \in Eligible(b[n], d, p) :
         asking' = [asking EXCEPT ![p] =
             IF respond THEN Turn(MustReply(b[n], p), clock[p]) ELSE Idle]
  BY <1>1
<1>. DEFINE t == IF respond THEN Turn(MustReply(b[n], p), clock[p])
                 ELSE Idle
<1>3. /\ clock[p] \in VectorClocks /\ asking[p] \in TurnRecord /\ chain[p] \in Nat
      /\ seen[p] \in VectorClocks /\ sent \subseteq Written
      /\ PeerOK(clock[p], q, history[p], asking[p], chain[p])
  BY DEF ChainInv
<1>4. q \in Seq(CountedBy(clock[p])) /\ c \in Nat /\ n \in 1 .. c
  BY <1>3 DEF PeerOK
<1>5. /\ b \in Seq(CountedBy(clock[p])) /\ Len(b) = n
      /\ rest \in Seq(CountedBy(clock[p]))
  <2>. HIDE DEF q
  <2>1. /\ 1 \in 1 .. c + 1 /\ n \in 1 - 1 .. c
        /\ n + 1 \in 1 .. c + 1 /\ c \in (n + 1) - 1 .. c
    BY <1>4
  <2>. QED BY <1>4, <2>1, SubSeqProperties
<1>6. b[n] \in Written /\ b \in Seq(K)
  <2>1. CountedBy(clock[p]) \subseteq Written /\ CountedBy(clock[p]) \subseteq K
    BY DEF CountedBy, Kept
  <2>. HIDE DEF b, K
  <2>2. b[n] \in CountedBy(clock[p])
    BY <1>4, <1>5
  <2>. QED BY <1>5, <2>1, <2>2
<1>7. t \in TurnRecord
  <2>1. New \in VectorClocks
    BY DEF New, VectorClocks
  <2>2. Idle \in TurnRecord
    BY <2>1 DEF Idle, TurnRecord
  <2>3. MustReply(b[n], p) \in BOOLEAN
    BY DEF MustReply
  <2>4. Turn(MustReply(b[n], p), clock[p]) \in TurnRecord
    BY <1>3, <2>3 DEF Turn, TurnRecord
  <2>. QED BY <2>2, <2>4
<1>8. /\ clock' = [clock EXCEPT ![p] = clock[p]] /\ seen' = [seen EXCEPT ![p] = seen[p]]
      /\ pending' = [pending EXCEPT ![p] = rest]
      /\ history' = [history EXCEPT ![p] = h]
      /\ chain' = [chain EXCEPT ![p] = k]
      /\ asking' = [asking EXCEPT ![p] = t]
      /\ sent' \subseteq Written
  BY <1>1, <1>2, <1>3 DEF ProcessBatch, ChainInv
<1>9. t.on => respond = TRUE
  BY DEF Idle
<1>. HIDE DEF t, q, c, rest
<1>10. k \in Nat /\ k \in {0, chain[p]} /\ (k # 0 => ofAI /\ k = chain[p])
  BY <1>3
<1>. HIDE DEF k
<1>11. /\ h \in Seq(K) /\ Len(h) <= MaxHistory /\ EndsInAI(h, k)
       /\ k <= Len(h) /\ k <= HardStop /\ Len(h) > 0
  <2>. HIDE DEF b, h
  <2>1. k # 0 => \A i \in 1 .. Len(b) : b[i].ai
    BY <1>5, <1>10
  <2>2. Len(b) > 0
    BY <1>4, <1>5
  <2>. QED BY <1>3, <1>6, <1>10, <2>1, <2>2, BatchKeeps DEF h
<1>. HIDE DEF h, K
<1>12. d \in Nat /\ k <= d
  BY <1>10, <1>11, RunCounted
<1>. HIDE DEF d
<1>13. HardStop \in Nat /\ HardStop > 0
  BY ConstantFacts
<1>14. t.on => k < HardStop
  <2>. SUFFICES ASSUME t.on, k # 0 PROVE k < HardStop
    BY <1>13
  <2>1. b[n].ai
    BY <1>4, <1>10
  <2>2. TRUE \in Eligible(b[n], d, p)
    BY <1>2, <1>9
  <2>3. ~ HardStopped(b[n], d)
    BY <2>2 DEF Eligible
  <2>4. d < HardStop
    BY <1>12, <1>13, <2>1, <2>3 DEF HardStopped
  <2>. QED BY <1>10, <1>12, <1>13, <2>4
<1>15. PeerOK(clock[p], rest, h, t, k)
  BY <1>5, <1>11, <1>14 DEF PeerOK, K
<1>. QED BY <1>3, <1>7, <1>8, <1>10, <1>15, OnePeer

\* orchestrator.go:286-300: a silent turn leaves everything else alone.
LEMMA KeepSilentKeeps ==
    ASSUME ChainInv, NEW p \in Peers, KeepSilent(p)
    PROVE  ChainInv'
<1>1. /\ clock[p] \in VectorClocks /\ chain[p] \in Nat
      /\ seen[p] \in VectorClocks /\ sent \subseteq Written
      /\ PeerOK(clock[p], pending[p], history[p], asking[p], chain[p])
  BY DEF ChainInv
<1>2. Idle \in TurnRecord /\ ~ Idle.on
  BY DEF Idle, TurnRecord, New, VectorClocks
<1>3. PeerOK(clock[p], pending[p], history[p], Idle, chain[p])
  BY <1>1, <1>2 DEF PeerOK
<1>4. /\ clock' = [clock EXCEPT ![p] = clock[p]] /\ seen' = [seen EXCEPT ![p] = seen[p]]
      /\ pending' = [pending EXCEPT ![p] = pending[p]]
      /\ history' = [history EXCEPT ![p] = history[p]]
      /\ chain' = [chain EXCEPT ![p] = chain[p]]
      /\ asking' = [asking EXCEPT ![p] = Idle] /\ sent' \subseteq Written
  BY <1>1 DEF KeepSilent, ChainInv
<1>. QED BY <1>1, <1>2, <1>3, <1>4, OnePeer

\* A clock that is written over itself.
LEMMA SameStamp ==
    ASSUME NEW p, NEW vc, NEW to, NEW m,
           m = [from |-> p, ai |-> TRUE, vc |-> vc, to |-> to]
    PROVE  [m EXCEPT !.vc = vc] = m
<1>. DEFINE R == [from : {p}, ai : {TRUE}, vc : {vc}, to : {to}]
<1>1. m \in R /\ m.vc = vc
  OBVIOUS
<1>. QED BY <1>1

\* orchestrator.go:305-313: the reply is behind all that the peer has counted.
LEMMA PublishedKeeps ==
    ASSUME ChainInv, NEW p \in Peers, NEW to \in AIKinds, Reply(p, to)
    PROVE  /\ ChainInv'
           /\ \A m \in sent' \ sent : m.from = p /\ m = Last(history'[p])
<1>. DEFINE vc == Increment(clock[p], p)
            m == Signed(p, TRUE, to)
            h == Remembered(history[p], <<m>>)
            n == chain[p]
<1>1. to \in Kinds
  BY ConstantFacts
<1>2. /\ m \in Written /\ m.vc = vc /\ vc \in VectorClocks
      /\ Leq(clock[p], vc) /\ m \in CountedBy(vc)
  BY <1>1, SignedIsWritten
<1>3. /\ m = [Signed(p, TRUE, to) EXCEPT
                !.vc = Increment(Stamp(p), p)]
      /\ m.ai /\ m.from = p
  <2>1. m = [from |-> p, ai |-> TRUE, vc |-> vc, to |-> to]
    BY DEF Signed
  <2>2. Increment(Stamp(p), p) = vc
    BY DEF Stamp
  <2>. HIDE DEF m, vc
  <2>3. [m EXCEPT !.vc = vc] = m
    BY <2>1, SameStamp
  <2>4. m.ai /\ m.from = p
    BY <2>1
  <2>5. m = [Signed(p, TRUE, to) EXCEPT !.vc = Increment(Stamp(p), p)]
    BY <2>2, <2>3, Zenon DEF m
  <2>. QED BY <2>4, <2>5
<1>4. /\ asking[p].on /\ sent' = sent \cup {m} /\ clock' = [clock EXCEPT ![p] = vc]
      /\ seen' = [seen EXCEPT ![p][p] = m.vc[p]]
      /\ history' = [history EXCEPT ![p] = h] /\ chain' = [chain EXCEPT ![p] = n + 1]
      /\ asking' = [asking EXCEPT ![p] = Idle] /\ pending' = pending
  BY <1>3 DEF Reply
<1>. HIDE DEF vc, m
<1>5. /\ clock[p] \in VectorClocks /\ n \in Nat /\ seen[p] \in VectorClocks
      /\ sent \subseteq Written
      /\ PeerOK(clock[p], pending[p], history[p], asking[p], n)
  BY DEF ChainInv
<1>6. PeerOK(vc, pending[p], history[p], asking[p], n)
  BY <1>2, <1>5, PeerLater
<1>7. /\ pending[p] \in Seq(CountedBy(vc)) /\ history[p] \in Seq(Kept(vc))
      /\ EndsInAI(history[p], n) /\ n <= Len(history[p]) /\ n < HardStop
  BY <1>4, <1>6 DEF PeerOK
<1>8. \A j \in 1 .. Len(history[p]) : ~ Less(m, history[p][j])
  <2>1. history[p] \in Seq(Kept(clock[p]))
    BY <1>5 DEF PeerOK
  <2>2. \A j \in 1 .. Len(history[p]) : history[p][j] \in Kept(clock[p])
    BY <2>1
  <2>. QED BY <1>2, <1>3, <1>5, <2>2, SignedIsLast DEF vc
<1>9. m \in Kept(vc)
  BY <1>2 DEF Kept
<1>10. Last(h) = m /\ EndsInAI(h, n + 1)
  <2>. DEFINE g == history[p]
              K == Kept(vc)
  <2>1. g \in Seq(K) /\ m \in K /\ m.ai /\ n \in Nat /\ EndsInAI(g, n)
    BY <1>3, <1>5, <1>7, <1>9
  <2>2. \A j \in 1 .. Len(g) : ~ Less(m, g[j])
    BY <1>8
  <2>. HIDE DEF g, K, n
  <2>3. /\ Last(Remembered(g, <<m>>)) = m
        /\ EndsInAI(Remembered(g, <<m>>), n + 1)
    BY <2>1, <2>2, RememberedLast
  <2>. QED BY <2>3 DEF g
<1>11. h \in Seq(Kept(vc)) /\ Len(h) <= MaxHistory /\ n + 1 <= Len(h)
  <2>. DEFINE b == <<m>>
  <2>1. b \in Seq(Kept(vc)) /\ Len(b) = 1
    BY <1>9
  <2>. HIDE DEF b
  <2>2. /\ Remembered(history[p], b) \in Seq(Kept(vc))
        /\ Len(Remembered(history[p], b)) =
              IF Len(history[p]) + 1 > MaxHistory THEN MaxHistory
              ELSE Len(history[p]) + 1
    BY <1>5, <1>7, <2>1, RememberedMeaning
  <2>3. HardStop \in Nat /\ MaxHistory \in Nat /\ HardStop <= MaxHistory
    BY ConstantFacts
  <2>4. Len(history[p]) \in Nat
    BY <1>7
  <2>. QED BY <1>5, <1>7, <2>2, <2>3, <2>4 DEF b
<1>. HIDE DEF h
<1>12. Idle \in TurnRecord /\ ~ Idle.on
  BY DEF Idle, TurnRecord, New, VectorClocks
<1>13. n + 1 \in Nat /\ n + 1 <= HardStop
  BY <1>5, <1>7, ConstantFacts
<1>. HIDE DEF n
<1>14. PeerOK(vc, pending[p], h, Idle, n + 1)
  BY <1>7, <1>10, <1>11, <1>12, <1>13 DEF PeerOK
<1>15. [seen[p] EXCEPT ![p] = vc[p]] \in VectorClocks
  BY <1>2, <1>5 DEF VectorClocks
<1>16. /\ seen' = [seen EXCEPT ![p] = [seen[p] EXCEPT ![p] = vc[p]]]
       /\ pending' = [pending EXCEPT ![p] = pending[p]]
       /\ sent' \subseteq Written
  BY <1>2, <1>4, <1>5 DEF ChainInv
<1>17. ChainInv'
  BY <1>2, <1>4, <1>12, <1>13, <1>14, <1>15, <1>16, OnePeer
<1>18. history'[p] = h
  BY <1>4 DEF ChainInv
<1>. QED BY <1>3, <1>4, <1>10, <1>17, <1>18

\* orchestrator.go:305-313: an unpublished reply is an AI's message too.
LEMMA UnpublishedKeeps ==
    ASSUME ChainInv, NEW p \in Peers, ReplyUnpublished(p)
    PROVE  ChainInv'
<1>. DEFINE vc == Increment(clock[p], p)
            b == <<Unpublished>>
            h == Remembered(history[p], b)
            n == chain[p]
<1>1. /\ clock[p] \in VectorClocks /\ n \in Nat /\ seen[p] \in VectorClocks
      /\ sent \subseteq Written
      /\ PeerOK(clock[p], pending[p], history[p], asking[p], n)
  BY DEF ChainInv
<1>2. vc \in VectorClocks /\ Leq(clock[p], vc)
  BY <1>1 DEF Increment, VectorClocks, Leq
<1>3. /\ clock' = [clock EXCEPT ![p] = vc] /\ seen' = [seen EXCEPT ![p] = seen[p]]
      /\ pending' = [pending EXCEPT ![p] = pending[p]]
      /\ history' = [history EXCEPT ![p] = h]
      /\ chain' = [chain EXCEPT ![p] = n]
      /\ asking' = [asking EXCEPT ![p] = Idle] /\ sent' \subseteq Written
  BY <1>1 DEF ReplyUnpublished, ChainInv
<1>. HIDE DEF vc
<1>4. PeerOK(vc, pending[p], history[p], asking[p], n)
  BY <1>1, <1>2, PeerLater
<1>5. b \in Seq(Kept(vc)) /\ Len(b) = 1 /\ \A i \in 1 .. Len(b) : b[i].ai
  BY DEF Kept, Unpublished
<1>. HIDE DEF b
<1>6. /\ h \in Seq(Kept(vc)) /\ Len(h) <= MaxHistory /\ EndsInAI(h, n)
      /\ n <= Len(h) /\ n <= HardStop
  BY <1>1, <1>4, <1>5, BatchKeeps
<1>. HIDE DEF h, n
<1>7. Idle \in TurnRecord /\ ~ Idle.on
  BY DEF Idle, TurnRecord, New, VectorClocks
<1>8. PeerOK(vc, pending[p], h, Idle, n)
  BY <1>4, <1>6, <1>7 DEF PeerOK
<1>. QED BY <1>1, <1>2, <1>3, <1>7, <1>8, OnePeer

-----------------------------------------------------------------------------
(* The theorems.                                                           *)

\* The empty room.
LEMMA ChainInitInv ==
    ASSUME ChainInit PROVE ChainInv
<1>1. New \in VectorClocks
  BY DEF New, VectorClocks
<1>2. Idle \in TurnRecord /\ ~ Idle.on
  BY <1>1 DEF Idle, TurnRecord
<1>3. HardStop \in Nat /\ MaxHistory \in Nat
  BY ConstantFacts
<1>4. ASSUME NEW p \in Peers
      PROVE  PeerOK(clock[p], pending[p], history[p], asking[p], chain[p])
  <2>1. pending[p] = << >> /\ history[p] = << >> /\ asking[p] = Idle /\ chain[p] = 0
    BY DEF ChainInit
  <2>2. /\ << >> \in Seq(CountedBy(clock[p])) /\ << >> \in Seq(Kept(clock[p]))
        /\ Len(<< >>) = 0 /\ 1 .. Len(<< >>) = {}
    OBVIOUS
  <2>3. EndsInAI(<< >>, 0)
    BY <2>2 DEF EndsInAI
  <2>. QED BY <1>2, <1>3, <2>1, <2>2, <2>3 DEF PeerOK
<1>5. << >> \in Seq(Written) /\ << >> \in Seq(Written \cup {Unpublished})
  OBVIOUS
<1>. QED BY <1>1, <1>2, <1>4, <1>5 DEF ChainInit, ChainInv

\* Every step.
LEMMA ChainNextInv ==
    ASSUME ChainInv, [ChainNext]_chainVars PROVE ChainInv'
<1>1. CASE ChainNext
  <2>1. PICK p \in Peers :
           \/ \E to \in HumanKinds : HumanWrites(p, to)
           \/ \E to \in AIKinds : Reply(p, to)
           \/ \E m \in sent : Receive(p, m) \/ Repair(p, m)
           \/ ProcessBatch(p) \/ ReplyUnpublished(p) \/ KeepSilent(p)
    BY <1>1 DEF ChainNext
  <2>2. CASE \E to \in HumanKinds : HumanWrites(p, to)
    BY <2>2, HumanWritesKeeps
  <2>3. CASE \E to \in AIKinds : Reply(p, to)
    BY <2>3, PublishedKeeps
  <2>4. CASE \E m \in sent : Receive(p, m)
    BY <2>4, ReceiveKeeps
  <2>5. CASE \E m \in sent : Repair(p, m)
    BY <2>5, RepairKeeps
  <2>6. CASE ProcessBatch(p)
    BY <2>6, ProcessKeeps
  <2>7. CASE ReplyUnpublished(p)
    BY <2>7, UnpublishedKeeps
  <2>8. CASE KeepSilent(p)
    BY <2>8, KeepSilentKeeps
  <2>. QED BY <2>1, <2>2, <2>3, <2>4, <2>5, <2>6, <2>7, <2>8
<1>2. CASE UNCHANGED chainVars
  BY <1>2 DEF chainVars, ChainInv
<1>. QED BY <1>1, <1>2

\* The invariant holds in every reachable state.
LEMMA ChainInvariance ==
    ChainSpec => []ChainInv
<1>1. ChainInit => ChainInv
  BY ChainInitInv
<1>2. ChainInv /\ [ChainNext]_chainVars => ChainInv'
  BY ChainNextInv
<1>. QED BY <1>1, <1>2, PTL DEF ChainSpec

\* orchestrator.go:718-723: histories keep to their limit.
THEOREM ChainTypeCorrect ==
    ChainSpec => []ChainTypeOK
<1>1. ChainInv => ChainTypeOK
  <2>. SUFFICES ASSUME ChainInv PROVE ChainTypeOK
    OBVIOUS
  <2>1. \A m \in sent : m.from \in Peers /\ m.ai \in BOOLEAN /\ m.to \in Kinds
    BY DEF ChainInv, Written
  <2>2. ASSUME NEW p \in Peers
        PROVE  Len(history[p]) <= MaxHistory /\ (asking[p].on => history[p] # << >>)
    <3>1. PeerOK(clock[p], pending[p], history[p], asking[p], chain[p])
      BY DEF ChainInv
    <3>2. history[p] = << >> => Len(history[p]) = 0
      OBVIOUS
    <3>. QED BY <3>1, <3>2 DEF PeerOK
  <2>. QED BY <2>1, <2>2 DEF ChainInv, ChainTypeOK
<1>. QED BY <1>1, ChainInvariance, PTL

\* orchestrator.go:224-230: no persona goes on replying without a human.
THEOREM ChainsEnd ==
    ChainSpec => []ChainBounded
<1>1. ChainInv => ChainBounded
  BY DEF ChainInv, PeerOK, ChainBounded
<1>. QED BY <1>1, ChainInvariance, PTL

\* orchestrator.go:302-314: a reply is behind all it answers.
THEOREM RepliesComeLast ==
    ChainSpec => ReplyComesLast
<1>. DEFINE A == \A p \in Peers, m \in sent' \ sent :
                    m.ai /\ m.from = p => Last(history'[p]) = m
<1>1. ASSUME ChainInv, ChainNext PROVE A
  <2>1. PICK p \in Peers :
           \/ \E to \in HumanKinds : HumanWrites(p, to)
           \/ \E to \in AIKinds : Reply(p, to)
           \/ \E m \in sent : Receive(p, m) \/ Repair(p, m)
           \/ ProcessBatch(p) \/ ReplyUnpublished(p) \/ KeepSilent(p)
    BY <1>1 DEF ChainNext
  <2>2. CASE \E to \in HumanKinds : HumanWrites(p, to)
    <3>1. PICK to \in HumanKinds : sent' = sent \cup {Signed(p, FALSE, to)}
      BY <2>2 DEF HumanWrites
    <3>2. ~ Signed(p, FALSE, to).ai
      BY DEF Signed
    <3>. QED BY <3>1, <3>2
  <2>3. CASE \E to \in AIKinds : Reply(p, to)
    <3>1. \A m \in sent' \ sent : m.from = p /\ m = Last(history'[p])
      BY <1>1, <2>3, PublishedKeeps
    <3>. QED BY <3>1
  <2>4. CASE sent' = sent
    BY <2>4
  <2>. QED BY <2>1, <2>2, <2>3, <2>4
        DEF Receive, Repair, Accept, ProcessBatch,
            ReplyUnpublished, KeepSilent
<1>2. UNCHANGED chainVars => A
  BY DEF chainVars
<1>3. ChainInv /\ [ChainNext]_chainVars => A
  BY <1>1, <1>2
<1>. QED BY <1>3, ChainInvariance, PTL DEF ChainSpec, ReplyComesLast

\* orchestrator.go:224-232, 654-716: a human's address is never held back.
THEOREM HumansAreHeard ==
    ChainSpec => HumansGetATurn
<1>. DEFINE A == \A p \in Peers :
                    LET n == Len(pending[p]) - Len(pending'[p]) IN
                    n > 0 /\ ~ pending[p][n].ai /\ pending[p][n].to \in {p, All}
                        => asking'[p].on
<1>1. ASSUME ChainInv, ChainNext PROVE A
  <2>. SUFFICES ASSUME NEW q \in Peers,
                       Len(pending[q]) - Len(pending'[q]) > 0,
                       ~ pending[q][Len(pending[q]) - Len(pending'[q])].ai,
                       pending[q][Len(pending[q]) - Len(pending'[q])].to \in {q, All}
                PROVE  asking'[q].on
    OBVIOUS
  <2>1. PICK p \in Peers :
           \/ \E to \in HumanKinds : HumanWrites(p, to)
           \/ \E to \in AIKinds : Reply(p, to)
           \/ \E m \in sent : Receive(p, m) \/ Repair(p, m)
           \/ ProcessBatch(p) \/ ReplyUnpublished(p) \/ KeepSilent(p)
    BY <1>1 DEF ChainNext
  <2>2. pending \in [Peers -> Seq(Written)] /\ pending[q] \in Seq(Written)
        /\ Len(pending[q]) \in Nat
    BY <1>1 DEF ChainInv
  <2>3. ASSUME NEW m, pending' = [pending EXCEPT ![p] = Append(@, m)] PROVE FALSE
    <3>1. pending'[q] = pending[q] \/ pending'[q] = Append(pending[q], m)
      BY <2>2, <2>3
    <3>2. Len(pending'[q]) >= Len(pending[q])
      BY <2>2, <3>1
    <3>. QED BY <2>2, <3>1, <3>2
  <2>4. ASSUME pending' = pending PROVE FALSE
    BY <2>2, <2>4
  <2>5. ProcessBatch(p)
    BY <2>1, <2>3, <2>4
       DEF HumanWrites, Reply, Receive, Repair,
           ReplyUnpublished, KeepSilent
  <2>6. PICK n \in 1 .. Len(pending[p]) :
          /\ pending' = [pending EXCEPT ![p] = SubSeq(@, n + 1, Len(@))]
          /\ \E d : \E respond \in Eligible(SubSeq(pending[p], 1, n)[n], d, p) :
                asking' = [asking EXCEPT ![p] =
                    IF respond
                    THEN Turn(MustReply(SubSeq(pending[p], 1, n)[n], p), clock[p])
                    ELSE Idle]
    BY <2>5 DEF ProcessBatch
  <2>7. q = p
    BY <2>2, <2>6
  <2>8. /\ Len(SubSeq(pending[p], n + 1, Len(pending[p]))) = Len(pending[p]) - n
        /\ SubSeq(pending[p], 1, n)[n] = pending[p][n]
    <3>. DEFINE s == pending[p]
    <3>1. s \in Seq(Written) /\ Len(s) \in Nat /\ n \in 1 .. Len(s)
      BY <2>2, <2>7
    <3>. HIDE DEF s
    <3>2. /\ n + 1 \in 1 .. Len(s) + 1 /\ Len(s) \in (n + 1) - 1 .. Len(s)
          /\ 1 \in 1 .. Len(s) + 1 /\ n \in 1 - 1 .. Len(s)
      BY <3>1
    <3>3. Len(SubSeq(s, n + 1, Len(s))) = Len(s) - n /\ SubSeq(s, 1, n)[n] = s[n]
      BY <3>1, <3>2, SubSeqProperties
    <3>. QED BY <3>3 DEF s
  <2>9. pending'[p] = SubSeq(pending[p], n + 1, Len(pending[p]))
    BY <2>2, <2>6
  <2>10. Len(pending[q]) - Len(pending'[q]) = n
    BY <2>2, <2>6, <2>7, <2>8, <2>9
  <2>. DEFINE latest == SubSeq(pending[p], 1, n)[n]
  <2>11. ~ latest.ai /\ latest.to \in {p, All}
    BY <2>7, <2>8, <2>10
  <2>12. PICK d : \E respond \in Eligible(latest, d, p) :
            asking' = [asking EXCEPT ![p] =
                IF respond THEN Turn(MustReply(latest, p), clock[p])
                ELSE Idle]
    BY <2>6
  <2>. HIDE DEF latest
  <2>13. All \notin Peers
    BY ConstantFacts DEF All
  <2>14. Eligible(latest, d, p) = {TRUE}
    BY <2>11, <2>13 DEF Eligible, HardStopped, ForOthers, MayRespond
  <2>15. asking'[p] = Turn(MustReply(latest, p), clock[p])
    BY <1>1, <2>12, <2>14 DEF ChainInv
  <2>. QED BY <2>7, <2>15 DEF Turn
<1>2. ChainInv /\ UNCHANGED chainVars => A
  <2>. SUFFICES ASSUME ChainInv, UNCHANGED chainVars, NEW p \in Peers
                PROVE  ~ (Len(pending[p]) - Len(pending'[p]) > 0)
    OBVIOUS
  <2>1. pending' = pending /\ Len(pending[p]) \in Nat
    BY DEF chainVars, ChainInv
  <2>. QED BY <2>1
<1>3. ChainInv /\ [ChainNext]_chainVars => A
  BY <1>1, <1>2
<1>. QED BY <1>3, ChainInvariance, PTL DEF ChainSpec, HumansGetATurn
=============================================================================
