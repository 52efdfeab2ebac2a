--------------------------- MODULE ApprovalsProofs ---------------------------
(* Approvals for every set of keys and rules and every number of prompts    *)
(* and questions: the screen's question is the one awaited, and no call     *)
(* runs that its question, "Always" or the rules did not allow.             *)
EXTENDS Approvals, TLAPS

USE ApprovalsAssumption DEF ApprovalsAssumption

Ended(m) == m.kind \in {"done", "shelldone"}

(* appModel.running covers a run or a shell escape from its start until     *)
(* Update takes the message of its end: there is one of them at a time.     *)
OneAtATime ==
  /\ \A r, s \in Run : agent[r] # "none" /\ agent[s] # "none" => r = s
  /\ \A r \in Run : agent[r] # "none" => running /\ shell = 0
  /\ shell # 0 => running
  /\ \A m \in inbox :
       Ended(m) => running /\ shell = 0 /\ \A r \in Run : agent[r] = "none"
  /\ \A m, n \in inbox : Ended(m) /\ Ended(n) => m = n

(* A goroutine waits for the last question it asked, which is in the inbox, *)
(* on the screen or answered.                                               *)
Waiting ==
  /\ \A r \in Run : agent[r] \in {"ask", "blocked"} <=> waits[r] # 0
  /\ \A r \in Run : waits[r] <= asked
  /\ \A r \in Run :
       agent[r] = "ask" => reply[waits[r]] = "none" /\ answer[waits[r]] = "none"
  /\ \A m \in inbox :
       m.kind = "request" => \E r \in Run : agent[r] = "ask" /\ waits[r] = m.of
  /\ approving <=> slot # 0
  /\ approving => reply[slot] = "none"

Asked ==
  /\ \A q \in Question : q > asked => reply[q] = "none" /\ answer[q] = "none"
  /\ \A q \in Question : q <= asked => about[q] \in Key /\ BuiltIn[about[q]] = "prompt"

(* Until the user quits, a choice under way is for the question shown, and  *)
(* what was sent and learned is what was chosen.                            *)
Answers ==
  /\ ~quitting => \A m \in inbox :
       m.kind = "selected" => approving /\ m.of = slot /\ answer[slot] = m.what
  /\ ~quitting => \A q \in Question : reply[q] = "yes" => answer[q] \in {"yes", "always"}
  /\ ~quitting => remembered \subseteq always /\ promoted \subseteq always
  /\ \A q \in Question : answer[q] = "always" => ToolOf[about[q]] \in always
  /\ \A c \in ran : c.by # 0 => c.by <= asked

IInv ==
  TypeOK /\ OneAtATime /\ Waiting /\ QuestionIsAwaited /\ Asked /\ Answers /\ RunsByRight
-----------------------------------------------------------------------------
LEMMA MessageType ==
  ASSUME NEW m \in Message
  PROVE  /\ m.kind \in {"submit", "result"} => m.what \in Entry /\ m.of \in Run
         /\ m.kind = "request" => m.of \in Question
         /\ m.kind = "selected" => m.what \in Choice /\ m.of \in Question
  BY DEF Message

LEMMA InitIInv == Init => IInv
<1>. SUFFICES ASSUME Init PROVE IInv  OBVIOUS
<1>1. TypeOK
  <2>1. count \in [Tool -> 0 .. PromoteThreshold - 1]  BY DEF Init
  <2>2. agent \in [Run -> {"none", "turn", "ask", "blocked"}] /\ waits \in [Run -> {0} \cup Question]
    BY DEF Init
  <2>3. /\ about \in [Question -> Key \cup {"none"}]
        /\ reply \in [Question -> {"none", "yes", "no"}]
        /\ answer \in [Question -> {"none"} \cup Choice]
    BY DEF Init
  <2>4. entered \in 0 .. MaxSubmits /\ asked \in 0 .. MaxPrompts  BY DEF Init
  <2>. QED  BY <2>1, <2>2, <2>3, <2>4 DEF Init, TypeOK
<1>2. OneAtATime  BY DEF Init, OneAtATime
<1>3. Waiting /\ QuestionIsAwaited  BY DEF Init, Waiting, QuestionIsAwaited
<1>4. Asked /\ Answers /\ RunsByRight
  <2>1. \A q \in Question : reply[q] = "none" /\ answer[q] = "none"  BY DEF Init
  <2>2. asked = 0 /\ \A q \in Question : q > 0  BY DEF Init, Question
  <2>. QED  BY <2>1, <2>2 DEF Init, Asked, Answers, RunsByRight, Question
<1>. QED  BY <1>1, <1>2, <1>3, <1>4 DEF IInv

LEMMA EnterStep ==
  ASSUME IInv, NEW what \in Entry, Enter(what)
  PROVE  IInv'
<1>. USE DEF IInv
<1>0. DEFINE m0 == [kind |-> "submit", what |-> what, of |-> entered + 1]
<1>1. inbox' = inbox \cup {m0} /\ m0 \in Message /\ m0.kind = "submit" /\ entered' \in 0 .. MaxSubmits
  BY DEF Enter, TypeOK, Message, Run
<1>. HIDE DEF m0
<1>2. UNCHANGED <<screen, goroutines, questions, rules, history>>  BY DEF Enter
<1>. USE DEF screen, typed, overlay, goroutines, questions, rules, history
<1>3. TypeOK'  BY <1>1, <1>2 DEF TypeOK
<1>4. OneAtATime'  BY <1>1, <1>2 DEF OneAtATime, Ended
<1>5. Waiting' /\ QuestionIsAwaited'  BY <1>1, <1>2 DEF Waiting, QuestionIsAwaited
<1>6. Asked' /\ Answers'  BY <1>1, <1>2 DEF Asked, Answers
<1>7. RunsByRight'  BY <1>2 DEF RunsByRight, Rightful
<1>. QED  BY <1>3, <1>4, <1>5, <1>6, <1>7

(* What may start a run finds nothing running and no question open.         *)
LEMMA Idle ==
  ASSUME IInv, MayStart
  PROVE  /\ \A r \in Run : agent[r] = "none" /\ waits[r] = 0
         /\ shell = 0 /\ ~running /\ ~approving
         /\ \A m \in inbox : ~Ended(m) /\ m.kind # "request"
<1>1. \A r \in Run : agent[r] = "none"  BY DEF IInv, OneAtATime, MayStart
<1>2. \A r \in Run : waits[r] = 0  BY <1>1 DEF IInv, Waiting
<1>3. shell = 0 /\ \A m \in inbox : ~Ended(m)  BY DEF IInv, OneAtATime, MayStart
<1>4. ~approving  BY <1>1 DEF IInv, QuestionIsAwaited
<1>5. \A m \in inbox : m.kind # "request"  BY <1>1 DEF IInv, Waiting
<1>. QED  BY <1>1, <1>2, <1>3, <1>4, <1>5 DEF MayStart

LEMMA SubmittedStep ==
  ASSUME IInv, NEW m \in inbox, Submitted(m)
  PROVE  IInv'
<1>. USE DEF IInv
<1>1. m \in Message /\ m.kind = "submit" /\ m.what \in Entry /\ m.of \in Run
  BY MessageType DEF Submitted, TypeOK
<1>2. /\ inbox' \subseteq Message
      /\ \A n \in inbox' : n \in inbox \/ n.kind = "result"
  <2>1. [kind |-> "result", what |-> m.what, of |-> m.of] \in Message  BY <1>1 DEF Message
  <2>. QED  BY <2>1 DEF Submitted, TypeOK
<1>3. \/ running' = running /\ agent' = agent /\ shell' = shell
      \/ MayStart /\ running' = TRUE /\ agent' = [agent EXCEPT ![m.of] = "turn"] /\ shell' = shell
      \/ MayStart /\ running' = TRUE /\ agent' = agent /\ shell' = m.of
  BY DEF Submitted, Start
<1>4. skills' \in BOOLEAN /\ lastPrompt' \in BOOLEAN
  BY DEF Submitted, Start, typed, TypeOK
<1>5. UNCHANGED <<loop, overlay, entered, waits, questions, rules, history>>  BY DEF Submitted
<1>. USE DEF overlay, questions, rules, history
<1>6. TypeOK'
  <2>1. agent' \in [Run -> {"none", "turn", "ask", "blocked"}] /\ running' \in BOOLEAN
    BY <1>1, <1>3 DEF TypeOK
  <2>2. shell' \in {0} \cup Run  BY <1>1, <1>3 DEF TypeOK
  <2>. QED  BY <1>2, <1>4, <1>5, <2>1, <2>2 DEF TypeOK
<1>7. OneAtATime'
  <2>1. \A n \in inbox' : Ended(n) => n \in inbox  BY <1>2 DEF Ended
  <2>2. CASE running' = running /\ agent' = agent /\ shell' = shell
    BY <2>1, <2>2 DEF OneAtATime
  <2>3. CASE MayStart /\ running' = TRUE /\ agent' = [agent EXCEPT ![m.of] = "turn"] /\ shell' = shell
    BY <1>1, <2>1, <2>3, Idle DEF OneAtATime, TypeOK
  <2>4. CASE MayStart /\ running' = TRUE /\ agent' = agent /\ shell' = m.of
    BY <1>1, <2>1, <2>4, Idle DEF OneAtATime
  <2>. QED  BY <1>3, <2>2, <2>3, <2>4
<1>8. Waiting' /\ QuestionIsAwaited'
  <2>1. \A n \in inbox' : n.kind = "request" => n \in inbox  BY <1>2
  <2>2. CASE agent' = agent
    BY <1>5, <2>1, <2>2 DEF Waiting, QuestionIsAwaited
  <2>3. CASE MayStart /\ agent' = [agent EXCEPT ![m.of] = "turn"]
    <3>1. \A r \in Run : agent'[r] \in {"none", "turn"} /\ waits'[r] = 0
      BY <1>1, <1>5, <2>3, Idle DEF TypeOK
    <3>. QED  BY <1>5, <2>1, <2>3, <3>1, Idle DEF Waiting, QuestionIsAwaited
  <2>. QED  BY <1>3, <2>2, <2>3
<1>9. Asked' /\ Answers'  BY <1>2, <1>5 DEF Asked, Answers
<1>10. RunsByRight'  BY <1>5 DEF RunsByRight, Rightful
<1>. QED  BY <1>6, <1>7, <1>8, <1>9, <1>10

(* drainApproval, by Ctrl+C or /quit, leaves no question open.              *)
LEMMA DrainStep ==
  ASSUME IInv, Drain, quitting' = TRUE,
         inbox' \subseteq inbox \cup {[kind |-> "quit"]},
         UNCHANGED <<loop, running, typed, entered, goroutines, asked, about, rules,
                     answer, always, ran>>
  PROVE  IInv'
<1>. USE DEF IInv, goroutines, typed, rules
<1>1. ~approving' /\ approving' \in BOOLEAN /\ slot' = 0
  <2>1. approving \in BOOLEAN /\ (approving <=> slot # 0)  BY DEF TypeOK, Waiting
  <2>2. CASE approving /\ slot # 0  BY <2>2 DEF Drain
  <2>3. CASE ~(approving /\ slot # 0)
    <3>1. approving' = approving /\ slot' = slot  BY <2>3 DEF Drain, overlay
    <3>2. slot = 0 /\ ~approving  BY <2>1, <2>3
    <3>. QED  BY <2>1, <3>1, <3>2
  <2>. QED  BY <2>2, <2>3
<1>2. /\ reply' \in [Question -> {"none", "yes", "no"}]
      /\ \A q \in Question : q # slot \/ ~approving => reply'[q] = reply[q]
      /\ approving => slot \in Question /\ reply'[slot] = "no"
  BY DEF Drain, TypeOK, Waiting, overlay
<1>3. [kind |-> "quit"] \in Message  BY DEF Message
<1>4. \A n \in inbox' : n \in inbox \/ n.kind = "quit"  OBVIOUS
<1>5. approving => \E r \in Run : agent[r] = "blocked" /\ waits[r] = slot
  BY DEF QuestionIsAwaited
<1>6. TypeOK'
  <2>1. inbox' \subseteq Message  BY <1>3 DEF TypeOK
  <2>. QED  BY <1>1, <1>2, <2>1 DEF TypeOK
<1>7. OneAtATime'  BY <1>4 DEF OneAtATime, Ended
<1>8. Waiting'
  <2>1. ASSUME NEW r \in Run, agent[r] = "ask"
        PROVE  reply'[waits[r]] = "none"
    <3>1. waits[r] \in Question /\ reply[waits[r]] = "none"  BY <2>1 DEF Waiting, TypeOK
    <3>2. ~approving  BY <1>5, <2>1 DEF OneAtATime
    <3>. QED  BY <1>2, <3>1, <3>2
  <2>. QED  BY <1>1, <1>4, <2>1 DEF Waiting
<1>9. QuestionIsAwaited'
  <2>1. ASSUME NEW r \in Run, agent[r] = "blocked", reply'[waits[r]] = "none"
        PROVE  FALSE
    <3>1. waits[r] \in Question  BY <2>1 DEF Waiting, TypeOK
    <3>2. CASE reply[waits[r]] = "none"
      BY <1>2, <2>1, <3>1, <3>2 DEF QuestionIsAwaited
    <3>3. CASE reply[waits[r]] # "none"  BY <1>2, <2>1, <3>1, <3>3 DEF Waiting
    <3>. QED  BY <3>2, <3>3
  <2>. QED  BY <1>1, <2>1 DEF QuestionIsAwaited
<1>10. Asked'
  <2>1. approving => slot <= asked  BY <1>5 DEF Waiting
  <2>. QED  BY <1>2, <2>1 DEF Asked, TypeOK, Question
<1>11. Answers'  BY DEF Answers
<1>12. RunsByRight'  BY DEF RunsByRight, Rightful
<1>. QED  BY <1>6, <1>7, <1>8, <1>9, <1>10, <1>11, <1>12

LEMMA CtrlCStep ==
  ASSUME IInv, CtrlC
  PROVE  IInv'
  BY DrainStep DEF CtrlC

LEMMA ReturnedStep ==
  ASSUME IInv, NEW m \in inbox, Returned(m)
  PROVE  IInv'
<1>1. CASE m.what = "exit"
  <2>1. UNCHANGED <<loop, running, typed, entered, goroutines, asked, about, rules,
                    answer, always, ran>>
    BY <1>1 DEF Returned, typed, goroutines
  <2>. QED  BY <1>1, <2>1, DrainStep DEF Returned
<1>2. CASE m.what # "exit"
  <2>. USE DEF IInv
  <2>1. m \in Message /\ m.of \in Run  BY MessageType DEF Returned, TypeOK
  <2>2. /\ inbox' \subseteq Message
        /\ \A n \in inbox' : n \in inbox \/ n.kind = "submit"
    <3>1. [kind |-> "submit", what |-> "task", of |-> m.of] \in Message
      BY <2>1 DEF Message, Entry
    <3>. QED  BY <1>2, <3>1 DEF Returned, TypeOK
  <2>3. \/ running' = running /\ agent' = agent
        \/ MayStart /\ running' = TRUE /\ agent' = [agent EXCEPT ![m.of] = "turn"]
    BY <1>2 DEF Returned, Start
  <2>4. skills' \in BOOLEAN  BY <1>2 DEF Returned, Start, TypeOK
  <2>5. UNCHANGED <<loop, lastPrompt, overlay, entered, waits, shell, questions, rules, history>>
    BY <1>2 DEF Returned, questions, history
  <2>. USE DEF overlay, questions, rules, history
  <2>6. TypeOK'
    <3>1. agent' \in [Run -> {"none", "turn", "ask", "blocked"}] /\ running' \in BOOLEAN
      BY <2>1, <2>3 DEF TypeOK
    <3>. QED  BY <2>2, <2>4, <2>5, <3>1 DEF TypeOK
  <2>7. OneAtATime'
    <3>1. \A n \in inbox' : Ended(n) => n \in inbox  BY <2>2 DEF Ended
    <3>2. CASE running' = running /\ agent' = agent  BY <2>5, <3>1, <3>2 DEF OneAtATime
    <3>3. CASE MayStart /\ running' = TRUE /\ agent' = [agent EXCEPT ![m.of] = "turn"]
      BY <2>1, <2>5, <3>1, <3>3, Idle DEF OneAtATime, TypeOK
    <3>. QED  BY <2>3, <3>2, <3>3
  <2>8. Waiting' /\ QuestionIsAwaited'
    <3>1. \A n \in inbox' : n.kind = "request" => n \in inbox  BY <2>2
    <3>2. CASE agent' = agent  BY <2>5, <3>1, <3>2 DEF Waiting, QuestionIsAwaited
    <3>3. CASE MayStart /\ agent' = [agent EXCEPT ![m.of] = "turn"]
      <4>1. \A r \in Run : agent'[r] \in {"none", "turn"} /\ waits'[r] = 0
        BY <2>1, <2>5, <3>3, Idle DEF TypeOK
      <4>. QED  BY <2>5, <3>1, <3>3, <4>1, Idle DEF Waiting, QuestionIsAwaited
    <3>. QED  BY <2>3, <3>2, <3>3
  <2>9. Asked' /\ Answers'  BY <2>2, <2>5 DEF Asked, Answers
  <2>10. RunsByRight'  BY <2>5 DEF RunsByRight, Rightful
  <2>. QED  BY <2>6, <2>7, <2>8, <2>9, <2>10
<1>. QED  BY <1>1, <1>2

LEMMA RequestedStep ==
  ASSUME IInv, NEW m \in inbox, Requested(m)
  PROVE  IInv'
<1>. USE DEF IInv
<1>1. m.of \in Question  BY MessageType DEF Requested, TypeOK
<1>2. PICK r \in Run : agent[r] = "ask" /\ waits[r] = m.of
  BY DEF Requested, Waiting
<1>3. /\ agent' = [s \in Run |-> IF waits[s] = m.of THEN "blocked" ELSE agent[s]]
      /\ approving' = TRUE /\ slot' = m.of /\ inbox' = inbox \ {m}
      /\ UNCHANGED <<loop, running, typed, entered, waits, shell, questions, rules, history>>
  BY DEF Requested
<1>. USE DEF typed, questions, rules, history
<1>4. \A s \in Run : s # r => agent[s] = "none" /\ waits[s] = 0
  BY <1>2 DEF OneAtATime, Waiting
<1>5. agent'[r] = "blocked" /\ \A s \in Run : s # r => agent'[s] = "none"
  BY <1>1, <1>2, <1>3, <1>4 DEF Question
<1>6. ~approving
  BY <1>2, <1>4 DEF QuestionIsAwaited
<1>7. reply[m.of] = "none" /\ answer[m.of] = "none"  BY <1>2 DEF Waiting
<1>8. TypeOK'  BY <1>1, <1>3 DEF TypeOK
<1>9. OneAtATime'  BY <1>2, <1>3, <1>4, <1>5 DEF OneAtATime
<1>10. Waiting'
  <2>1. \A n \in inbox' : n.kind = "request" => n.of = m.of
    BY <1>2, <1>3, <1>4 DEF Waiting
  <2>2. \A n \in inbox' : n.kind # "request"
    <3>1. SUFFICES ASSUME NEW n \in inbox', n.kind = "request" PROVE FALSE  OBVIOUS
    <3>2. n \in inbox /\ n # m  BY <1>3
    <3>3. n \in Message /\ m \in Message /\ m.kind = "request" /\ n.of = m.of
      BY <2>1, <3>1, <3>2 DEF TypeOK, Requested
    <3>4. n = [kind |-> "request", of |-> n.of] /\ m = [kind |-> "request", of |-> m.of]
      BY <3>1, <3>3 DEF Message
    <3>. QED  BY <3>2, <3>3, <3>4
  <2>3. slot' # 0  BY <1>1, <1>3 DEF Question
  <2>4. waits[r] # 0  BY <1>1, <1>2 DEF Question
  <2>. QED  BY <1>2, <1>3, <1>4, <1>5, <1>7, <2>2, <2>3, <2>4 DEF Waiting
<1>11. QuestionIsAwaited'  BY <1>2, <1>3, <1>5 DEF QuestionIsAwaited
<1>12. Asked' /\ Answers'  BY <1>3, <1>6 DEF Asked, Answers
<1>13. RunsByRight'  BY <1>3 DEF RunsByRight, Rightful
<1>. QED  BY <1>8, <1>9, <1>10, <1>11, <1>12, <1>13

LEMMA ChooseStep ==
  ASSUME IInv, NEW choice \in Choice, Choose(choice)
  PROVE  IInv'
<1>. USE DEF IInv
<1>0. DEFINE m0 == [kind |-> "selected", what |-> choice, of |-> slot]
<1>1. slot \in Question /\ slot <= asked /\ approving /\ answer[slot] = "none"
  BY DEF Choose, TypeOK, QuestionIsAwaited, Waiting
<1>2. about[slot] \in Key  BY <1>1 DEF Asked
<1>3. /\ inbox' = inbox \cup {m0} /\ m0 \in Message /\ m0.kind = "selected"
      /\ m0.of = slot /\ m0.what = choice
  BY <1>1 DEF Choose, Message
<1>. HIDE DEF m0
<1>4. /\ answer' = [answer EXCEPT ![slot] = choice]
      /\ always' = IF choice = "always" THEN always \cup {ToolOf[about[slot]]} ELSE always
      /\ UNCHANGED <<screen, entered, goroutines, questions, rules, ran, quitting>>
  BY DEF Choose
<1>. USE DEF screen, typed, overlay, goroutines, questions, rules
<1>5. answer'[slot] = choice /\ \A q \in Question : q # slot => answer'[q] = answer[q]
  BY <1>1, <1>4 DEF TypeOK
<1>6. TypeOK'
  <2>1. answer' \in [Question -> {"none"} \cup Choice]  BY <1>1, <1>4 DEF TypeOK
  <2>2. always' \subseteq Tool /\ always \subseteq always'  BY <1>2, <1>4 DEF TypeOK, Tool
  <2>. QED  BY <1>3, <1>4, <2>1, <2>2 DEF TypeOK
<1>7. OneAtATime'  BY <1>3, <1>4 DEF OneAtATime, Ended
<1>8. Waiting' /\ QuestionIsAwaited'
  <2>1. \A r \in Run : agent[r] # "ask"  BY <1>1 DEF QuestionIsAwaited, OneAtATime
  <2>. QED  BY <1>3, <1>4, <2>1 DEF Waiting, QuestionIsAwaited
<1>9. Asked'  BY <1>1, <1>4, <1>5 DEF Asked, TypeOK, Question
<1>10. Answers'
  <2>1. ASSUME ~quitting
        PROVE  \A m \in inbox' :
                 m.kind = "selected" => approving /\ m.of = slot /\ answer'[slot] = m.what
    <3>1. \A m \in inbox : m.kind # "selected"
      <4>1. SUFFICES ASSUME NEW m \in inbox, m.kind = "selected" PROVE FALSE  OBVIOUS
      <4>2. answer[slot] = m.what  BY <2>1, <4>1 DEF Answers
      <4>3. m.what \in Choice  BY <4>1, MessageType DEF TypeOK
      <4>. QED  BY <1>1, <4>2, <4>3 DEF Choice
    <3>. QED  BY <1>1, <1>3, <1>5, <3>1
  <2>2. ASSUME ~quitting, NEW q \in Question, reply[q] = "yes"
        PROVE  answer'[q] \in {"yes", "always"}
    BY <1>1, <1>5, <2>2 DEF Answers, Waiting
  <2>3. \A q \in Question : answer'[q] = "always" => ToolOf[about[q]] \in always'
    BY <1>4, <1>5 DEF Answers
  <2>4. always \subseteq always'  BY <1>4
  <2>. QED  BY <1>4, <2>1, <2>2, <2>3, <2>4 DEF Answers
<1>11. RunsByRight'
  <2>1. ASSUME NEW c \in ran, ~c.late  PROVE Rightful(c)'
    <3>1. Rightful(c)  BY <2>1 DEF RunsByRight
    <3>2. always \subseteq always' /\ about' = about  BY <1>4
    <3>3. c.by \in {0} \cup Question  BY <2>1 DEF TypeOK
    <3>4. c.by # 0 => answer'[c.by] = answer[c.by] \/ answer[c.by] = "none"
      BY <1>1, <1>5, <3>3
    <3>. QED  BY <3>1, <3>2, <3>4 DEF Rightful
  <2>. QED  BY <1>4, <2>1 DEF RunsByRight
<1>. QED  BY <1>6, <1>7, <1>8, <1>9, <1>10, <1>11

(* A SelectedMsg answers its question, is dropped after Ctrl+C, or, while   *)
(* the program quits, answers the question that follows: Update never       *)
(* blocks on it.                                                            *)
LEMMA SelectedStep ==
  ASSUME IInv, NEW m \in inbox, Selected(m)
  PROVE  IInv'
<1>. USE DEF IInv
<1>1. /\ m \in Message /\ m.kind = "selected" /\ inbox' = inbox \ {m}
      /\ UNCHANGED <<entered, goroutines, asked, about, history>>
  BY DEF Selected, TypeOK
<1>2. m.what \in Choice /\ m.of \in Question  BY <1>1, MessageType
<1>. USE DEF screen, typed, overlay, goroutines, questions, rules, history
<1>3. CASE ~Expected
  <2>1. UNCHANGED <<screen, reply, rules>>  BY <1>3 DEF Selected
  <2>2. TypeOK'  BY <1>1, <2>1 DEF TypeOK
  <2>3. OneAtATime'  BY <1>1, <2>1 DEF OneAtATime
  <2>4. Waiting' /\ QuestionIsAwaited'
    <3>1. Waiting'  BY <1>1, <2>1 DEF Waiting
    <3>. QED  BY <1>1, <2>1, <3>1 DEF QuestionIsAwaited
  <2>5. Asked' /\ Answers'  BY <1>1, <2>1 DEF Asked, Answers
  <2>6. RunsByRight'  BY <1>1 DEF RunsByRight, Rightful
  <2>. QED  BY <2>2, <2>3, <2>4, <2>5, <2>6
<1>4. CASE Expected
  <2>1. approving /\ slot \in Question /\ slot # 0 /\ reply[slot] = "none"
    BY <1>4 DEF Expected, Waiting, TypeOK
  <2>2. PICK r \in Run : agent[r] = "blocked" /\ waits[r] = slot
    BY <2>1 DEF QuestionIsAwaited
  <2>3. slot <= asked  BY <2>2 DEF Waiting
  <2>4. /\ \/ m.what = "always" /\ Learn(ToolOf[about[slot]])
           \/ m.what # "always" /\ UNCHANGED rules
        /\ reply' = [reply EXCEPT ![slot] = Sends(m.what)]
        /\ slot' = 0 /\ approving' = FALSE /\ UNCHANGED <<loop, running, typed>>
    BY <1>4, <2>1 DEF Selected, HasRoom
  <2>5. /\ reply' \in [Question -> {"none", "yes", "no"}]
        /\ reply'[slot] = Sends(m.what)
        /\ \A q \in Question : q # slot => reply'[q] = reply[q]
    BY <2>1, <2>4 DEF TypeOK, Sends
  <2>6. ToolOf[about[slot]] \in Tool  BY <2>1, <2>3 DEF Asked, Tool
  <2>7. /\ remembered' \subseteq remembered \cup {ToolOf[about[slot]]}
        /\ promoted' \subseteq promoted \cup {ToolOf[about[slot]]}
        /\ m.what # "always" => remembered' = remembered /\ promoted' = promoted
    BY <2>4 DEF Learn
  <2>8. count' \in [Tool -> 0 .. PromoteThreshold - 1]
    <3>1. CASE m.what # "always"  BY <2>4, <3>1 DEF TypeOK
    <3>2. CASE Learn(ToolOf[about[slot]])
      <4>1. count[ToolOf[about[slot]]] \in 0 .. PromoteThreshold - 1  BY <2>6 DEF TypeOK
      <4>2. CASE Promotes(ToolOf[about[slot]])
        <5>1. count' = [count EXCEPT ![ToolOf[about[slot]]] = 0]  BY <3>2, <4>2 DEF Learn
        <5>2. 0 \in 0 .. PromoteThreshold - 1  OBVIOUS
        <5>. QED  BY <5>1, <5>2 DEF TypeOK
      <4>3. CASE ~Promotes(ToolOf[about[slot]])
        <5>1. count' = [count EXCEPT ![ToolOf[about[slot]]] = @ + 1]
          BY <3>2, <4>3 DEF Learn
        <5>2. count[ToolOf[about[slot]]] + 1 \in 0 .. PromoteThreshold - 1
          BY <4>1, <4>3 DEF Promotes
        <5>. QED  BY <5>1, <5>2 DEF TypeOK
      <4>. QED  BY <4>2, <4>3
    <3>. QED  BY <2>4, <3>1, <3>2
  <2>9. TypeOK'
    <3>1. remembered' \subseteq Tool /\ promoted' \subseteq Tool  BY <2>6, <2>7 DEF TypeOK
    <3>. QED  BY <1>1, <2>4, <2>5, <2>8, <3>1 DEF TypeOK
  <2>10. OneAtATime'  BY <1>1, <2>4 DEF OneAtATime
  <2>11. \A s \in Run : s # r => agent[s] = "none" /\ waits[s] = 0
    BY <2>2 DEF OneAtATime, Waiting
  <2>12. Waiting'
    <3>1. \A s \in Run : agent'[s] # "ask"  BY <1>1, <2>2, <2>11
    <3>2. \A n \in inbox' : n.kind # "request"  BY <1>1, <3>1 DEF Waiting
    <3>. QED  BY <1>1, <2>4, <3>1, <3>2 DEF Waiting
  <2>13. QuestionIsAwaited'
    <3>1. reply'[slot] # "none"  BY <2>5 DEF Sends
    <3>. QED  BY <1>1, <2>2, <2>4, <2>11, <3>1 DEF QuestionIsAwaited
  <2>14. Asked'
    <3>1. asked \in Nat /\ \A q \in Question : q > asked => q # slot
      BY <2>1, <2>3 DEF TypeOK, Question
    <3>2. \A q \in Question : q > asked => reply'[q] = "none" /\ answer[q] = "none"
      BY <2>5, <3>1 DEF Asked
    <3>. QED  BY <1>1, <3>2 DEF Asked
  <2>15. Answers'
    <3>1. ASSUME ~quitting
          PROVE  m.of = slot /\ answer[slot] = m.what
      BY <1>1, <3>1 DEF Answers
    <3>2. ASSUME ~quitting, NEW n \in inbox', n.kind = "selected"
          PROVE  FALSE
      <4>1. n \in inbox /\ n # m /\ n \in Message  BY <1>1, <3>2 DEF TypeOK
      <4>2. n.of = m.of /\ n.what = m.what  BY <3>1, <3>2, <4>1 DEF Answers
      <4>3. n = [kind |-> "selected", what |-> n.what, of |-> n.of]
        BY <3>2, <4>1 DEF Message
      <4>4. m = [kind |-> "selected", what |-> m.what, of |-> m.of]
        BY <1>1 DEF Message
      <4>. QED  BY <4>1, <4>2, <4>3, <4>4
    <3>3. ASSUME ~quitting, NEW q \in Question, reply'[q] = "yes"
          PROVE  answer[q] \in {"yes", "always"}
      <4>1. CASE q = slot  BY <2>5, <3>1, <3>3, <4>1 DEF Sends, Allows
      <4>2. CASE q # slot  BY <2>5, <3>3, <4>2 DEF Answers
      <4>. QED  BY <4>1, <4>2
    <3>4. ASSUME ~quitting
          PROVE  remembered' \subseteq always /\ promoted' \subseteq always
      <4>1. m.what = "always" => ToolOf[about[slot]] \in always
        BY <2>1, <3>1, <3>4 DEF Answers
      <4>. QED  BY <2>7, <3>4, <4>1 DEF Answers
    <3>. QED  BY <1>1, <3>2, <3>3, <3>4 DEF Answers
  <2>16. RunsByRight'  BY <1>1 DEF RunsByRight, Rightful
  <2>. QED  BY <2>9, <2>10, <2>12, <2>13, <2>14, <2>15, <2>16
<1>. QED  BY <1>3, <1>4

LEMMA FinishedStep ==
  ASSUME IInv, NEW m \in inbox, Finished(m)
  PROVE  IInv'
<1>. USE DEF IInv
<1>1. /\ Ended(m) /\ running' = FALSE /\ inbox' = inbox \ {m}
      /\ UNCHANGED <<loop, typed, overlay, entered, goroutines, questions, rules, history>>
  BY DEF Finished, Ended
<1>. USE DEF typed, overlay, goroutines, questions, rules, history
<1>2. TypeOK'  BY <1>1 DEF TypeOK
<1>3. OneAtATime'
  <2>1. shell = 0 /\ \A r \in Run : agent[r] = "none"  BY <1>1 DEF OneAtATime
  <2>2. \A n \in inbox' : ~Ended(n)  BY <1>1 DEF OneAtATime
  <2>. QED  BY <1>1, <2>1, <2>2 DEF OneAtATime
<1>4. Waiting'  BY <1>1 DEF Waiting
<1>5. QuestionIsAwaited'  BY <1>1 DEF QuestionIsAwaited
<1>6. Asked' /\ Answers'  BY <1>1 DEF Asked, Answers
<1>7. RunsByRight'  BY <1>1 DEF RunsByRight, Rightful
<1>. QED  BY <1>2, <1>3, <1>4, <1>5, <1>6, <1>7

LEMMA QuitStep ==
  ASSUME IInv, NEW m \in inbox, Quit(m)
  PROVE  IInv'
<1>. USE DEF IInv
<1>1. /\ loop' = "off" /\ inbox' = inbox \ {m}
      /\ UNCHANGED <<running, typed, overlay, entered, goroutines, questions, rules, history>>
  BY DEF Quit
<1>. USE DEF typed, overlay, goroutines, questions, rules, history
<1>2. TypeOK'  BY <1>1 DEF TypeOK
<1>3. OneAtATime'  BY <1>1 DEF OneAtATime
<1>4. Waiting'  BY <1>1 DEF Waiting
<1>5. QuestionIsAwaited'  BY <1>1 DEF QuestionIsAwaited
<1>6. Asked' /\ Answers'  BY <1>1 DEF Asked, Answers
<1>7. RunsByRight'  BY <1>1 DEF RunsByRight, Rightful
<1>. QED  BY <1>2, <1>3, <1>4, <1>5, <1>6, <1>7

LEMMA ApproveStep ==
  ASSUME IInv, NEW r \in Run, NEW k \in Key, Approve(r, k)
  PROVE  IInv'
<1>. USE DEF IInv
<1>1. /\ agent[r] = "turn"
      /\ UNCHANGED <<screen, entered, shell, reply, rules, answer, always, quitting>>
  BY DEF Approve
<1>. USE DEF screen, typed, overlay, rules
<1>2. waits[r] = 0  BY <1>1 DEF Waiting
<1>3. \A s \in Run : s # r => agent[s] = "none" /\ waits[s] = 0
  BY <1>1 DEF OneAtATime, Waiting
<1>4. ~approving  BY <1>1, <1>3 DEF QuestionIsAwaited
<1>5. \A m \in inbox : ~Ended(m) /\ m.kind # "request"
  BY <1>1, <1>3 DEF OneAtATime, Waiting
<1>6. CASE Evaluate(k) = "allow"
  <2>0. DEFINE c0 == [key |-> k, by |-> 0, late |-> quitting]
  <2>1. ran' = ran \cup {c0} /\ UNCHANGED <<inbox, agent, waits, asked, about>>
    BY <1>6 DEF Approve
  <2>2. c0.key = k /\ c0.by = 0 /\ c0.late = quitting  OBVIOUS
  <2>3. c0 \in [key : Key, by : {0} \cup Question, late : BOOLEAN]  BY DEF TypeOK
  <2>. HIDE DEF c0
  <2>4. TypeOK'  BY <1>1, <2>1, <2>3 DEF TypeOK
  <2>5. OneAtATime'  BY <1>1, <2>1 DEF OneAtATime
  <2>6. Waiting' /\ QuestionIsAwaited'  BY <1>1, <2>1 DEF Waiting, QuestionIsAwaited
  <2>7. Asked'  BY <1>1, <2>1 DEF Asked
  <2>8. Answers'
    <3>1. 0 <= asked  BY DEF TypeOK
    <3>. QED  BY <1>1, <2>1, <2>2, <3>1 DEF Answers
  <2>9. ASSUME ~quitting
        PROVE  Rightful(c0)
    <3>1. CASE k \in remembered \cup promoted
      <4>1. k \in always /\ k \in Key \cap Tool  BY <2>9, <3>1 DEF Answers, TypeOK
      <4>2. ToolOf[k] = k /\ BuiltIn[k] # "block"  BY <4>1
      <4>. QED  BY <2>2, <4>1, <4>2 DEF Rightful
    <3>2. CASE k \notin remembered \cup promoted
      <4>1. BuiltIn[k] = "allow"  BY <1>6, <3>2 DEF Evaluate
      <4>. QED  BY <2>2, <4>1 DEF Rightful
    <3>. QED  BY <3>1, <3>2
  <2>10. RunsByRight'
    <3>1. \A c \in ran' : c.late \/ Rightful(c)  BY <2>1, <2>2, <2>9 DEF RunsByRight
    <3>. QED  BY <1>1, <2>1, <3>1 DEF RunsByRight, Rightful
  <2>. QED  BY <2>4, <2>5, <2>6, <2>7, <2>8, <2>10
<1>7. CASE Evaluate(k) = "prompt" /\ asked < MaxPrompts
  <2>0. DEFINE m0 == [kind |-> "request", of |-> asked + 1]
  <2>1. asked \in Nat /\ asked + 1 \in Question /\ asked + 1 \in 0 .. MaxPrompts
    BY <1>7 DEF TypeOK, Question
  <2>2. m0 \in Message /\ m0.kind = "request" /\ m0.of = asked + 1  BY <2>1 DEF Message
  <2>3. /\ asked' = asked + 1 /\ about' = [about EXCEPT ![asked + 1] = k]
        /\ agent' = [agent EXCEPT ![r] = "ask"] /\ waits' = [waits EXCEPT ![r] = asked + 1]
        /\ inbox' = inbox \cup {m0} /\ ran' = ran
    BY <1>7 DEF Approve
  <2>. HIDE DEF m0
  <2>4. BuiltIn[k] = "prompt"  BY <1>7 DEF Evaluate
  <2>5. /\ agent'[r] = "ask" /\ waits'[r] = asked + 1
        /\ \A s \in Run : s # r => agent'[s] = "none" /\ waits'[s] = 0
    BY <1>3, <2>3 DEF TypeOK
  <2>6. reply[asked + 1] = "none" /\ answer[asked + 1] = "none"  BY <2>1 DEF Asked
  <2>7. /\ about'[asked + 1] = k
        /\ \A q \in Question : q # asked + 1 => about'[q] = about[q]
    BY <2>1, <2>3 DEF TypeOK
  <2>8. TypeOK'
    <3>1. about' \in [Question -> Key \cup {"none"}]  BY <2>3 DEF TypeOK
    <3>2. waits' \in [Run -> {0} \cup Question]  BY <2>1, <2>3 DEF TypeOK
    <3>3. agent' \in [Run -> {"none", "turn", "ask", "blocked"}]  BY <2>3 DEF TypeOK
    <3>. QED  BY <1>1, <2>1, <2>2, <2>3, <3>1, <3>2, <3>3 DEF TypeOK
  <2>9. OneAtATime'
    <3>1. \A m \in inbox' : ~Ended(m)  BY <1>5, <2>2, <2>3 DEF Ended
    <3>2. running /\ shell = 0  BY <1>1 DEF OneAtATime
    <3>. QED  BY <1>1, <2>5, <3>1, <3>2 DEF OneAtATime
  <2>10. Waiting'
    <3>1. asked + 1 # 0 /\ 0 <= asked + 1 /\ asked + 1 <= asked + 1  BY <2>1
    <3>. QED  BY <1>1, <1>4, <1>5, <2>2, <2>3, <2>5, <2>6, <3>1 DEF Waiting
  <2>11. QuestionIsAwaited'  BY <1>1, <1>4, <2>5 DEF QuestionIsAwaited
  <2>12. Asked'
    <3>1. ASSUME NEW q \in Question
          PROVE  /\ q > asked' => reply[q] = "none" /\ answer[q] = "none"
                 /\ q <= asked' => about'[q] \in Key /\ BuiltIn[about'[q]] = "prompt"
      <4>1. CASE q = asked + 1  BY <2>1, <2>3, <2>4, <2>7, <4>1
      <4>2. CASE q # asked + 1
        <5>1. q \in Nat /\ (q > asked' => q > asked) /\ (q <= asked' => q <= asked)
          BY <2>1, <2>3, <4>2 DEF Question
        <5>. QED  BY <2>7, <4>2, <5>1 DEF Asked
      <4>. QED  BY <4>1, <4>2
    <3>. QED  BY <1>1, <3>1 DEF Asked
  <2>13. Answers'
    <3>1. ASSUME NEW q \in Question, answer[q] = "always"
          PROVE  ToolOf[about'[q]] \in always
      BY <2>6, <2>7, <3>1 DEF Answers
    <3>2. ASSUME NEW c \in ran, c.by # 0
          PROVE  c.by <= asked'
      <4>1. c.by <= asked /\ c.by \in Nat  BY <3>2 DEF Answers, TypeOK, Question
      <4>. QED  BY <2>1, <2>3, <4>1
    <3>3. ASSUME ~quitting, NEW m \in inbox', m.kind = "selected"
          PROVE  approving /\ m.of = slot /\ answer[slot] = m.what
      BY <2>2, <2>3, <3>3 DEF Answers
    <3>. QED  BY <1>1, <2>3, <3>1, <3>2, <3>3 DEF Answers
  <2>14. RunsByRight'
    <3>1. ASSUME NEW c \in ran, ~c.late
          PROVE  Rightful(c)'
      <4>1. Rightful(c)  BY <3>1 DEF RunsByRight
      <4>2. c.by # 0 => about'[c.by] = about[c.by]
        <5>1. c.by # 0 => c.by \in Question /\ c.by <= asked  BY <3>1 DEF Answers, TypeOK
        <5>2. c.by # 0 => c.by # asked + 1  BY <2>1, <5>1 DEF Question
        <5>. QED  BY <2>7, <5>1, <5>2
      <4>. QED  BY <1>1, <4>1, <4>2 DEF Rightful
    <3>. QED  BY <2>3, <3>1 DEF RunsByRight
  <2>. QED  BY <2>8, <2>9, <2>10, <2>11, <2>12, <2>13, <2>14
<1>. QED  BY <1>6, <1>7 DEF Approve

LEMMA ResumeStep ==
  ASSUME IInv, NEW r \in Run, Resume(r)
  PROVE  IInv'
<1>. USE DEF IInv
<1>1. /\ agent[r] = "blocked" /\ reply[waits[r]] # "none"
      /\ agent' = [agent EXCEPT ![r] = "turn"] /\ waits' = [waits EXCEPT ![r] = 0]
      /\ UNCHANGED <<screen, inbox, entered, shell, questions, rules, answer, always, quitting>>
  BY DEF Resume
<1>. USE DEF screen, typed, overlay, questions, rules
<1>2. waits[r] \in Question /\ waits[r] <= asked /\ waits[r] # 0
  BY <1>1 DEF Waiting, TypeOK
<1>3. \A s \in Run : s # r => agent[s] = "none" /\ waits[s] = 0
  BY <1>1 DEF OneAtATime, Waiting
<1>4. ~approving  BY <1>1, <1>3 DEF QuestionIsAwaited, Waiting
<1>5. /\ agent'[r] = "turn" /\ waits'[r] = 0
      /\ \A s \in Run : s # r => agent'[s] = "none" /\ waits'[s] = 0
  BY <1>1, <1>3 DEF TypeOK
<1>6. about[waits[r]] \in Key /\ BuiltIn[about[waits[r]]] = "prompt"  BY <1>2 DEF Asked
<1>7. DEFINE c0 == [key |-> about[waits[r]], by |-> waits[r], late |-> quitting]
<1>8. c0 \in [key : Key, by : {0} \cup Question, late : BOOLEAN]  BY <1>2, <1>6 DEF TypeOK
<1>9. c0.key = about[waits[r]] /\ c0.by = waits[r] /\ c0.late = quitting  OBVIOUS
<1>10. \/ ran' = ran
       \/ reply[waits[r]] = "yes" /\ ran' = ran \cup {c0}
  BY DEF Resume
<1>. HIDE DEF c0
<1>11. TypeOK'
  <2>1. agent' \in [Run -> {"none", "turn", "ask", "blocked"}]  BY <1>1 DEF TypeOK
  <2>2. waits' \in [Run -> {0} \cup Question]  BY <1>1 DEF TypeOK
  <2>3. ran' \subseteq [key : Key, by : {0} \cup Question, late : BOOLEAN]
    BY <1>8, <1>10 DEF TypeOK
  <2>. QED  BY <1>1, <2>1, <2>2, <2>3 DEF TypeOK
<1>12. OneAtATime'
  <2>1. running /\ shell = 0 /\ \A m \in inbox : ~Ended(m)  BY <1>1 DEF OneAtATime
  <2>. QED  BY <1>1, <1>5, <2>1 DEF OneAtATime
<1>13. Waiting'
  <2>1. \A m \in inbox : m.kind # "request"  BY <1>1, <1>3 DEF Waiting
  <2>2. 0 <= asked  BY DEF TypeOK
  <2>. QED  BY <1>1, <1>4, <1>5, <2>1, <2>2 DEF Waiting
<1>14. QuestionIsAwaited'  BY <1>1, <1>4, <1>5 DEF QuestionIsAwaited
<1>15. Asked'  BY <1>1 DEF Asked
<1>16. Answers'
  <2>1. \A c \in ran' : c.by # 0 => c.by <= asked  BY <1>2, <1>9, <1>10 DEF Answers
  <2>. QED  BY <1>1, <2>1 DEF Answers
<1>17. RunsByRight'
  <2>1. reply[waits[r]] = "yes" => c0.late \/ Rightful(c0)
    BY <1>2, <1>6, <1>9 DEF Answers, Rightful
  <2>2. \A c \in ran' : c.late \/ Rightful(c)  BY <1>10, <2>1 DEF RunsByRight
  <2>. QED  BY <1>1, <2>2 DEF RunsByRight, Rightful
<1>. QED  BY <1>11, <1>12, <1>13, <1>14, <1>15, <1>16, <1>17

(* A run or a shell escape ends: the one message of its end is sent.        *)
LEMMA ReturnStep ==
  ASSUME IInv, NEW r \in Run, Return(r)
  PROVE  IInv'
<1>. USE DEF IInv
<1>0. DEFINE m0 == [kind |-> "done", of |-> r]
<1>1. m0 \in Message /\ m0.kind = "done"  BY DEF Message
<1>2. /\ agent[r] = "turn" /\ agent' = [agent EXCEPT ![r] = "none"]
      /\ inbox' = inbox \cup {m0}
      /\ UNCHANGED <<screen, entered, waits, shell, questions, rules, history>>
  BY DEF Return
<1>. HIDE DEF m0
<1>. USE DEF screen, typed, overlay, questions, rules, history
<1>3. \A s \in Run : s # r => agent[s] = "none"  BY <1>2 DEF OneAtATime
<1>4. waits[r] = 0  BY <1>2 DEF Waiting
<1>5. \A s \in Run : agent'[s] = "none" /\ waits[s] = 0
  BY <1>2, <1>3, <1>4 DEF TypeOK, Waiting
<1>6. ~approving  BY <1>2, <1>3 DEF QuestionIsAwaited
<1>7. TypeOK'
  <2>1. agent' \in [Run -> {"none", "turn", "ask", "blocked"}]  BY <1>2 DEF TypeOK
  <2>. QED  BY <1>1, <1>2, <2>1 DEF TypeOK
<1>8. OneAtATime'
  <2>1. running /\ shell = 0 /\ \A m \in inbox : ~Ended(m)  BY <1>2 DEF OneAtATime
  <2>. QED  BY <1>2, <1>5, <2>1 DEF OneAtATime
<1>9. Waiting'
  <2>1. \A m \in inbox' : m.kind # "request"  BY <1>1, <1>2, <1>3 DEF Waiting
  <2>2. 0 <= asked  BY DEF TypeOK
  <2>. QED  BY <1>2, <1>5, <1>6, <2>1, <2>2 DEF Waiting
<1>10. QuestionIsAwaited'  BY <1>2, <1>5, <1>6 DEF QuestionIsAwaited
<1>11. Asked' /\ Answers'  BY <1>1, <1>2 DEF Asked, Answers
<1>12. RunsByRight'  BY <1>2 DEF RunsByRight, Rightful
<1>. QED  BY <1>7, <1>8, <1>9, <1>10, <1>11, <1>12

LEMMA ShellEndsStep ==
  ASSUME IInv, ShellEnds
  PROVE  IInv'
<1>. USE DEF IInv
<1>0. DEFINE m0 == [kind |-> "shelldone", of |-> shell]
<1>1. shell # 0 /\ m0 \in Message /\ m0.kind = "shelldone"  BY DEF Message, ShellEnds, TypeOK
<1>2. /\ shell' = 0 /\ inbox' = inbox \cup {m0}
      /\ UNCHANGED <<screen, entered, agent, waits, questions, rules, history>>
  BY DEF ShellEnds
<1>. HIDE DEF m0
<1>. USE DEF screen, typed, overlay, questions, rules, history
<1>3. /\ running /\ \A r \in Run : agent[r] = "none"
      /\ \A m \in inbox : ~Ended(m)
  BY <1>1 DEF OneAtATime
<1>4. TypeOK'  BY <1>1, <1>2 DEF TypeOK
<1>5. OneAtATime'  BY <1>2, <1>3 DEF OneAtATime
<1>6. Waiting'  BY <1>1, <1>2 DEF Waiting
<1>7. QuestionIsAwaited'  BY <1>2 DEF QuestionIsAwaited
<1>8. Asked' /\ Answers'  BY <1>1, <1>2 DEF Asked, Answers
<1>9. RunsByRight'  BY <1>2 DEF RunsByRight, Rightful
<1>. QED  BY <1>4, <1>5, <1>6, <1>7, <1>8, <1>9

LEMMA StutterStep ==
  ASSUME IInv, UNCHANGED vars
  PROVE  IInv'
<1>. USE DEF IInv, vars, screen, typed, overlay, goroutines, questions, rules, history
<1>1. TypeOK'  BY DEF TypeOK
<1>2. OneAtATime' /\ Waiting' /\ QuestionIsAwaited'
  BY DEF OneAtATime, Waiting, QuestionIsAwaited
<1>3. Asked' /\ Answers'  BY DEF Asked, Answers
<1>4. RunsByRight'  BY DEF RunsByRight, Rightful
<1>. QED  BY <1>1, <1>2, <1>3, <1>4

LEMMA NextIInv == IInv /\ [Next]_vars => IInv'
<1>. SUFFICES ASSUME IInv, [Next]_vars PROVE IInv'  OBVIOUS
<1>1. CASE \E what \in Entry : Enter(what)  BY <1>1, EnterStep
<1>2. CASE \E choice \in Choice : Choose(choice)  BY <1>2, ChooseStep
<1>3. CASE CtrlC  BY <1>3, CtrlCStep
<1>4. ASSUME NEW m \in inbox, Handle(m) PROVE IInv'
  BY <1>4, SubmittedStep, ReturnedStep, RequestedStep, SelectedStep, FinishedStep, QuitStep
  DEF Handle
<1>5. ASSUME NEW r \in Run, Resume(r) \/ Return(r) \/ \E k \in Key : Approve(r, k)
      PROVE  IInv'
  BY <1>5, ResumeStep, ReturnStep, ApproveStep
<1>6. CASE ShellEnds  BY <1>6, ShellEndsStep
<1>7. CASE UNCHANGED vars  BY <1>7, StutterStep
<1>. QED  BY <1>1, <1>2, <1>3, <1>4, <1>5, <1>6, <1>7 DEF Next
-----------------------------------------------------------------------------
(* The invariant of the TUI, its agent goroutines and the trust rules.      *)
THEOREM Inductive == Spec => []IInv
  BY InitIInv, NextIInv, PTL DEF Spec

(* Type correctness, of the promotion counters too: Learn keeps each below  *)
(* the threshold.                                                           *)
THEOREM TypeCorrect == Spec => []TypeOK
<1>1. IInv => TypeOK  BY DEF IInv
<1>. QED  BY Inductive, <1>1, PTL

(* approvalReply never forgets a goroutine that waits in the approver.      *)
THEOREM QuestionIsAwaitedHolds == Spec => []QuestionIsAwaited
<1>1. IInv => QuestionIsAwaited  BY DEF IInv
<1>. QED  BY Inductive, <1>1, PTL

(* No call runs that the rules, an "Always" for its tool or the answer to   *)
(* its own question did not allow, before the user asks to quit.            *)
THEOREM RunsByRightHolds == Spec => []RunsByRight
<1>1. IInv => RunsByRight  BY DEF IInv
<1>. QED  BY Inductive, <1>1, PTL
=============================================================================
