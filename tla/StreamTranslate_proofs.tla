------------------------ MODULE StreamTranslate_proofs ------------------------
(***************************************************************************)
(* Every streamed answer, translated between any of the four provider      *)
(* protocols and any of the three client protocols: the client is written  *)
(* what its protocol allows (StreamWellFormed), and has what the provider  *)
(* has sent (StreamFaithful), after any number of events, calls and parts. *)
(*                                                                         *)
(* Neither is inductive, for neither says what the adapters' fields stand  *)
(* for. StreamInv does, through the answer that the decoded events have    *)
(* told: Agrees relates it to where the provider is and to the decoder's   *)
(* fields, Tied to the encoder's fields and to the client. Between two     *)
(* events there is such an answer, with all its pieces. With an event on   *)
(* the wire the client has all but that: the answer so far, its pieces     *)
(* counted from none, together with what the decoder will make of the      *)
(* event, is where the provider already is.                                *)
(*                                                                         *)
(* Each action of a provider has a lemma that the events decoded from it   *)
(* are lawful and take the answer to where the provider then is            *)
(* (...Posts), for the chunks of Gemini by induction along their parts     *)
(* (PartsRun). Delivering is MessagesRun, ResponsesRun or ChatRun of       *)
(* StreamEncode_proofs.                                                    *)
(***************************************************************************)
EXTENDS StreamEncode_proofs

(* ---- what the provider has said, and where it is ---- *)

Phases == {"new", "body", "finished", "ended", "done", "failed"}
Opened == {"none", "text", "thinking", "redacted", "call", "message", "reasoning"}
\* A provider's account of its stream.
Sources == [phase : Phases, open : Opened, calls : Nat, events : Nat, usage : BOOLEAN, last : Pairs,
            signatures : Nat, cut : BOOLEAN, blocked : BOOLEAN, bare : BOOLEAN, interleaved : BOOLEAN, doubled : BOOLEAN]
Decoders == [tool : Int, usage : BOOLEAN]

\* The answer goes on as the provider does.
Advancing(up, a, d, s) ==
  /\ a.finished <=> s.phase \in {"finished", "ended", "done"}
  /\ s.phase = "body" => a.begun
  /\ s.phase = "new" => ~s.usage /\ s.open = "none"
  /\ s.phase \in {"ended", "done"} /\ s.usage /\ ~s.cut /\ ~s.blocked => a.usage
  /\ up \in {"anthropic", "gemini"} => d.tool + 1 = s.calls
  /\ up = "anthropic" /\ s.phase \in {"new", "body", "finished"} => d.usage = s.usage
  /\ up \in {"anthropic", "responses"} /\ s.phase = "body" /\ s.open = "call" => a.hot /\ a.told > 0
  /\ up = "chat" /\ s.phase = "finished" => ~s.usage

\* The answer is where the provider is, and the decoder's fields fit both.
Standing(up, a, d, s) ==
  /\ s \in Sources /\ d \in Decoders
  /\ a.legal /\ a.told = s.calls
  /\ a.strayed => s.interleaved
  /\ a.bare => s.bare
  /\ a.failed <=> s.phase = "failed"
  /\ a.failed \/ Advancing(up, a, d, s)
  /\ up = "responses" => s.open \in {"none", "message", "reasoning", "call"}

\* Where a Chat provider may go on with a call's arguments.
Resuming(a, phase, last, interleaved, calls) ==
  /\ phase = "new" => last[1] \notin {"call", "args"}
  /\ phase = "body" /\ ~interleaved /\ last[1] \in {"call", "args"} => a.hot /\ last[2] + 1 = calls
Resumes(a, s) == Resuming(a, s.phase, s.last, s.interleaved, s.calls)

\* And it has the pieces that were sent.
Agrees(up, a, d, s, sent) ==
  /\ Standing(up, a, d, s)
  /\ up = "chat" => Resumes(a, s)
  /\ a.got = sent /\ a.signed = s.signatures
  /\ ~s.doubled => Single(sent)

\* All the events of one provider event leave an answer behind, its signatures counted.
LEMMA TookRun ==
  ASSUME NEW a \in Answers, Settled(a), NEW s \in Seq(Occurrences), Took(a, s).legal,
         NEW n, a.signed = Folded(By("signed"), n, a.got)
  PROVE  /\ Took(a, s) \in Answers /\ Settled(Took(a, s))
         /\ Took(a, s).signed = Folded(By("signed"), n, Took(a, s).got)
<1> DEFINE ha == By("take")
           Good(x) == x \in Answers /\ Settled(x) /\ x.signed = Folded(By("signed"), n, x.got)
<1>1. PICK y : /\ y[0] = a /\ y[Len(s)] = Folded(ha, a, s)
               /\ \A i \in 1..Len(s) : y[i] = StepOf(ha, y[i - 1], s[i])
  BY FoldedGoes
<1>2. \A i \in 1..Len(s) : y[i] = Take(y[i - 1], s[i])
  BY <1>1 DEF StepOf, By
<1> DEFINE G == {i \in Nat : i <= Len(s) /\ y[i].legal => Good(y[i])}
<1>3. 0 \in G
  BY <1>1
<1>4. ASSUME NEW i \in Nat, i \in G PROVE i + 1 \in G
  <2> SUFFICES ASSUME i + 1 <= Len(s), y[i + 1].legal PROVE Good(y[i + 1])
    OBVIOUS
  <2> DEFINE e == s[i + 1]
             b == y[i]
  <2>1. e \in Occurrences /\ y[i + 1] = Take(b, e)
    <3>1. i + 1 \in 1..Len(s) /\ (i + 1) - 1 = i
      OBVIOUS
    <3> QED  BY <1>2, <3>1
  <2>2. b.legal /\ Allowed(b, e)
    BY <2>1, TakeLegal
  <2>3. Good(b)
    BY <1>4, <2>2
  <2> HIDE DEF e, b
  <2>4. Take(b, e) = After(b, e) /\ After(b, e) \in Answers
    BY <2>1, <2>2, <2>3, TakeLawful
  <2>5. Settled(After(b, e))
    BY <2>1, <2>2, <2>3, SettledAfter
  <2>6. After(b, e).signed = Folded(By("signed"), n, After(b, e).got)
    BY <2>1, <2>3, SignedAfter
  <2> QED  BY <2>1, <2>4, <2>5, <2>6
<1> HIDE DEF G
<1>5. Len(s) \in Nat
  OBVIOUS
<1>6. Len(s) \in G
  BY <1>3, <1>4, <1>5, Upward
<1>7. Took(a, s) = y[Len(s)]
  BY <1>1 DEF Took
<1> QED  BY <1>5, <1>6, <1>7 DEF G

LEMMA SingleNone == Single(<<>>)
<1> DEFINE none == <<>>
<1>1. \A kinds : Pieces(none, kinds) = none
  BY PiecesNone
<1>2. Len(none) = 0
  OBVIOUS
<1> HIDE DEF none
<1>3. Single(none)
  BY <1>1, <1>2 DEF Single
<1> QED  BY <1>3 DEF none

LEMMA SingleOne == ASSUME NEW p \in Pairs PROVE Single(<<p>>)
<1> DEFINE none == <<>>
           one == Append(none, p)
<1>1. \A kinds : Pieces(none, kinds) = none
  BY PiecesNone
<1>2. none \in Seq(Pairs) /\ Len(none) = 0 /\ Len(one) = 1
  OBVIOUS
<1>3. <<p>> = one
  OBVIOUS
<1> HIDE DEF none
<1>4. \A kinds : Pieces(one, kinds) = one \/ Pieces(one, kinds) = none
  <2> SUFFICES ASSUME NEW kinds PROVE Pieces(one, kinds) = one \/ Pieces(one, kinds) = none
    OBVIOUS
  <2>1. Pieces(one, kinds) = IF p[1] \in kinds THEN Append(Pieces(none, kinds), p) ELSE Pieces(none, kinds)
    BY ZenonT(60), <1>2, PiecesAppend
  <2>2. Pieces(none, kinds) = none
    BY <1>1
  <2> QED  BY <2>1, <2>2
<1> HIDE DEF one
<1>5. \A what : Len(Pieces(one, {what})) <= 1
  <2> SUFFICES ASSUME NEW what PROVE Len(Pieces(one, {what})) <= 1
    OBVIOUS
  <2> DEFINE k == Pieces(one, {what})
  <2>1. k = one \/ k = none
    BY <1>4
  <2> HIDE DEF k
  <2>2. Len(k) = 1 \/ Len(k) = 0
    BY <1>2, <2>1
  <2> DEFINE n == Len(k)
  <2>3. n = 1 \/ n = 0
    BY <2>2
  <2> HIDE DEF n
  <2>4. n <= 1
    BY <2>3
  <2>5. Len(k) <= 1
    BY <2>4 DEF n
  <2> QED  BY <2>5 DEF k
<1>6. Single(one)
  BY <1>5 DEF Single
<1> QED  BY <1>3, <1>6

LEMMA TookTwo == ASSUME NEW a, NEW e, NEW f PROVE Took(a, <<e, f>>) = Take(Take(a, e), f)
<1> DEFINE S == {e, f}
           s == <<e>>
<1>1. s \in Seq(S) /\ f \in S /\ <<e, f>> = Append(s, f)
  OBVIOUS
<1> HIDE DEF s, S
<1>2. Took(a, Append(s, f)) = Take(Took(a, s), f)
  BY <1>1, TookAppend
<1>3. Took(a, s) = Take(a, e)
  BY TookOne DEF s
<1> QED  BY <1>1, <1>2, <1>3

LEMMA TookThree == ASSUME NEW a, NEW e, NEW f, NEW g PROVE Took(a, <<e, f, g>>) = Take(Take(Take(a, e), f), g)
<1> DEFINE S == {e, f, g}
           s == <<e, f>>
<1>1. s \in Seq(S) /\ g \in S /\ <<e, f, g>> = Append(s, g)
  OBVIOUS
<1> HIDE DEF s, S
<1>2. Took(a, Append(s, g)) = Take(Took(a, s), g)
  BY <1>1, TookAppend
<1>3. Took(a, s) = Take(Take(a, e), f)
  BY TookTwo DEF s
<1> QED  BY <1>1, <1>2, <1>3

(* ---- one event more ---- *)

\* The answer may take the event, and becomes z.
Takes(a, e, z) == z = Take(a, e) /\ z \in Answers /\ z.legal

Calling(a, z, told, got, hot, strayed) ==
  /\ z.told = told /\ z.got = got /\ (z.hot <=> hot) /\ (z.strayed <=> strayed)
  /\ z.begun = a.begun /\ z.finished = a.finished /\ z.usage = a.usage /\ z.done = a.done
  /\ z.failed = a.failed /\ z.bare = a.bare

Marking(a, z, begun, finished, usage, done, failed, bare) ==
  /\ z.told = a.told /\ z.got = a.got /\ z.strayed = a.strayed
  /\ (z.begun <=> begun) /\ (z.finished <=> finished) /\ (z.usage <=> usage) /\ (z.done <=> done)
  /\ (z.failed <=> failed) /\ (z.bare <=> bare)

LEMMA TakesStart ==
  ASSUME NEW a \in Answers, a.legal, ~a.failed, ~a.finished
  PROVE  Takes(a, Event("start"), Take(a, Event("start"))) /\ Marking(a, Take(a, Event("start")), TRUE, a.finished, a.usage, a.done, a.failed, a.bare) /\ Take(a, Event("start")).hot = a.hot
<1> DEFINE e == Event("start")
           z == Take(a, e)
<1>1. e \in Occurrences /\ e.kind = "start"
  BY DEF Event, ToolEvent, StopEvent, Occurrences, Kinds, Contents, Answers
<1>2. Allowed(a, e)
  BY <1>1 DEF Allowed, Contents, Settled, Answers
<1>3. z = After(a, e) /\ z \in Answers /\ z.legal
  BY <1>1, <1>2, TakeLawful
<1> HIDE DEF e
<1>4. z = [a EXCEPT !.begun = TRUE]
  BY <1>1, <1>3 DEF After, Contents
<1> HIDE DEF z
<1>5. Marking(a, z, TRUE, a.finished, a.usage, a.done, a.failed, a.bare) /\ z.hot = a.hot
  BY <1>1, <1>4 DEF Answers, Calling, Marking
<1> QED  BY <1>3, <1>5 DEF Takes, z, e

LEMMA TakesContent ==
  ASSUME NEW a \in Answers, a.legal, ~a.failed, a.begun, ~a.finished, NEW what \in Contents
  PROVE  Takes(a, Event(what), Take(a, Event(what))) /\ Calling(a, Take(a, Event(what)), a.told, Append(a.got, <<what, 0>>), FALSE, a.strayed)
<1> DEFINE e == Event(what)
           z == Take(a, e)
           got == Append(a.got, <<what, 0>>)
<1>1. e \in Occurrences /\ e.kind = what
  BY DEF Event, ToolEvent, StopEvent, Occurrences, Kinds, Contents, Answers
<1>2. Allowed(a, e)
  BY <1>1 DEF Allowed, Contents, Settled, Answers
<1>3. z = After(a, e) /\ z \in Answers /\ z.legal
  BY <1>1, <1>2, TakeLawful
<1> HIDE DEF e
<1>4. z = [a EXCEPT !.got = got, !.hot = FALSE, !.signed = IF what = "signature" THEN a.signed + 1 ELSE a.signed]
  BY <1>1, <1>3 DEF After, Contents
<1> HIDE DEF z, got
<1>5. Calling(a, z, a.told, got, FALSE, a.strayed)
  BY <1>1, <1>4 DEF Answers, Calling, Marking
<1> QED  BY <1>3, <1>5 DEF Takes, z, e, got

LEMMA TakesTool ==
  ASSUME NEW a \in Answers, a.legal, ~a.failed, a.begun, ~a.finished
  PROVE  Takes(a, ToolEvent("toolstart", a.told), Take(a, ToolEvent("toolstart", a.told))) /\ Calling(a, Take(a, ToolEvent("toolstart", a.told)), a.told + 1, Append(a.got, <<"call", a.told>>), TRUE, a.strayed)
<1> DEFINE e == ToolEvent("toolstart", a.told)
           z == Take(a, e)
           got == Append(a.got, <<"call", a.told>>)
           told == a.told + 1
<1>1. e \in Occurrences /\ e.kind = "toolstart" /\ e.tool = a.told
  BY DEF Event, ToolEvent, StopEvent, Occurrences, Kinds, Contents, Answers
<1>2. Allowed(a, e)
  BY <1>1 DEF Allowed, Contents, Settled, Answers
<1>3. z = After(a, e) /\ z \in Answers /\ z.legal
  BY <1>1, <1>2, TakeLawful
<1> HIDE DEF e
<1>4. z = [a EXCEPT !.got = got, !.told = told, !.hot = TRUE]
  BY <1>1, <1>3 DEF After, Contents
<1> HIDE DEF z, got, told
<1>5. Calling(a, z, told, got, TRUE, a.strayed)
  BY <1>1, <1>4 DEF Answers, Calling, Marking, told
<1> QED  BY <1>3, <1>5 DEF Takes, z, e, got, told

LEMMA TakesToolAgain ==
  ASSUME NEW a \in Answers, a.legal, ~a.failed, a.begun, ~a.finished, NEW n \in Nat, n + 1 = a.told, a.hot
  PROVE  Takes(a, ToolEvent("toolstart", n), Take(a, ToolEvent("toolstart", n))) /\ Take(a, ToolEvent("toolstart", n)) = a
<1> DEFINE e == ToolEvent("toolstart", n)
           z == Take(a, e)
<1>1. e \in Occurrences /\ e.kind = "toolstart" /\ e.tool = n
  BY DEF Event, ToolEvent, StopEvent, Occurrences, Kinds, Contents, Answers
<1>2. Allowed(a, e)
  BY <1>1 DEF Allowed, Contents, Settled, Answers
<1>3. z = After(a, e) /\ z \in Answers /\ z.legal
  BY <1>1, <1>2, TakeLawful
<1> HIDE DEF e
<1>4. z = a
  BY <1>1, <1>3 DEF After, Contents
<1> HIDE DEF z
<1>5. z = a
  BY <1>1, <1>4 DEF Answers, Calling, Marking
<1> QED  BY <1>3, <1>5 DEF Takes, z, e

LEMMA TakesArguments ==
  ASSUME NEW a \in Answers, a.legal, ~a.failed, a.begun, ~a.finished, NEW n \in Nat, n < a.told
  PROVE  Takes(a, ToolEvent("toolargs", n), Take(a, ToolEvent("toolargs", n))) /\ Calling(a, Take(a, ToolEvent("toolargs", n)), a.told, Append(a.got, <<"args", n>>), a.hot, a.strayed \/ ~(a.hot /\ n + 1 = a.told))
<1> DEFINE e == ToolEvent("toolargs", n)
           z == Take(a, e)
           got == Append(a.got, <<"args", n>>)
           strayed == a.strayed \/ ~(a.hot /\ n + 1 = a.told)
<1>1. e \in Occurrences /\ e.kind = "toolargs" /\ e.tool = n
  BY DEF Event, ToolEvent, StopEvent, Occurrences, Kinds, Contents, Answers
<1>2. Allowed(a, e)
  BY <1>1 DEF Allowed, Contents, Settled, Answers
<1>3. z = After(a, e) /\ z \in Answers /\ z.legal
  BY <1>1, <1>2, TakeLawful
<1> HIDE DEF e
<1>4. z = [a EXCEPT !.got = got, !.strayed = strayed]
  BY <1>1, <1>3 DEF After, Contents
<1> HIDE DEF z, got, strayed
<1>5. Calling(a, z, a.told, got, a.hot, a.strayed \/ ~(a.hot /\ n + 1 = a.told))
  BY <1>1, <1>4 DEF Answers, Calling, Marking, strayed
<1> QED  BY <1>3, <1>5 DEF Takes, z, e, got

LEMMA TakesDelta ==
  ASSUME NEW a \in Answers, a.legal, ~a.failed, a.begun, ~a.finished, NEW n \in Nat, n < a.told
  PROVE  Takes(a, ToolEvent("tooldelta", n), Take(a, ToolEvent("tooldelta", n))) /\ Calling(a, Take(a, ToolEvent("tooldelta", n)), a.told, Append(a.got, <<"args", n>>), a.hot, a.strayed \/ ~(a.hot /\ n + 1 = a.told))
<1> DEFINE e == ToolEvent("tooldelta", n)
           z == Take(a, e)
           got == Append(a.got, <<"args", n>>)
           strayed == a.strayed \/ ~(a.hot /\ n + 1 = a.told)
<1>1. e \in Occurrences /\ e.kind = "tooldelta" /\ e.tool = n
  BY DEF Event, ToolEvent, StopEvent, Occurrences, Kinds, Contents, Answers
<1>2. Allowed(a, e)
  BY <1>1 DEF Allowed, Contents, Settled, Answers
<1>3. z = After(a, e) /\ z \in Answers /\ z.legal
  BY <1>1, <1>2, TakeLawful
<1> HIDE DEF e
<1>4. z = [a EXCEPT !.got = got, !.strayed = strayed]
  BY <1>1, <1>3 DEF After, Contents
<1> HIDE DEF z, got, strayed
<1>5. Calling(a, z, a.told, got, a.hot, a.strayed \/ ~(a.hot /\ n + 1 = a.told))
  BY <1>1, <1>4 DEF Answers, Calling, Marking, strayed
<1> QED  BY <1>3, <1>5 DEF Takes, z, e, got

LEMMA TakesBlockStart ==
  ASSUME NEW a \in Answers, a.legal, ~a.failed
  PROVE  Takes(a, Event("blockstart"), Take(a, Event("blockstart"))) /\ Take(a, Event("blockstart")) = a
<1> DEFINE e == Event("blockstart")
           z == Take(a, e)
<1>1. e \in Occurrences /\ e.kind = "blockstart"
  BY DEF Event, ToolEvent, StopEvent, Occurrences, Kinds, Contents, Answers
<1>2. Allowed(a, e)
  BY <1>1 DEF Allowed, Contents, Settled, Answers
<1>3. z = After(a, e) /\ z \in Answers /\ z.legal
  BY <1>1, <1>2, TakeLawful
<1> HIDE DEF e
<1>4. z = a
  BY <1>1, <1>3 DEF After, Contents
<1> HIDE DEF z
<1>5. z = a
  BY <1>1, <1>4 DEF Answers, Calling, Marking
<1> QED  BY <1>3, <1>5 DEF Takes, z, e

LEMMA TakesBlockStop ==
  ASSUME NEW a \in Answers, a.legal, ~a.failed
  PROVE  Takes(a, Event("blockstop"), Take(a, Event("blockstop"))) /\ Marking(a, Take(a, Event("blockstop")), a.begun, a.finished, a.usage, a.done, a.failed, a.bare) /\ ~Take(a, Event("blockstop")).hot
<1> DEFINE e == Event("blockstop")
           z == Take(a, e)
<1>1. e \in Occurrences /\ e.kind = "blockstop"
  BY DEF Event, ToolEvent, StopEvent, Occurrences, Kinds, Contents, Answers
<1>2. Allowed(a, e)
  BY <1>1 DEF Allowed, Contents, Settled, Answers
<1>3. z = After(a, e) /\ z \in Answers /\ z.legal
  BY <1>1, <1>2, TakeLawful
<1> HIDE DEF e
<1>4. z = [a EXCEPT !.hot = FALSE]
  BY <1>1, <1>3 DEF After, Contents
<1> HIDE DEF z
<1>5. Marking(a, z, a.begun, a.finished, a.usage, a.done, a.failed, a.bare) /\ ~z.hot
  BY <1>1, <1>4 DEF Answers, Calling, Marking
<1> QED  BY <1>3, <1>5 DEF Takes, z, e

LEMMA TakesToolStop ==
  ASSUME NEW a \in Answers, a.legal, ~a.failed, NEW n \in Nat
  PROVE  Takes(a, ToolEvent("toolstop", n), Take(a, ToolEvent("toolstop", n))) /\ Marking(a, Take(a, ToolEvent("toolstop", n)), a.begun, a.finished, a.usage, a.done, a.failed, a.bare) /\ ~Take(a, ToolEvent("toolstop", n)).hot
<1> DEFINE e == ToolEvent("toolstop", n)
           z == Take(a, e)
<1>1. e \in Occurrences /\ e.kind = "toolstop"
  BY DEF Event, ToolEvent, StopEvent, Occurrences, Kinds, Contents, Answers
<1>2. Allowed(a, e)
  BY <1>1 DEF Allowed, Contents, Settled, Answers
<1>3. z = After(a, e) /\ z \in Answers /\ z.legal
  BY <1>1, <1>2, TakeLawful
<1> HIDE DEF e
<1>4. z = [a EXCEPT !.hot = FALSE]
  BY <1>1, <1>3 DEF After, Contents
<1> HIDE DEF z
<1>5. Marking(a, z, a.begun, a.finished, a.usage, a.done, a.failed, a.bare) /\ ~z.hot
  BY <1>1, <1>4 DEF Answers, Calling, Marking
<1> QED  BY <1>3, <1>5 DEF Takes, z, e

LEMMA TakesStop ==
  ASSUME NEW a \in Answers, a.legal, ~a.failed, ~a.finished, NEW why \in {"stop", "length", "safety"}
  PROVE  Takes(a, StopEvent(why), Take(a, StopEvent(why))) /\ Marking(a, Take(a, StopEvent(why)), a.begun, TRUE, a.usage, a.done, a.failed, a.bare \/ ~a.begun) /\ ~Take(a, StopEvent(why)).hot
<1> DEFINE e == StopEvent(why)
           z == Take(a, e)
<1>1. e \in Occurrences /\ e.kind = "stop"
  BY DEF Event, ToolEvent, StopEvent, Occurrences, Kinds, Contents, Answers
<1>2. Allowed(a, e)
  BY <1>1 DEF Allowed, Contents, Settled, Answers
<1>3. z = After(a, e) /\ z \in Answers /\ z.legal
  BY <1>1, <1>2, TakeLawful
<1> HIDE DEF e
<1>4. z = [a EXCEPT !.finished = TRUE, !.hot = FALSE, !.bare = a.bare \/ ~(a.begun \/ a.failed)]
  BY <1>1, <1>3 DEF After, Contents
<1> HIDE DEF z
<1>5. Marking(a, z, a.begun, TRUE, a.usage, a.done, a.failed, a.bare \/ ~a.begun) /\ ~z.hot
  BY <1>1, <1>4 DEF Answers, Calling, Marking
<1> QED  BY <1>3, <1>5 DEF Takes, z, e

LEMMA TakesUsage ==
  ASSUME NEW a \in Answers, a.legal, ~a.failed
  PROVE  Takes(a, Event("usage"), Take(a, Event("usage"))) /\ Marking(a, Take(a, Event("usage")), a.begun, a.finished, a.usage \/ a.finished, a.done, a.failed, a.bare) /\ Take(a, Event("usage")).hot = a.hot
<1> DEFINE e == Event("usage")
           z == Take(a, e)
<1>1. e \in Occurrences /\ e.kind = "usage"
  BY DEF Event, ToolEvent, StopEvent, Occurrences, Kinds, Contents, Answers
<1>2. Allowed(a, e)
  BY <1>1 DEF Allowed, Contents, Settled, Answers
<1>3. z = After(a, e) /\ z \in Answers /\ z.legal
  BY <1>1, <1>2, TakeLawful
<1> HIDE DEF e
<1>4. z = [a EXCEPT !.usage = a.usage \/ a.finished]
  BY <1>1, <1>3 DEF After, Contents
<1> HIDE DEF z
<1>5. Marking(a, z, a.begun, a.finished, a.usage \/ a.finished, a.done, a.failed, a.bare) /\ z.hot = a.hot
  BY <1>1, <1>4 DEF Answers, Calling, Marking
<1> QED  BY <1>3, <1>5 DEF Takes, z, e

LEMMA TakesDone ==
  ASSUME NEW a \in Answers, a.legal, ~a.failed, a.finished
  PROVE  Takes(a, Event("done"), Take(a, Event("done"))) /\ Marking(a, Take(a, Event("done")), a.begun, a.finished, a.usage, TRUE, a.failed, a.bare) /\ Take(a, Event("done")).hot = a.hot
<1> DEFINE e == Event("done")
           z == Take(a, e)
<1>1. e \in Occurrences /\ e.kind = "done"
  BY DEF Event, ToolEvent, StopEvent, Occurrences, Kinds, Contents, Answers
<1>2. Allowed(a, e)
  BY <1>1 DEF Allowed, Contents, Settled, Answers
<1>3. z = After(a, e) /\ z \in Answers /\ z.legal
  BY <1>1, <1>2, TakeLawful
<1> HIDE DEF e
<1>4. z = [a EXCEPT !.done = TRUE]
  BY <1>1, <1>3 DEF After, Contents
<1> HIDE DEF z
<1>5. Marking(a, z, a.begun, a.finished, a.usage, TRUE, a.failed, a.bare) /\ z.hot = a.hot
  BY <1>1, <1>4 DEF Answers, Calling, Marking
<1> QED  BY <1>3, <1>5 DEF Takes, z, e

LEMMA TakesError ==
  ASSUME NEW a \in Answers, a.legal, ~a.failed, ~a.finished
  PROVE  Takes(a, Event("error"), Take(a, Event("error"))) /\ Marking(a, Take(a, Event("error")), a.begun, a.finished, a.usage, a.done, TRUE, a.bare) /\ ~Take(a, Event("error")).hot
<1> DEFINE e == Event("error")
           z == Take(a, e)
<1>1. e \in Occurrences /\ e.kind = "error"
  BY DEF Event, ToolEvent, StopEvent, Occurrences, Kinds, Contents, Answers
<1>2. Allowed(a, e)
  BY <1>1 DEF Allowed, Contents, Settled, Answers
<1>3. z = After(a, e) /\ z \in Answers /\ z.legal
  BY <1>1, <1>2, TakeLawful
<1> HIDE DEF e
<1>4. z = [a EXCEPT !.failed = TRUE, !.hot = FALSE]
  BY <1>1, <1>3 DEF After, Contents
<1> HIDE DEF z
<1>5. Marking(a, z, a.begun, a.finished, a.usage, a.done, TRUE, a.bare) /\ ~z.hot
  BY <1>1, <1>4 DEF Answers, Calling, Marking
<1> QED  BY <1>3, <1>5 DEF Takes, z, e

(* ---- the providers' events ---- *)

\* [DONE] comes alone, and arguments as the Responses decoder gives them or as the others do.
Fit(up, e) == (e.kind = "toolargs" => up # "responses") /\ (e.kind = "tooldelta" => up = "responses")
Proper(up, ev) ==
  /\ ev \in Seq(Occurrences)
  /\ (\E i \in 1..Len(ev) : ev[i].kind = "done") => ev = <<Event("done")>>
  /\ \A i \in 1..Len(ev) : Fit(up, ev[i])

LEMMA ProperNone == ASSUME NEW up PROVE Proper(up, <<>>)
  BY DEF Proper

LEMMA ProperOne ==
  ASSUME NEW up, NEW e \in Occurrences, Fit(up, e), e.kind = "done" => e = Event("done")
  PROVE  Proper(up, <<e>>)
<1> DEFINE s == <<e>>
<1>1. s \in Seq(Occurrences) /\ Len(s) = 1 /\ s[1] = e
  OBVIOUS
<1>2. e.kind = "done" => s = <<Event("done")>>
  OBVIOUS
<1> HIDE DEF s
<1>3. Proper(up, s)
  BY <1>1, <1>2 DEF Proper
<1> QED  BY <1>3 DEF s

LEMMA ProperTwo ==
  ASSUME NEW up, NEW e \in Occurrences, NEW f \in Occurrences, Fit(up, e), Fit(up, f), e.kind # "done", f.kind # "done"
  PROVE  Proper(up, <<e, f>>)
<1> DEFINE s == <<e, f>>
<1>1. s \in Seq(Occurrences) /\ Len(s) = 2 /\ s[1] = e /\ s[2] = f
  OBVIOUS
<1> HIDE DEF s
<1>2. \A i \in 1..Len(s) : i = 1 \/ i = 2
  BY <1>1
<1>3. Proper(up, s)
  BY <1>1, <1>2 DEF Proper
<1> QED  BY <1>3 DEF s

LEMMA ProperThree ==
  ASSUME NEW up, NEW e \in Occurrences, NEW f \in Occurrences, NEW g \in Occurrences, Fit(up, e), Fit(up, f), Fit(up, g),
         e.kind # "done", f.kind # "done", g.kind # "done"
  PROVE  Proper(up, <<e, f, g>>)
<1> DEFINE s == <<e, f, g>>
<1>1. s \in Seq(Occurrences) /\ Len(s) = 3 /\ s[1] = e /\ s[2] = f /\ s[3] = g
  OBVIOUS
<1> HIDE DEF s
<1>2. \A i \in 1..Len(s) : i = 1 \/ i = 2 \/ i = 3
  BY <1>1
<1>3. Proper(up, s)
  BY <1>1, <1>2 DEF Proper
<1> QED  BY <1>3 DEF s

\* The events of a provider's event take the answer to where the provider now is.
Heard(up, b, decoded, src, pieces) ==
  /\ Proper(up, decoded.events) /\ Took(b, decoded.events).got = pieces
  /\ Standing(up, Took(b, decoded.events), decoded.fields, src)

LEMMA HeardNone ==
  ASSUME NEW up, NEW b, b.got = <<>>, NEW d, NEW src, Standing(up, b, d, src)
  PROVE  Heard(up, b, [fields |-> d, events |-> <<>>], src, <<>>)
  BY ProperNone, TookNone DEF Heard

LEMMA HeardOne ==
  ASSUME NEW up, NEW b, NEW d, NEW src, NEW pieces, NEW e \in Occurrences, Fit(up, e), e.kind = "done" => e = Event("done"),
         Take(b, e).got = pieces, Standing(up, Take(b, e), d, src)
  PROVE  Heard(up, b, [fields |-> d, events |-> <<e>>], src, pieces)
<1>1. Proper(up, <<e>>)
  BY ProperOne
<1>2. Took(b, <<e>>) = Take(b, e)
  BY TookOne
<1> QED  BY <1>1, <1>2 DEF Heard

LEMMA HeardTwo ==
  ASSUME NEW up, NEW b, NEW d, NEW src, NEW pieces, NEW e \in Occurrences, NEW f \in Occurrences, Fit(up, e), Fit(up, f),
         e.kind # "done", f.kind # "done",
         Take(Take(b, e), f).got = pieces, Standing(up, Take(Take(b, e), f), d, src)
  PROVE  Heard(up, b, [fields |-> d, events |-> <<e, f>>], src, pieces)
<1>1. Proper(up, <<e, f>>)
  BY ProperTwo
<1>2. Took(b, <<e, f>>) = Take(Take(b, e), f)
  BY TookTwo
<1> QED  BY <1>1, <1>2 DEF Heard

LEMMA HeardThree ==
  ASSUME NEW up, NEW b, NEW d, NEW src, NEW pieces, NEW e \in Occurrences, NEW f \in Occurrences, NEW g \in Occurrences,
         Fit(up, e), Fit(up, f), Fit(up, g), e.kind # "done", f.kind # "done", g.kind # "done",
         Take(Take(Take(b, e), f), g).got = pieces, Standing(up, Take(Take(Take(b, e), f), g), d, src)
  PROVE  Heard(up, b, [fields |-> d, events |-> <<e, f, g>>], src, pieces)
<1>1. Proper(up, <<e, f, g>>)
  BY ProperThree
<1>2. Took(b, <<e, f, g>>) = Take(Take(Take(b, e), f), g)
  BY TookThree
<1> QED  BY <1>1, <1>2 DEF Heard

LEMMA Said ==
  /\ \A kind \in Kinds : Event(kind) \in Occurrences /\ Event(kind).kind = kind
  /\ \A kind \in Kinds, n \in Nat : ToolEvent(kind, n) \in Occurrences /\ ToolEvent(kind, n).kind = kind
  /\ \A why \in {"stop", "length", "safety"} : StopEvent(why) \in Occurrences /\ StopEvent(why).kind = "stop"
  BY DEF Event, ToolEvent, StopEvent, Occurrences, Kinds

LEMMA OneOr ==
  ASSUME NEW x, NEW y, NEW c \in BOOLEAN
  PROVE  /\ <<x>> \o If(c, <<y>>) = IF c THEN <<x, y>> ELSE <<x>>
         /\ If(c, <<y>>) \o <<x>> = IF c THEN <<y, x>> ELSE <<x>>
<1> DEFINE S == {x, y}
           none == <<>>
           u == <<x>>
           w == <<y>>
<1>1. u = Append(none, x) /\ w = Append(none, y) /\ none \in Seq(S) /\ x \in S /\ y \in S
  OBVIOUS
<1>2. <<x, y>> = Append(u, y) /\ <<y, x>> = Append(w, x)
  <2>1. u \in Seq(S) /\ y \in S /\ <<x, y>> = Append(u, y)
    OBVIOUS
  <2>2. w \in Seq(S) /\ x \in S /\ <<y, x>> = Append(w, x)
    OBVIOUS
  <2> QED  BY <2>1, <2>2
<1>3. \A s \in Seq(S) : s \o none = s /\ none \o s = s
  OBVIOUS
<1>4. \A s, t \in Seq(S), z \in S : s \o Append(t, z) = Append(s \o t, z) /\ Append(s, z) \in Seq(S)
  OBVIOUS
<1> HIDE DEF S, u, w, none
<1>5. u \in Seq(S) /\ w \in Seq(S)
  BY <1>1, <1>4
<1>6. u \o w = Append(u, y) /\ w \o u = Append(w, x)
  BY <1>1, <1>3, <1>4, <1>5
<1>7. u \o none = u /\ none \o u = u
  BY <1>3, <1>5
<1> QED  BY <1>2, <1>6, <1>7 DEF If, u, w, none

\* What every event of the provider starts from.
Hears(up, b, d, s) == b \in Answers /\ b.got = <<>> /\ Settled(b) /\ ~b.failed /\ Standing(up, b, d, s)

(* -- Anthropic -- *)
LEMMA AnthropicStart ==
  ASSUME NEW b, NEW d, NEW s, Hears("anthropic", b, d, s), s.phase = "new", NEW usage \in BOOLEAN
  PROVE  Heard("anthropic", b, DecodeAnthropic(d, [type |-> "message_start", usage |-> usage]), [s EXCEPT !.phase = "body", !.usage = usage], <<>>)
<1> DEFINE up == "anthropic"
           src == [s EXCEPT !.phase = "body", !.usage = usage]
           f == [d EXCEPT !.usage = d.usage \/ usage]
           none == <<>>
<1>1. /\ b \in Answers /\ b.legal /\ ~b.failed /\ b.got = none /\ Standing(up, b, d, s) /\ Advancing(up, b, d, s)
      /\ Settled(b) /\ s \in Sources /\ d \in Decoders /\ s.phase # "failed"
  BY DEF Hears, Standing
<1>2. src \in Sources /\ f \in Decoders
  BY <1>1 DEF Sources, Decoders, Phases, Opened
<1>3. /\ src.phase = "body" /\ src.open = s.open /\ src.calls = s.calls /\ src.usage = usage /\ src.cut = s.cut /\ src.blocked = s.blocked /\ src.bare = s.bare /\ src.interleaved = s.interleaved
      /\ f.tool = d.tool /\ f.usage = (d.usage \/ usage)
  BY <1>1 DEF Sources, Decoders
<1>4. /\ b.told = s.calls /\ s.calls \in Nat /\ b.told \in Nat /\ b.got \in Seq(Pairs)
      /\ (b.strayed => s.interleaved) /\ (b.bare => s.bare)
      /\ (up = "responses" => s.open \in {"none", "message", "reasoning", "call"})
      /\ b.finished = (s.phase \in {"finished", "ended", "done"})
      /\ (s.phase = "body" => b.begun)
  BY <1>1 DEF Standing, Advancing, Sources, Decoders, Answers
<1>p. \A y : Append(none, y) = <<y>>
  OBVIOUS
<1> HIDE DEF none, src, f
<1>5. ASSUME usage PROVE Heard(up, b, DecodeAnthropic(d, [type |-> "message_start", usage |-> usage]), src, <<>>)
  <2>1. DecodeAnthropic(d, [type |-> "message_start", usage |-> usage]) = [fields |-> f, events |-> <<Event("start"), Event("usage")>>]
    BY OneOr, <1>5 DEF DecodeAnthropic, f
  <2> DEFINE e1 == Event("start")
             e2 == Event("usage")
             z1 == Take(b, Event("start"))
             z2 == Take(z1, Event("usage"))
  <2>2. /\ e1 \in Occurrences /\ e1.kind = "start"
        /\ e2 \in Occurrences /\ e2.kind = "usage"
    BY <1>4, Said DEF Kinds, Contents
  <2>a. Fit(up, e1) /\ Fit(up, e2)
    BY <2>2 DEF Fit, Contents
  <2> HIDE DEF e1, e2
  <2>3. /\ z1 \in Answers /\ z1.legal /\ Marking(b, z1, TRUE, b.finished, b.usage, b.done, b.failed, b.bare) /\ z1.hot = b.hot
    BY <1>1, <1>3, <1>4, <1>5, TakesStart DEF Takes
  <2> HIDE DEF z1
  <2>4. /\ z1.told = b.told /\ (z1.strayed = b.strayed) /\ (z1.hot = b.hot) /\ (z1.begun = TRUE)
        /\ (z1.finished = b.finished) /\ (z1.usage = b.usage) /\ (z1.failed = b.failed) /\ (z1.bare = b.bare)
    BY <1>1, <2>3 DEF Marking, Calling, Answers
  <2>5. z1.got = b.got
    BY <2>3 DEF Marking, Calling
  <2>6. /\ z2 \in Answers /\ z2.legal /\ Marking(z1, z2, z1.begun, z1.finished, z1.usage \/ z1.finished, z1.done, z1.failed, z1.bare) /\ z2.hot = z1.hot
    BY <1>1, <1>3, <1>4, <2>3, <2>4, <2>5, <1>5, TakesUsage DEF Takes
  <2> HIDE DEF z2
  <2>7. /\ z2.told = b.told /\ (z2.strayed = b.strayed) /\ (z2.hot = b.hot) /\ (z2.begun = TRUE)
        /\ (z2.finished = b.finished) /\ (z2.usage = (b.usage \/ b.finished)) /\ (z2.failed = b.failed) /\ (z2.bare = b.bare)
    BY <1>1, <2>4, <2>5, <2>6 DEF Marking, Calling, Answers
  <2>8. z2.got = b.got
    BY <2>4, <2>5, <2>6 DEF Marking, Calling
  <2>9. z2.got = <<>>
    BY <1>1, <1>p, <2>8 DEF none
  <2>10. Advancing(up, z2, f, src)
    BY <1>1, <1>3, <1>4, <2>7, <1>5 DEF Advancing
  <2>11. Standing(up, z2, f, src)
    BY <1>1, <1>2, <1>3, <1>4, <2>6, <2>7, <2>10, <1>5 DEF Standing
  <2>12. z2 = Take(Take(b, e1), e2)
    BY DEF z1, z2, e1, e2
  <2>13. Heard(up, b, [fields |-> f, events |-> <<e1, e2>>], src, <<>>)
    BY <2>2, <2>a, <2>9, <2>11, <2>12, HeardTwo
  <2> QED  BY <2>1, <2>13 DEF e1, e2
<1>6. ASSUME ~usage PROVE Heard(up, b, DecodeAnthropic(d, [type |-> "message_start", usage |-> usage]), src, <<>>)
  <2>1. DecodeAnthropic(d, [type |-> "message_start", usage |-> usage]) = [fields |-> f, events |-> <<Event("start")>>]
    BY OneOr, <1>6 DEF DecodeAnthropic, f
  <2> DEFINE e1 == Event("start")
             z1 == Take(b, Event("start"))
  <2>2. /\ e1 \in Occurrences /\ e1.kind = "start"
    BY <1>4, Said DEF Kinds, Contents
  <2>a. Fit(up, e1)
    BY <2>2 DEF Fit, Contents
  <2> HIDE DEF e1
  <2>3. /\ z1 \in Answers /\ z1.legal /\ Marking(b, z1, TRUE, b.finished, b.usage, b.done, b.failed, b.bare) /\ z1.hot = b.hot
    BY <1>1, <1>3, <1>4, <1>6, TakesStart DEF Takes
  <2> HIDE DEF z1
  <2>4. /\ z1.told = b.told /\ (z1.strayed = b.strayed) /\ (z1.hot = b.hot) /\ (z1.begun = TRUE)
        /\ (z1.finished = b.finished) /\ (z1.usage = b.usage) /\ (z1.failed = b.failed) /\ (z1.bare = b.bare)
    BY <1>1, <2>3 DEF Marking, Calling, Answers
  <2>5. z1.got = b.got
    BY <2>3 DEF Marking, Calling
  <2>6. z1.got = <<>>
    BY <1>1, <1>p, <2>5 DEF none
  <2>7. Advancing(up, z1, f, src)
    BY <1>1, <1>3, <1>4, <2>4, <1>6 DEF Advancing
  <2>8. Standing(up, z1, f, src)
    BY <1>1, <1>2, <1>3, <1>4, <2>3, <2>4, <2>7, <1>6 DEF Standing
  <2>9. z1 = Take(b, e1)
    BY DEF z1, e1
  <2>10. Heard(up, b, [fields |-> f, events |-> <<e1>>], src, <<>>)
    BY <2>2, <2>a, <2>6, <2>8, <2>9, HeardOne
  <2> QED  BY <2>1, <2>10 DEF e1
<1> QED  BY <1>5, <1>6 DEF src, up, f

LEMMA AnthropicBlock ==
  ASSUME NEW b, NEW d, NEW s, Hears("anthropic", b, d, s), s.phase = "body", s.open = "none", NEW block \in {"text", "thinking"}
  PROVE  Heard("anthropic", b, DecodeAnthropic(d, [type |-> "block_start", block |-> block]), [s EXCEPT !.open = block], <<>>)
<1> DEFINE up == "anthropic"
           src == [s EXCEPT !.open = block]
           f == d
           none == <<>>
<1>1. /\ b \in Answers /\ b.legal /\ ~b.failed /\ b.got = none /\ Standing(up, b, d, s) /\ Advancing(up, b, d, s)
      /\ Settled(b) /\ s \in Sources /\ d \in Decoders /\ s.phase # "failed"
  BY DEF Hears, Standing
<1>2. src \in Sources /\ f \in Decoders
  BY <1>1 DEF Sources, Decoders, Phases, Opened
<1>3. /\ src.phase = s.phase /\ src.open = block /\ src.calls = s.calls /\ src.usage = s.usage /\ src.cut = s.cut /\ src.blocked = s.blocked /\ src.bare = s.bare /\ src.interleaved = s.interleaved
      /\ f.tool = d.tool /\ f.usage = d.usage
  BY <1>1 DEF Sources, Decoders
<1>4. /\ b.told = s.calls /\ s.calls \in Nat /\ b.told \in Nat /\ b.got \in Seq(Pairs)
      /\ (b.strayed => s.interleaved) /\ (b.bare => s.bare)
      /\ (up = "responses" => s.open \in {"none", "message", "reasoning", "call"})
      /\ b.finished = (s.phase \in {"finished", "ended", "done"})
      /\ (s.phase = "body" => b.begun)
  BY <1>1 DEF Standing, Advancing, Sources, Decoders, Answers
<1>p. \A y : Append(none, y) = <<y>>
  OBVIOUS
<1> HIDE DEF none, src, f
<1>5. Heard(up, b, DecodeAnthropic(d, [type |-> "block_start", block |-> block]), src, <<>>)
  <2>1. DecodeAnthropic(d, [type |-> "block_start", block |-> block]) = [fields |-> f, events |-> <<Event("blockstart")>>]
    BY <1>1 DEF DecodeAnthropic, f
  <2> DEFINE e1 == Event("blockstart")
             z1 == Take(b, Event("blockstart"))
  <2>2. /\ e1 \in Occurrences /\ e1.kind = "blockstart"
    BY <1>4, Said DEF Kinds, Contents
  <2>a. Fit(up, e1)
    BY <2>2 DEF Fit, Contents
  <2> HIDE DEF e1
  <2>3. /\ z1 \in Answers /\ z1.legal /\ z1 = b
    BY <1>1, <1>3, <1>4, TakesBlockStart DEF Takes
  <2> HIDE DEF z1
  <2>4. /\ z1.told = b.told /\ (z1.strayed = b.strayed) /\ (z1.hot = b.hot) /\ (z1.begun = b.begun)
        /\ (z1.finished = b.finished) /\ (z1.usage = b.usage) /\ (z1.failed = b.failed) /\ (z1.bare = b.bare)
    BY <1>1, <2>3 DEF Marking, Calling, Answers
  <2>5. z1.got = b.got
    BY <2>3 DEF Marking, Calling
  <2>6. z1.got = <<>>
    BY <1>1, <1>p, <2>5 DEF none
  <2>7. Advancing(up, z1, f, src)
    BY <1>1, <1>3, <1>4, <2>4 DEF Advancing
  <2>8. Standing(up, z1, f, src)
    BY <1>1, <1>2, <1>3, <1>4, <2>3, <2>4, <2>7 DEF Standing
  <2>9. z1 = Take(b, e1)
    BY DEF z1, e1
  <2>10. Heard(up, b, [fields |-> f, events |-> <<e1>>], src, <<>>)
    BY <2>2, <2>a, <2>6, <2>8, <2>9, HeardOne
  <2> QED  BY <2>1, <2>10 DEF e1
<1> QED  BY <1>5 DEF src, up, f

LEMMA AnthropicRedacted ==
  ASSUME NEW b, NEW d, NEW s, Hears("anthropic", b, d, s), s.phase = "body", s.open = "none"
  PROVE  Heard("anthropic", b, DecodeAnthropic(d, [type |-> "block_start", block |-> "redacted"]), [s EXCEPT !.open = "redacted"], <<<<"redacted", 0>>>>)
<1> DEFINE up == "anthropic"
           src == [s EXCEPT !.open = "redacted"]
           f == d
           none == <<>>
<1>1. /\ b \in Answers /\ b.legal /\ ~b.failed /\ b.got = none /\ Standing(up, b, d, s) /\ Advancing(up, b, d, s)
      /\ Settled(b) /\ s \in Sources /\ d \in Decoders /\ s.phase # "failed"
  BY DEF Hears, Standing
<1>2. src \in Sources /\ f \in Decoders
  BY <1>1 DEF Sources, Decoders, Phases, Opened
<1>3. /\ src.phase = s.phase /\ src.open = "redacted" /\ src.calls = s.calls /\ src.usage = s.usage /\ src.cut = s.cut /\ src.blocked = s.blocked /\ src.bare = s.bare /\ src.interleaved = s.interleaved
      /\ f.tool = d.tool /\ f.usage = d.usage
  BY <1>1 DEF Sources, Decoders
<1>4. /\ b.told = s.calls /\ s.calls \in Nat /\ b.told \in Nat /\ b.got \in Seq(Pairs)
      /\ (b.strayed => s.interleaved) /\ (b.bare => s.bare)
      /\ (up = "responses" => s.open \in {"none", "message", "reasoning", "call"})
      /\ b.finished = (s.phase \in {"finished", "ended", "done"})
      /\ (s.phase = "body" => b.begun)
  BY <1>1 DEF Standing, Advancing, Sources, Decoders, Answers
<1>p. \A y : Append(none, y) = <<y>>
  OBVIOUS
<1> HIDE DEF none, src, f
<1>5. Heard(up, b, DecodeAnthropic(d, [type |-> "block_start", block |-> "redacted"]), src, <<<<"redacted", 0>>>>)
  <2>1. DecodeAnthropic(d, [type |-> "block_start", block |-> "redacted"]) = [fields |-> f, events |-> <<Event("redacted"), Event("blockstop")>>]
    BY <1>1 DEF DecodeAnthropic, f
  <2> DEFINE e1 == Event("redacted")
             e2 == Event("blockstop")
             z1 == Take(b, Event("redacted"))
             z2 == Take(z1, Event("blockstop"))
  <2>2. /\ e1 \in Occurrences /\ e1.kind = "redacted"
        /\ e2 \in Occurrences /\ e2.kind = "blockstop"
    BY <1>4, Said DEF Kinds, Contents
  <2>a. Fit(up, e1) /\ Fit(up, e2)
    BY <2>2 DEF Fit, Contents
  <2> HIDE DEF e1, e2
  <2>3. /\ z1 \in Answers /\ z1.legal /\ Calling(b, z1, b.told, Append(b.got, <<"redacted", 0>>), FALSE, b.strayed)
    BY <1>1, <1>3, <1>4, TakesContent DEF Takes, Contents
  <2> HIDE DEF z1
  <2>4. /\ z1.told = b.told /\ (z1.strayed = b.strayed) /\ (z1.hot = FALSE) /\ (z1.begun = b.begun)
        /\ (z1.finished = b.finished) /\ (z1.usage = b.usage) /\ (z1.failed = b.failed) /\ (z1.bare = b.bare)
    BY <1>1, <2>3 DEF Marking, Calling, Answers
  <2>5. z1.got = Append(b.got, <<"redacted", 0>>)
    BY <2>3 DEF Marking, Calling
  <2>6. /\ z2 \in Answers /\ z2.legal /\ Marking(z1, z2, z1.begun, z1.finished, z1.usage, z1.done, z1.failed, z1.bare) /\ ~z2.hot
    BY <1>1, <1>3, <1>4, <2>3, <2>4, <2>5, TakesBlockStop DEF Takes
  <2> HIDE DEF z2
  <2>7. /\ z2.told = b.told /\ (z2.strayed = b.strayed) /\ (z2.hot = FALSE) /\ (z2.begun = b.begun)
        /\ (z2.finished = b.finished) /\ (z2.usage = b.usage) /\ (z2.failed = b.failed) /\ (z2.bare = b.bare)
    BY <1>1, <2>4, <2>5, <2>6 DEF Marking, Calling, Answers
  <2>8. z2.got = Append(b.got, <<"redacted", 0>>)
    BY <2>4, <2>5, <2>6 DEF Marking, Calling
  <2>9. z2.got = <<<<"redacted", 0>>>>
    BY <1>1, <1>p, <2>8
  <2>10. Advancing(up, z2, f, src)
    BY <1>1, <1>3, <1>4, <2>7 DEF Advancing
  <2>11. Standing(up, z2, f, src)
    BY <1>1, <1>2, <1>3, <1>4, <2>6, <2>7, <2>10 DEF Standing
  <2>12. z2 = Take(Take(b, e1), e2)
    BY DEF z1, z2, e1, e2
  <2>13. Heard(up, b, [fields |-> f, events |-> <<e1, e2>>], src, <<<<"redacted", 0>>>>)
    BY <2>2, <2>a, <2>9, <2>11, <2>12, HeardTwo DEF Contents
  <2> QED  BY <2>1, <2>13 DEF e1, e2
<1> QED  BY <1>5 DEF src, up, f

LEMMA AnthropicCall ==
  ASSUME NEW b, NEW d, NEW s, Hears("anthropic", b, d, s), s.phase = "body", s.open = "none"
  PROVE  Heard("anthropic", b, DecodeAnthropic(d, [type |-> "block_start", block |-> "call"]), [s EXCEPT !.open = "call", !.calls = s.calls + 1], <<<<"call", s.calls>>>>)
<1> DEFINE up == "anthropic"
           calls == s.calls + 1
           tool == d.tool + 1
           src == [s EXCEPT !.open = "call", !.calls = calls]
           f == [d EXCEPT !.tool = tool]
           none == <<>>
           n == s.calls
<1>1. /\ b \in Answers /\ b.legal /\ ~b.failed /\ b.got = none /\ Standing(up, b, d, s) /\ Advancing(up, b, d, s)
      /\ Settled(b) /\ s \in Sources /\ d \in Decoders /\ s.phase # "failed"
  BY DEF Hears, Standing
<1>n. calls = s.calls + 1 /\ calls \in Nat /\ tool = d.tool + 1 /\ tool \in Int
  BY <1>1 DEF Sources, Decoders
<1> HIDE DEF calls, tool
<1>2. src \in Sources /\ f \in Decoders
  BY <1>1, <1>n DEF Sources, Decoders, Phases, Opened
<1>3. /\ src.phase = s.phase /\ src.open = "call" /\ src.calls = calls /\ src.usage = s.usage /\ src.cut = s.cut /\ src.blocked = s.blocked /\ src.bare = s.bare /\ src.interleaved = s.interleaved
      /\ f.tool = tool /\ f.usage = d.usage
  BY <1>1, <1>n DEF Sources, Decoders
<1>4. /\ b.told = s.calls /\ s.calls \in Nat /\ b.told \in Nat /\ b.got \in Seq(Pairs)
      /\ (b.strayed => s.interleaved) /\ (b.bare => s.bare)
      /\ (up = "responses" => s.open \in {"none", "message", "reasoning", "call"})
      /\ b.finished = (s.phase \in {"finished", "ended", "done"})
      /\ (s.phase = "body" => b.begun)
      /\ n = b.told /\ n = s.calls /\ n \in Nat /\ n = d.tool + 1
  BY <1>1 DEF Standing, Advancing, Sources, Decoders, Answers, Settled
<1>p. \A y : Append(none, y) = <<y>>
  OBVIOUS
<1> HIDE DEF none, src, f, n
<1>5. Heard(up, b, DecodeAnthropic(d, [type |-> "block_start", block |-> "call"]), src, <<<<"call", n>>>>)
  <2>1. DecodeAnthropic(d, [type |-> "block_start", block |-> "call"]) = [fields |-> f, events |-> <<ToolEvent("toolstart", n)>>]
    BY <1>4 DEF DecodeAnthropic, f, calls, tool, n
  <2> DEFINE e1 == ToolEvent("toolstart", n)
             z1 == Take(b, ToolEvent("toolstart", n))
  <2>2. /\ e1 \in Occurrences /\ e1.kind = "toolstart"
    BY <1>4, Said DEF Kinds, Contents
  <2>a. Fit(up, e1)
    BY <2>2 DEF Fit, Contents
  <2> HIDE DEF e1
  <2>3. /\ z1 \in Answers /\ z1.legal /\ Calling(b, z1, b.told + 1, Append(b.got, <<"call", n>>), TRUE, b.strayed)
    BY <1>1, <1>3, <1>4, TakesTool DEF Takes
  <2> HIDE DEF z1
  <2>4. /\ z1.told = b.told + 1 /\ (z1.strayed = b.strayed) /\ (z1.hot = TRUE) /\ (z1.begun = b.begun)
        /\ (z1.finished = b.finished) /\ (z1.usage = b.usage) /\ (z1.failed = b.failed) /\ (z1.bare = b.bare)
    BY <1>1, <2>3 DEF Marking, Calling, Answers
  <2>5. z1.got = Append(b.got, <<"call", n>>)
    BY <2>3 DEF Marking, Calling
  <2>6. z1.got = <<<<"call", n>>>>
    BY <1>1, <1>p, <2>5
  <2>b. tool + 1 = calls /\ b.told + 1 > 0
    <3>1. tool = n /\ calls = n + 1 /\ b.told = n /\ n \in Nat
      BY <1>4, <1>n
    <3> QED  BY <3>1
  <2>7. Advancing(up, z1, f, src)
    BY <2>b, <1>1, <1>3, <1>4, <2>4 DEF Advancing
  <2>8. Standing(up, z1, f, src)
    BY <1>1, <1>2, <1>3, <1>4, <2>3, <2>4, <2>7, <1>n DEF Standing
  <2>9. z1 = Take(b, e1)
    BY DEF z1, e1
  <2>10. Heard(up, b, [fields |-> f, events |-> <<e1>>], src, <<<<"call", n>>>>)
    BY <2>2, <2>a, <2>6, <2>8, <2>9, HeardOne
  <2> QED  BY <2>1, <2>10 DEF e1
<1> QED  BY <1>5 DEF src, up, f, calls, tool, n

LEMMA AnthropicArguments ==
  ASSUME NEW b, NEW d, NEW s, Hears("anthropic", b, d, s), s.phase = "body", s.open = "call"
  PROVE  Heard("anthropic", b, DecodeAnthropic(d, [type |-> "delta", block |-> "args"]), s, <<<<"args", s.calls - 1>>>>)
<1> DEFINE up == "anthropic"
           src == s
           f == d
           none == <<>>
           n == s.calls - 1
<1>1. /\ b \in Answers /\ b.legal /\ ~b.failed /\ b.got = none /\ Standing(up, b, d, s) /\ Advancing(up, b, d, s)
      /\ Settled(b) /\ s \in Sources /\ d \in Decoders /\ s.phase # "failed"
  BY DEF Hears, Standing
<1>2. src \in Sources /\ f \in Decoders
  BY <1>1 DEF Sources, Decoders, Phases, Opened
<1>3. /\ src.phase = s.phase /\ src.open = s.open /\ src.calls = s.calls /\ src.usage = s.usage /\ src.cut = s.cut /\ src.blocked = s.blocked /\ src.bare = s.bare /\ src.interleaved = s.interleaved
      /\ f.tool = d.tool /\ f.usage = d.usage
  BY <1>1 DEF Sources, Decoders
<1>4. /\ b.told = s.calls /\ s.calls \in Nat /\ b.told \in Nat /\ b.got \in Seq(Pairs)
      /\ (b.strayed => s.interleaved) /\ (b.bare => s.bare)
      /\ (up = "responses" => s.open \in {"none", "message", "reasoning", "call"})
      /\ b.finished = (s.phase \in {"finished", "ended", "done"})
      /\ (s.phase = "body" => b.begun)
      /\ n + 1 = b.told /\ n \in Nat /\ n = d.tool /\ d.tool >= 0 /\ n < b.told /\ b.hot
  BY <1>1 DEF Standing, Advancing, Sources, Decoders, Answers, Settled
<1>p. \A y : Append(none, y) = <<y>>
  OBVIOUS
<1> HIDE DEF none, src, f, n
<1>5. Heard(up, b, DecodeAnthropic(d, [type |-> "delta", block |-> "args"]), src, <<<<"args", n>>>>)
  <2>1. DecodeAnthropic(d, [type |-> "delta", block |-> "args"]) = [fields |-> f, events |-> <<ToolEvent("toolargs", n)>>]
    BY <1>4 DEF DecodeAnthropic, If, f, n
  <2> DEFINE e1 == ToolEvent("toolargs", n)
             z1 == Take(b, ToolEvent("toolargs", n))
  <2>2. /\ e1 \in Occurrences /\ e1.kind = "toolargs"
    BY <1>4, Said DEF Kinds, Contents
  <2>a. Fit(up, e1)
    BY <2>2 DEF Fit, Contents
  <2> HIDE DEF e1
  <2>3. /\ z1 \in Answers /\ z1.legal /\ Calling(b, z1, b.told, Append(b.got, <<"args", n>>), b.hot, b.strayed \/ ~(b.hot /\ n + 1 = b.told))
    BY <1>1, <1>3, <1>4, TakesArguments DEF Takes
  <2> HIDE DEF z1
  <2>4. /\ z1.told = b.told /\ (z1.strayed = (b.strayed \/ ~(b.hot /\ n + 1 = b.told))) /\ (z1.hot = b.hot) /\ (z1.begun = b.begun)
        /\ (z1.finished = b.finished) /\ (z1.usage = b.usage) /\ (z1.failed = b.failed) /\ (z1.bare = b.bare)
    BY <1>1, <2>3 DEF Marking, Calling, Answers
  <2>5. z1.got = Append(b.got, <<"args", n>>)
    BY <2>3 DEF Marking, Calling
  <2>6. z1.got = <<<<"args", n>>>>
    BY <1>1, <1>p, <2>5
  <2>7. Advancing(up, z1, f, src)
    BY <1>1, <1>3, <1>4, <2>4 DEF Advancing
  <2>8. Standing(up, z1, f, src)
    BY <1>1, <1>2, <1>3, <1>4, <2>3, <2>4, <2>7 DEF Standing
  <2>9. z1 = Take(b, e1)
    BY DEF z1, e1
  <2>10. Heard(up, b, [fields |-> f, events |-> <<e1>>], src, <<<<"args", n>>>>)
    BY <2>2, <2>a, <2>6, <2>8, <2>9, HeardOne
  <2> QED  BY <2>1, <2>10 DEF e1
<1> QED  BY <1>5 DEF src, up, f, n

LEMMA AnthropicSays ==
  ASSUME NEW b, NEW d, NEW s, Hears("anthropic", b, d, s), s.phase = "body", s.open # "call", NEW what \in {"text", "thinking", "signature"}
  PROVE  Heard("anthropic", b, DecodeAnthropic(d, [type |-> "delta", block |-> what]), s, <<<<what, 0>>>>)
<1> DEFINE up == "anthropic"
           src == s
           f == d
           none == <<>>
<1>1. /\ b \in Answers /\ b.legal /\ ~b.failed /\ b.got = none /\ Standing(up, b, d, s) /\ Advancing(up, b, d, s)
      /\ Settled(b) /\ s \in Sources /\ d \in Decoders /\ s.phase # "failed"
  BY DEF Hears, Standing
<1>2. src \in Sources /\ f \in Decoders
  BY <1>1 DEF Sources, Decoders, Phases, Opened
<1>3. /\ src.phase = s.phase /\ src.open = s.open /\ src.calls = s.calls /\ src.usage = s.usage /\ src.cut = s.cut /\ src.blocked = s.blocked /\ src.bare = s.bare /\ src.interleaved = s.interleaved
      /\ f.tool = d.tool /\ f.usage = d.usage
  BY <1>1 DEF Sources, Decoders
<1>4. /\ b.told = s.calls /\ s.calls \in Nat /\ b.told \in Nat /\ b.got \in Seq(Pairs)
      /\ (b.strayed => s.interleaved) /\ (b.bare => s.bare)
      /\ (up = "responses" => s.open \in {"none", "message", "reasoning", "call"})
      /\ b.finished = (s.phase \in {"finished", "ended", "done"})
      /\ (s.phase = "body" => b.begun)
  BY <1>1 DEF Standing, Advancing, Sources, Decoders, Answers
<1>p. \A y : Append(none, y) = <<y>>
  OBVIOUS
<1> HIDE DEF none, src, f
<1>5. Heard(up, b, DecodeAnthropic(d, [type |-> "delta", block |-> what]), src, <<<<what, 0>>>>)
  <2>1. DecodeAnthropic(d, [type |-> "delta", block |-> what]) = [fields |-> f, events |-> <<Event(what)>>]
    BY <1>4 DEF DecodeAnthropic, f
  <2> DEFINE e1 == Event(what)
             z1 == Take(b, Event(what))
  <2>2. /\ e1 \in Occurrences /\ e1.kind = what
    BY <1>4, Said DEF Kinds, Contents
  <2>a. Fit(up, e1)
    BY <2>2 DEF Fit, Contents
  <2> HIDE DEF e1
  <2>3. /\ z1 \in Answers /\ z1.legal /\ Calling(b, z1, b.told, Append(b.got, <<what, 0>>), FALSE, b.strayed)
    BY <1>1, <1>3, <1>4, TakesContent DEF Takes, Contents
  <2> HIDE DEF z1
  <2>4. /\ z1.told = b.told /\ (z1.strayed = b.strayed) /\ (z1.hot = FALSE) /\ (z1.begun = b.begun)
        /\ (z1.finished = b.finished) /\ (z1.usage = b.usage) /\ (z1.failed = b.failed) /\ (z1.bare = b.bare)
    BY <1>1, <2>3 DEF Marking, Calling, Answers
  <2>5. z1.got = Append(b.got, <<what, 0>>)
    BY <2>3 DEF Marking, Calling
  <2>6. z1.got = <<<<what, 0>>>>
    BY <1>1, <1>p, <2>5
  <2>7. Advancing(up, z1, f, src)
    BY <1>1, <1>3, <1>4, <2>4 DEF Advancing
  <2>8. Standing(up, z1, f, src)
    BY <1>1, <1>2, <1>3, <1>4, <2>3, <2>4, <2>7 DEF Standing
  <2>9. z1 = Take(b, e1)
    BY DEF z1, e1
  <2>10. Heard(up, b, [fields |-> f, events |-> <<e1>>], src, <<<<what, 0>>>>)
    BY <2>2, <2>a, <2>6, <2>8, <2>9, HeardOne DEF Contents
  <2> QED  BY <2>1, <2>10 DEF e1
<1> QED  BY <1>5 DEF src, up, f

LEMMA AnthropicBlockStop ==
  ASSUME NEW b, NEW d, NEW s, Hears("anthropic", b, d, s), s.phase = "body"
  PROVE  Heard("anthropic", b, DecodeAnthropic(d, [type |-> "block_stop"]), [s EXCEPT !.open = "none"], <<>>)
<1> DEFINE up == "anthropic"
           src == [s EXCEPT !.open = "none"]
           f == d
           none == <<>>
<1>1. /\ b \in Answers /\ b.legal /\ ~b.failed /\ b.got = none /\ Standing(up, b, d, s) /\ Advancing(up, b, d, s)
      /\ Settled(b) /\ s \in Sources /\ d \in Decoders /\ s.phase # "failed"
  BY DEF Hears, Standing
<1>2. src \in Sources /\ f \in Decoders
  BY <1>1 DEF Sources, Decoders, Phases, Opened
<1>3. /\ src.phase = s.phase /\ src.open = "none" /\ src.calls = s.calls /\ src.usage = s.usage /\ src.cut = s.cut /\ src.blocked = s.blocked /\ src.bare = s.bare /\ src.interleaved = s.interleaved
      /\ f.tool = d.tool /\ f.usage = d.usage
  BY <1>1 DEF Sources, Decoders
<1>4. /\ b.told = s.calls /\ s.calls \in Nat /\ b.told \in Nat /\ b.got \in Seq(Pairs)
      /\ (b.strayed => s.interleaved) /\ (b.bare => s.bare)
      /\ (up = "responses" => s.open \in {"none", "message", "reasoning", "call"})
      /\ b.finished = (s.phase \in {"finished", "ended", "done"})
      /\ (s.phase = "body" => b.begun)
  BY <1>1 DEF Standing, Advancing, Sources, Decoders, Answers
<1>p. \A y : Append(none, y) = <<y>>
  OBVIOUS
<1> HIDE DEF none, src, f
<1>5. Heard(up, b, DecodeAnthropic(d, [type |-> "block_stop"]), src, <<>>)
  <2>1. DecodeAnthropic(d, [type |-> "block_stop"]) = [fields |-> f, events |-> <<Event("blockstop")>>]
    BY <1>4 DEF DecodeAnthropic, f
  <2> DEFINE e1 == Event("blockstop")
             z1 == Take(b, Event("blockstop"))
  <2>2. /\ e1 \in Occurrences /\ e1.kind = "blockstop"
    BY <1>4, Said DEF Kinds, Contents
  <2>a. Fit(up, e1)
    BY <2>2 DEF Fit, Contents
  <2> HIDE DEF e1
  <2>3. /\ z1 \in Answers /\ z1.legal /\ Marking(b, z1, b.begun, b.finished, b.usage, b.done, b.failed, b.bare) /\ ~z1.hot
    BY <1>1, <1>3, <1>4, TakesBlockStop DEF Takes
  <2> HIDE DEF z1
  <2>4. /\ z1.told = b.told /\ (z1.strayed = b.strayed) /\ (z1.hot = FALSE) /\ (z1.begun = b.begun)
        /\ (z1.finished = b.finished) /\ (z1.usage = b.usage) /\ (z1.failed = b.failed) /\ (z1.bare = b.bare)
    BY <1>1, <2>3 DEF Marking, Calling, Answers
  <2>5. z1.got = b.got
    BY <2>3 DEF Marking, Calling
  <2>6. z1.got = <<>>
    BY <1>1, <1>p, <2>5 DEF none
  <2>7. Advancing(up, z1, f, src)
    BY <1>1, <1>3, <1>4, <2>4 DEF Advancing
  <2>8. Standing(up, z1, f, src)
    BY <1>1, <1>2, <1>3, <1>4, <2>3, <2>4, <2>7 DEF Standing
  <2>9. z1 = Take(b, e1)
    BY DEF z1, e1
  <2>10. Heard(up, b, [fields |-> f, events |-> <<e1>>], src, <<>>)
    BY <2>2, <2>a, <2>6, <2>8, <2>9, HeardOne
  <2> QED  BY <2>1, <2>10 DEF e1
<1> QED  BY <1>5 DEF src, up, f

LEMMA AnthropicFinish ==
  ASSUME NEW b, NEW d, NEW s, Hears("anthropic", b, d, s), s.phase = "body", NEW usage \in BOOLEAN
  PROVE  Heard("anthropic", b, DecodeAnthropic(d, [type |-> "message_delta", usage |-> usage]), [s EXCEPT !.phase = "finished", !.usage = (s.usage \/ usage)], <<>>)
<1> DEFINE up == "anthropic"
           src == [s EXCEPT !.phase = "finished", !.usage = (s.usage \/ usage)]
           f == [d EXCEPT !.usage = d.usage \/ usage]
           none == <<>>
<1>1. /\ b \in Answers /\ b.legal /\ ~b.failed /\ b.got = none /\ Standing(up, b, d, s) /\ Advancing(up, b, d, s)
      /\ Settled(b) /\ s \in Sources /\ d \in Decoders /\ s.phase # "failed"
  BY DEF Hears, Standing
<1>2. src \in Sources /\ f \in Decoders
  BY <1>1 DEF Sources, Decoders, Phases, Opened
<1>3. /\ src.phase = "finished" /\ src.open = s.open /\ src.calls = s.calls /\ src.usage = (s.usage \/ usage) /\ src.cut = s.cut /\ src.blocked = s.blocked /\ src.bare = s.bare /\ src.interleaved = s.interleaved
      /\ f.tool = d.tool /\ f.usage = (d.usage \/ usage)
  BY <1>1 DEF Sources, Decoders
<1>4. /\ b.told = s.calls /\ s.calls \in Nat /\ b.told \in Nat /\ b.got \in Seq(Pairs)
      /\ (b.strayed => s.interleaved) /\ (b.bare => s.bare)
      /\ (up = "responses" => s.open \in {"none", "message", "reasoning", "call"})
      /\ b.finished = (s.phase \in {"finished", "ended", "done"})
      /\ (s.phase = "body" => b.begun)
  BY <1>1 DEF Standing, Advancing, Sources, Decoders, Answers
<1>p. \A y : Append(none, y) = <<y>>
  OBVIOUS
<1> HIDE DEF none, src, f
<1>5. ASSUME usage PROVE Heard(up, b, DecodeAnthropic(d, [type |-> "message_delta", usage |-> usage]), src, <<>>)
  <2>1. DecodeAnthropic(d, [type |-> "message_delta", usage |-> usage]) = [fields |-> f, events |-> <<Event("usage"), StopEvent("stop")>>]
    BY OneOr, <1>5 DEF DecodeAnthropic, f
  <2> DEFINE e1 == Event("usage")
             e2 == StopEvent("stop")
             z1 == Take(b, Event("usage"))
             z2 == Take(z1, StopEvent("stop"))
  <2>2. /\ e1 \in Occurrences /\ e1.kind = "usage"
        /\ e2 \in Occurrences /\ e2.kind = "stop"
    BY <1>4, Said DEF Kinds, Contents
  <2>a. Fit(up, e1) /\ Fit(up, e2)
    BY <2>2 DEF Fit, Contents
  <2> HIDE DEF e1, e2
  <2>3. /\ z1 \in Answers /\ z1.legal /\ Marking(b, z1, b.begun, b.finished, b.usage \/ b.finished, b.done, b.failed, b.bare) /\ z1.hot = b.hot
    BY <1>1, <1>3, <1>4, <1>5, TakesUsage DEF Takes
  <2> HIDE DEF z1
  <2>4. /\ z1.told = b.told /\ (z1.strayed = b.strayed) /\ (z1.hot = b.hot) /\ (z1.begun = b.begun)
        /\ (z1.finished = b.finished) /\ (z1.usage = (b.usage \/ b.finished)) /\ (z1.failed = b.failed) /\ (z1.bare = b.bare)
    BY <1>1, <2>3 DEF Marking, Calling, Answers
  <2>5. z1.got = b.got
    BY <2>3 DEF Marking, Calling
  <2>6. /\ z2 \in Answers /\ z2.legal /\ Marking(z1, z2, z1.begun, TRUE, z1.usage, z1.done, z1.failed, z1.bare \/ ~z1.begun) /\ ~z2.hot
    BY <1>1, <1>3, <1>4, <2>3, <2>4, <2>5, <1>5, TakesStop DEF Takes
  <2> HIDE DEF z2
  <2>7. /\ z2.told = b.told /\ (z2.strayed = b.strayed) /\ (z2.hot = FALSE) /\ (z2.begun = b.begun)
        /\ (z2.finished = TRUE) /\ (z2.usage = (b.usage \/ b.finished)) /\ (z2.failed = b.failed) /\ (z2.bare = (b.bare \/ ~b.begun))
    BY <1>1, <2>4, <2>5, <2>6 DEF Marking, Calling, Answers
  <2>8. z2.got = b.got
    BY <2>4, <2>5, <2>6 DEF Marking, Calling
  <2>9. z2.got = <<>>
    BY <1>1, <1>p, <2>8 DEF none
  <2>10. Advancing(up, z2, f, src)
    BY <1>1, <1>3, <1>4, <2>7, <1>5 DEF Advancing
  <2>11. Standing(up, z2, f, src)
    BY <1>1, <1>2, <1>3, <1>4, <2>6, <2>7, <2>10, <1>5 DEF Standing
  <2>12. z2 = Take(Take(b, e1), e2)
    BY DEF z1, z2, e1, e2
  <2>13. Heard(up, b, [fields |-> f, events |-> <<e1, e2>>], src, <<>>)
    BY <2>2, <2>a, <2>9, <2>11, <2>12, HeardTwo
  <2> QED  BY <2>1, <2>13 DEF e1, e2
<1>6. ASSUME ~usage PROVE Heard(up, b, DecodeAnthropic(d, [type |-> "message_delta", usage |-> usage]), src, <<>>)
  <2>1. DecodeAnthropic(d, [type |-> "message_delta", usage |-> usage]) = [fields |-> f, events |-> <<StopEvent("stop")>>]
    BY OneOr, <1>6 DEF DecodeAnthropic, f
  <2> DEFINE e1 == StopEvent("stop")
             z1 == Take(b, StopEvent("stop"))
  <2>2. /\ e1 \in Occurrences /\ e1.kind = "stop"
    BY <1>4, Said DEF Kinds, Contents
  <2>a. Fit(up, e1)
    BY <2>2 DEF Fit, Contents
  <2> HIDE DEF e1
  <2>3. /\ z1 \in Answers /\ z1.legal /\ Marking(b, z1, b.begun, TRUE, b.usage, b.done, b.failed, b.bare \/ ~b.begun) /\ ~z1.hot
    BY <1>1, <1>3, <1>4, <1>6, TakesStop DEF Takes
  <2> HIDE DEF z1
  <2>4. /\ z1.told = b.told /\ (z1.strayed = b.strayed) /\ (z1.hot = FALSE) /\ (z1.begun = b.begun)
        /\ (z1.finished = TRUE) /\ (z1.usage = b.usage) /\ (z1.failed = b.failed) /\ (z1.bare = (b.bare \/ ~b.begun))
    BY <1>1, <2>3 DEF Marking, Calling, Answers
  <2>5. z1.got = b.got
    BY <2>3 DEF Marking, Calling
  <2>6. z1.got = <<>>
    BY <1>1, <1>p, <2>5 DEF none
  <2>7. Advancing(up, z1, f, src)
    BY <1>1, <1>3, <1>4, <2>4, <1>6 DEF Advancing
  <2>8. Standing(up, z1, f, src)
    BY <1>1, <1>2, <1>3, <1>4, <2>3, <2>4, <2>7, <1>6 DEF Standing
  <2>9. z1 = Take(b, e1)
    BY DEF z1, e1
  <2>10. Heard(up, b, [fields |-> f, events |-> <<e1>>], src, <<>>)
    BY <2>2, <2>a, <2>6, <2>8, <2>9, HeardOne
  <2> QED  BY <2>1, <2>10 DEF e1
<1> QED  BY <1>5, <1>6 DEF src, up, f

LEMMA AnthropicEnd ==
  ASSUME NEW b, NEW d, NEW s, Hears("anthropic", b, d, s), s.phase = "finished"
  PROVE  Heard("anthropic", b, DecodeAnthropic(d, [type |-> "message_stop"]), [s EXCEPT !.phase = "ended"], <<>>)
<1> DEFINE up == "anthropic"
           src == [s EXCEPT !.phase = "ended"]
           f == d
           none == <<>>
<1>1. /\ b \in Answers /\ b.legal /\ ~b.failed /\ b.got = none /\ Standing(up, b, d, s) /\ Advancing(up, b, d, s)
      /\ Settled(b) /\ s \in Sources /\ d \in Decoders /\ s.phase # "failed"
  BY DEF Hears, Standing
<1>2. src \in Sources /\ f \in Decoders
  BY <1>1 DEF Sources, Decoders, Phases, Opened
<1>3. /\ src.phase = "ended" /\ src.open = s.open /\ src.calls = s.calls /\ src.usage = s.usage /\ src.cut = s.cut /\ src.blocked = s.blocked /\ src.bare = s.bare /\ src.interleaved = s.interleaved
      /\ f.tool = d.tool /\ f.usage = d.usage
  BY <1>1 DEF Sources, Decoders
<1>4. /\ b.told = s.calls /\ s.calls \in Nat /\ b.told \in Nat /\ b.got \in Seq(Pairs)
      /\ (b.strayed => s.interleaved) /\ (b.bare => s.bare)
      /\ (up = "responses" => s.open \in {"none", "message", "reasoning", "call"})
      /\ b.finished = (s.phase \in {"finished", "ended", "done"})
      /\ (s.phase = "body" => b.begun)
  BY <1>1 DEF Standing, Advancing, Sources, Decoders, Answers
<1>p. \A y : Append(none, y) = <<y>>
  OBVIOUS
<1> HIDE DEF none, src, f
<1>5. ASSUME d.usage PROVE Heard(up, b, DecodeAnthropic(d, [type |-> "message_stop"]), src, <<>>)
  <2>1. DecodeAnthropic(d, [type |-> "message_stop"]) = [fields |-> f, events |-> <<Event("usage")>>]
    BY <1>1, <1>5 DEF DecodeAnthropic, If, f
  <2> DEFINE e1 == Event("usage")
             z1 == Take(b, Event("usage"))
  <2>2. /\ e1 \in Occurrences /\ e1.kind = "usage"
    BY <1>4, Said DEF Kinds, Contents
  <2>a. Fit(up, e1)
    BY <2>2 DEF Fit, Contents
  <2> HIDE DEF e1
  <2>3. /\ z1 \in Answers /\ z1.legal /\ Marking(b, z1, b.begun, b.finished, b.usage \/ b.finished, b.done, b.failed, b.bare) /\ z1.hot = b.hot
    BY <1>1, <1>3, <1>4, <1>5, TakesUsage DEF Takes
  <2> HIDE DEF z1
  <2>4. /\ z1.told = b.told /\ (z1.strayed = b.strayed) /\ (z1.hot = b.hot) /\ (z1.begun = b.begun)
        /\ (z1.finished = b.finished) /\ (z1.usage = (b.usage \/ b.finished)) /\ (z1.failed = b.failed) /\ (z1.bare = b.bare)
    BY <1>1, <2>3 DEF Marking, Calling, Answers
  <2>5. z1.got = b.got
    BY <2>3 DEF Marking, Calling
  <2>6. z1.got = <<>>
    BY <1>1, <1>p, <2>5 DEF none
  <2>7. Advancing(up, z1, f, src)
    BY <1>1, <1>3, <1>4, <2>4, <1>5 DEF Advancing
  <2>8. Standing(up, z1, f, src)
    BY <1>1, <1>2, <1>3, <1>4, <2>3, <2>4, <2>7, <1>5 DEF Standing
  <2>9. z1 = Take(b, e1)
    BY DEF z1, e1
  <2>10. Heard(up, b, [fields |-> f, events |-> <<e1>>], src, <<>>)
    BY <2>2, <2>a, <2>6, <2>8, <2>9, HeardOne
  <2> QED  BY <2>1, <2>10 DEF e1
<1>6. ASSUME ~d.usage PROVE Heard(up, b, DecodeAnthropic(d, [type |-> "message_stop"]), src, <<>>)
  <2>1. DecodeAnthropic(d, [type |-> "message_stop"]) = [fields |-> f, events |-> <<>>]
    BY <1>1, <1>6 DEF DecodeAnthropic, If, f
  <2>2. Advancing(up, b, f, src)
    BY <1>1, <1>3, <1>4, <1>6 DEF Advancing
  <2>3. Standing(up, b, f, src)
    BY <1>1, <1>2, <1>3, <1>4, <2>2, <1>6 DEF Standing
  <2> QED  BY <1>1, <2>1, <2>3, HeardNone DEF none
<1> QED  BY <1>5, <1>6 DEF src, up, f

LEMMA AnthropicError ==
  ASSUME NEW b, NEW d, NEW s, Hears("anthropic", b, d, s), s.phase \in {"new", "body"}
  PROVE  Heard("anthropic", b, DecodeAnthropic(d, [type |-> "error"]), [s EXCEPT !.phase = "failed"], <<>>)
<1> DEFINE up == "anthropic"
           src == [s EXCEPT !.phase = "failed"]
           f == d
           none == <<>>
<1>1. /\ b \in Answers /\ b.legal /\ ~b.failed /\ b.got = none /\ Standing(up, b, d, s) /\ Advancing(up, b, d, s)
      /\ Settled(b) /\ s \in Sources /\ d \in Decoders /\ s.phase # "failed"
  BY DEF Hears, Standing
<1>2. src \in Sources /\ f \in Decoders
  BY <1>1 DEF Sources, Decoders, Phases, Opened
<1>3. /\ src.phase = "failed" /\ src.open = s.open /\ src.calls = s.calls /\ src.usage = s.usage /\ src.cut = s.cut /\ src.blocked = s.blocked /\ src.bare = s.bare /\ src.interleaved = s.interleaved
      /\ f.tool = d.tool /\ f.usage = d.usage
  BY <1>1 DEF Sources, Decoders
<1>4. /\ b.told = s.calls /\ s.calls \in Nat /\ b.told \in Nat /\ b.got \in Seq(Pairs)
      /\ (b.strayed => s.interleaved) /\ (b.bare => s.bare)
      /\ (up = "responses" => s.open \in {"none", "message", "reasoning", "call"})
      /\ b.finished = (s.phase \in {"finished", "ended", "done"})
      /\ (s.phase = "body" => b.begun)
  BY <1>1 DEF Standing, Advancing, Sources, Decoders, Answers
<1>p. \A y : Append(none, y) = <<y>>
  OBVIOUS
<1> HIDE DEF none, src, f
<1>5. Heard(up, b, DecodeAnthropic(d, [type |-> "error"]), src, <<>>)
  <2>1. DecodeAnthropic(d, [type |-> "error"]) = [fields |-> f, events |-> <<Event("error")>>]
    BY <1>1 DEF DecodeAnthropic, f
  <2> DEFINE e1 == Event("error")
             z1 == Take(b, Event("error"))
  <2>2. /\ e1 \in Occurrences /\ e1.kind = "error"
    BY <1>4, Said DEF Kinds, Contents
  <2>a. Fit(up, e1)
    BY <2>2 DEF Fit, Contents
  <2> HIDE DEF e1
  <2>3. /\ z1 \in Answers /\ z1.legal /\ Marking(b, z1, b.begun, b.finished, b.usage, b.done, TRUE, b.bare) /\ ~z1.hot
    BY <1>1, <1>3, <1>4, TakesError DEF Takes
  <2> HIDE DEF z1
  <2>4. /\ z1.told = b.told /\ (z1.strayed = b.strayed) /\ (z1.hot = FALSE) /\ (z1.begun = b.begun)
        /\ (z1.finished = b.finished) /\ (z1.usage = b.usage) /\ (z1.failed = TRUE) /\ (z1.bare = b.bare)
    BY <1>1, <2>3 DEF Marking, Calling, Answers
  <2>5. z1.got = b.got
    BY <2>3 DEF Marking, Calling
  <2>6. z1.got = <<>>
    BY <1>1, <1>p, <2>5 DEF none
  <2>7. Standing(up, z1, f, src)
    BY <1>2, <1>3, <1>4, <2>3, <2>4 DEF Standing
  <2>8. z1 = Take(b, e1)
    BY DEF z1, e1
  <2>9. Heard(up, b, [fields |-> f, events |-> <<e1>>], src, <<>>)
    BY <2>2, <2>a, <2>6, <2>7, <2>8, HeardOne
  <2> QED  BY <2>1, <2>9 DEF e1
<1> QED  BY <1>5 DEF src, up, f

LEMMA AnthropicDone ==
  ASSUME NEW b, NEW d, NEW s, Hears("anthropic", b, d, s), s.phase = "ended"
  PROVE  Heard("anthropic", b, DecodeAnthropic(d, [type |-> "done", what |-> "done", role |-> FALSE, finish |-> FALSE, usage |-> FALSE]), [s EXCEPT !.phase = "done"], <<>>)
<1> DEFINE up == "anthropic"
           src == [s EXCEPT !.phase = "done"]
           f == d
           none == <<>>
<1>1. /\ b \in Answers /\ b.legal /\ ~b.failed /\ b.got = none /\ Standing(up, b, d, s) /\ Advancing(up, b, d, s)
      /\ Settled(b) /\ s \in Sources /\ d \in Decoders /\ s.phase # "failed"
  BY DEF Hears, Standing
<1>2. src \in Sources /\ f \in Decoders
  BY <1>1 DEF Sources, Decoders, Phases, Opened
<1>3. /\ src.phase = "done" /\ src.open = s.open /\ src.calls = s.calls /\ src.usage = s.usage /\ src.cut = s.cut /\ src.blocked = s.blocked /\ src.bare = s.bare /\ src.interleaved = s.interleaved
      /\ f.tool = d.tool /\ f.usage = d.usage
  BY <1>1 DEF Sources, Decoders
<1>4. /\ b.told = s.calls /\ s.calls \in Nat /\ b.told \in Nat /\ b.got \in Seq(Pairs)
      /\ (b.strayed => s.interleaved) /\ (b.bare => s.bare)
      /\ (up = "responses" => s.open \in {"none", "message", "reasoning", "call"})
      /\ b.finished = (s.phase \in {"finished", "ended", "done"})
      /\ (s.phase = "body" => b.begun)
  BY <1>1 DEF Standing, Advancing, Sources, Decoders, Answers
<1>p. \A y : Append(none, y) = <<y>>
  OBVIOUS
<1> HIDE DEF none, src, f
<1>5. Heard(up, b, DecodeAnthropic(d, [type |-> "done", what |-> "done", role |-> FALSE, finish |-> FALSE, usage |-> FALSE]), src, <<>>)
  <2>1. DecodeAnthropic(d, [type |-> "done", what |-> "done", role |-> FALSE, finish |-> FALSE, usage |-> FALSE]) = [fields |-> f, events |-> <<Event("done")>>]
    BY <1>1 DEF DecodeAnthropic, f
  <2> DEFINE e1 == Event("done")
             z1 == Take(b, Event("done"))
  <2>2. /\ e1 \in Occurrences /\ e1.kind = "done"
    BY <1>4, Said DEF Kinds, Contents
  <2>a. Fit(up, e1)
    BY <2>2 DEF Fit, Contents
  <2> HIDE DEF e1
  <2>3. /\ z1 \in Answers /\ z1.legal /\ Marking(b, z1, b.begun, b.finished, b.usage, TRUE, b.failed, b.bare) /\ z1.hot = b.hot
    BY <1>1, <1>3, <1>4, TakesDone DEF Takes
  <2> HIDE DEF z1
  <2>4. /\ z1.told = b.told /\ (z1.strayed = b.strayed) /\ (z1.hot = b.hot) /\ (z1.begun = b.begun)
        /\ (z1.finished = b.finished) /\ (z1.usage = b.usage) /\ (z1.failed = b.failed) /\ (z1.bare = b.bare)
    BY <1>1, <2>3 DEF Marking, Calling, Answers
  <2>5. z1.got = b.got
    BY <2>3 DEF Marking, Calling
  <2>6. z1.got = <<>>
    BY <1>1, <1>p, <2>5 DEF none
  <2>7. Advancing(up, z1, f, src)
    BY <1>1, <1>3, <1>4, <2>4 DEF Advancing
  <2>8. Standing(up, z1, f, src)
    BY <1>1, <1>2, <1>3, <1>4, <2>3, <2>4, <2>7 DEF Standing
  <2>9. z1 = Take(b, e1)
    BY DEF z1, e1
  <2>10. Heard(up, b, [fields |-> f, events |-> <<e1>>], src, <<>>)
    BY <2>2, <2>a, <2>6, <2>8, <2>9, HeardOne DEF e1
  <2> QED  BY <2>1, <2>10 DEF e1
<1> QED  BY <1>5 DEF src, up, f

(* -- Responses -- *)
LEMMA ResponsesCreated ==
  ASSUME NEW b, NEW d, NEW s, Hears("responses", b, d, s), s.phase = "new"
  PROVE  Heard("responses", b, DecodeResponses(d, [type |-> "created"]), [s EXCEPT !.phase = "body"], <<>>)
<1> DEFINE up == "responses"
           src == [s EXCEPT !.phase = "body"]
           f == d
           none == <<>>
<1>1. /\ b \in Answers /\ b.legal /\ ~b.failed /\ b.got = none /\ Standing(up, b, d, s) /\ Advancing(up, b, d, s)
      /\ Settled(b) /\ s \in Sources /\ d \in Decoders /\ s.phase # "failed"
  BY DEF Hears, Standing
<1>2. src \in Sources /\ f \in Decoders
  BY <1>1 DEF Sources, Decoders, Phases, Opened
<1>3. /\ src.phase = "body" /\ src.open = s.open /\ src.calls = s.calls /\ src.usage = s.usage /\ src.cut = s.cut /\ src.blocked = s.blocked /\ src.bare = s.bare /\ src.interleaved = s.interleaved
      /\ f.tool = d.tool /\ f.usage = d.usage
  BY <1>1 DEF Sources, Decoders
<1>4. /\ b.told = s.calls /\ s.calls \in Nat /\ b.told \in Nat /\ b.got \in Seq(Pairs)
      /\ (b.strayed => s.interleaved) /\ (b.bare => s.bare)
      /\ (up = "responses" => s.open \in {"none", "message", "reasoning", "call"})
      /\ b.finished = (s.phase \in {"finished", "ended", "done"})
      /\ (s.phase = "body" => b.begun)
  BY <1>1 DEF Standing, Advancing, Sources, Decoders, Answers
<1>p. \A y : Append(none, y) = <<y>>
  OBVIOUS
<1> HIDE DEF none, src, f
<1>5. Heard(up, b, DecodeResponses(d, [type |-> "created"]), src, <<>>)
  <2>1. DecodeResponses(d, [type |-> "created"]) = [fields |-> f, events |-> <<Event("start")>>]
    BY <1>1 DEF DecodeResponses, f
  <2> DEFINE e1 == Event("start")
             z1 == Take(b, Event("start"))
  <2>2. /\ e1 \in Occurrences /\ e1.kind = "start"
    BY <1>4, Said DEF Kinds, Contents
  <2>a. Fit(up, e1)
    BY <2>2 DEF Fit, Contents
  <2> HIDE DEF e1
  <2>3. /\ z1 \in Answers /\ z1.legal /\ Marking(b, z1, TRUE, b.finished, b.usage, b.done, b.failed, b.bare) /\ z1.hot = b.hot
    BY <1>1, <1>3, <1>4, TakesStart DEF Takes
  <2> HIDE DEF z1
  <2>4. /\ z1.told = b.told /\ (z1.strayed = b.strayed) /\ (z1.hot = b.hot) /\ (z1.begun = TRUE)
        /\ (z1.finished = b.finished) /\ (z1.usage = b.usage) /\ (z1.failed = b.failed) /\ (z1.bare = b.bare)
    BY <1>1, <2>3 DEF Marking, Calling, Answers
  <2>5. z1.got = b.got
    BY <2>3 DEF Marking, Calling
  <2>6. z1.got = <<>>
    BY <1>1, <1>p, <2>5 DEF none
  <2>7. Advancing(up, z1, f, src)
    BY <1>1, <1>3, <1>4, <2>4 DEF Advancing
  <2>8. Standing(up, z1, f, src)
    BY <1>1, <1>2, <1>3, <1>4, <2>3, <2>4, <2>7 DEF Standing
  <2>9. z1 = Take(b, e1)
    BY DEF z1, e1
  <2>10. Heard(up, b, [fields |-> f, events |-> <<e1>>], src, <<>>)
    BY <2>2, <2>a, <2>6, <2>8, <2>9, HeardOne
  <2> QED  BY <2>1, <2>10 DEF e1
<1> QED  BY <1>5 DEF src, up, f

LEMMA ResponsesItem ==
  ASSUME NEW b, NEW d, NEW s, Hears("responses", b, d, s), s.phase = "body", s.open = "none", NEW item \in {"message", "reasoning"}
  PROVE  Heard("responses", b, DecodeResponses(d, [type |-> "item_added", block |-> item]), [s EXCEPT !.open = item], <<>>)
<1> DEFINE up == "responses"
           src == [s EXCEPT !.open = item]
           f == d
           none == <<>>
<1>1. /\ b \in Answers /\ b.legal /\ ~b.failed /\ b.got = none /\ Standing(up, b, d, s) /\ Advancing(up, b, d, s)
      /\ Settled(b) /\ s \in Sources /\ d \in Decoders /\ s.phase # "failed"
  BY DEF Hears, Standing
<1>2. src \in Sources /\ f \in Decoders
  BY <1>1 DEF Sources, Decoders, Phases, Opened
<1>3. /\ src.phase = s.phase /\ src.open = item /\ src.calls = s.calls /\ src.usage = s.usage /\ src.cut = s.cut /\ src.blocked = s.blocked /\ src.bare = s.bare /\ src.interleaved = s.interleaved
      /\ f.tool = d.tool /\ f.usage = d.usage
  BY <1>1 DEF Sources, Decoders
<1>4. /\ b.told = s.calls /\ s.calls \in Nat /\ b.told \in Nat /\ b.got \in Seq(Pairs)
      /\ (b.strayed => s.interleaved) /\ (b.bare => s.bare)
      /\ (up = "responses" => s.open \in {"none", "message", "reasoning", "call"})
      /\ b.finished = (s.phase \in {"finished", "ended", "done"})
      /\ (s.phase = "body" => b.begun)
  BY <1>1 DEF Standing, Advancing, Sources, Decoders, Answers
<1>p. \A y : Append(none, y) = <<y>>
  OBVIOUS
<1> HIDE DEF none, src, f
<1>5. Heard(up, b, DecodeResponses(d, [type |-> "item_added", block |-> item]), src, <<>>)
  <2>1. DecodeResponses(d, [type |-> "item_added", block |-> item]) = [fields |-> f, events |-> <<>>]
    BY <1>1 DEF DecodeResponses, If, f
  <2>2. Advancing(up, b, f, src)
    BY <1>1, <1>3, <1>4 DEF Advancing
  <2>3. Standing(up, b, f, src)
    BY <1>1, <1>2, <1>3, <1>4, <2>2 DEF Standing
  <2> QED  BY <1>1, <2>1, <2>3, HeardNone DEF none
<1> QED  BY <1>5 DEF src, up, f

LEMMA ResponsesCall ==
  ASSUME NEW b, NEW d, NEW s, Hears("responses", b, d, s), s.phase = "body", s.open = "none"
  PROVE  Heard("responses", b, DecodeResponses(d, [type |-> "item_added", block |-> "call", tool |-> s.calls]), [s EXCEPT !.open = "call", !.calls = s.calls + 1], <<<<"call", s.calls>>>>)
<1> DEFINE up == "responses"
           calls == s.calls + 1
           src == [s EXCEPT !.open = "call", !.calls = calls]
           f == d
           none == <<>>
           n == s.calls
<1>1. /\ b \in Answers /\ b.legal /\ ~b.failed /\ b.got = none /\ Standing(up, b, d, s) /\ Advancing(up, b, d, s)
      /\ Settled(b) /\ s \in Sources /\ d \in Decoders /\ s.phase # "failed"
  BY DEF Hears, Standing
<1>n. calls = s.calls + 1 /\ calls \in Nat
  BY <1>1 DEF Sources, Decoders
<1> HIDE DEF calls
<1>2. src \in Sources /\ f \in Decoders
  BY <1>1, <1>n DEF Sources, Decoders, Phases, Opened
<1>3. /\ src.phase = s.phase /\ src.open = "call" /\ src.calls = calls /\ src.usage = s.usage /\ src.cut = s.cut /\ src.blocked = s.blocked /\ src.bare = s.bare /\ src.interleaved = s.interleaved
      /\ f.tool = d.tool /\ f.usage = d.usage
  BY <1>1, <1>n DEF Sources, Decoders
<1>4. /\ b.told = s.calls /\ s.calls \in Nat /\ b.told \in Nat /\ b.got \in Seq(Pairs)
      /\ (b.strayed => s.interleaved) /\ (b.bare => s.bare)
      /\ (up = "responses" => s.open \in {"none", "message", "reasoning", "call"})
      /\ b.finished = (s.phase \in {"finished", "ended", "done"})
      /\ (s.phase = "body" => b.begun)
      /\ n = b.told /\ n = s.calls /\ n \in Nat
  BY <1>1 DEF Standing, Advancing, Sources, Decoders, Answers, Settled
<1>p. \A y : Append(none, y) = <<y>>
  OBVIOUS
<1> HIDE DEF none, src, f, n
<1>5. Heard(up, b, DecodeResponses(d, [type |-> "item_added", block |-> "call", tool |-> n]), src, <<<<"call", n>>>>)
  <2>1. DecodeResponses(d, [type |-> "item_added", block |-> "call", tool |-> n]) = [fields |-> f, events |-> <<ToolEvent("toolstart", n)>>]
    BY <1>4 DEF DecodeResponses, If, f, calls, n
  <2> DEFINE e1 == ToolEvent("toolstart", n)
             z1 == Take(b, ToolEvent("toolstart", n))
  <2>2. /\ e1 \in Occurrences /\ e1.kind = "toolstart"
    BY <1>4, Said DEF Kinds, Contents
  <2>a. Fit(up, e1)
    BY <2>2 DEF Fit, Contents
  <2> HIDE DEF e1
  <2>3. /\ z1 \in Answers /\ z1.legal /\ Calling(b, z1, b.told + 1, Append(b.got, <<"call", n>>), TRUE, b.strayed)
    BY <1>1, <1>3, <1>4, TakesTool DEF Takes
  <2> HIDE DEF z1
  <2>4. /\ z1.told = b.told + 1 /\ (z1.strayed = b.strayed) /\ (z1.hot = TRUE) /\ (z1.begun = b.begun)
        /\ (z1.finished = b.finished) /\ (z1.usage = b.usage) /\ (z1.failed = b.failed) /\ (z1.bare = b.bare)
    BY <1>1, <2>3 DEF Marking, Calling, Answers
  <2>5. z1.got = Append(b.got, <<"call", n>>)
    BY <2>3 DEF Marking, Calling
  <2>6. z1.got = <<<<"call", n>>>>
    BY <1>1, <1>p, <2>5
  <2>b. b.told + 1 > 0
    BY <1>4, <1>n
  <2>7. Advancing(up, z1, f, src)
    BY <2>b, <1>1, <1>3, <1>4, <2>4 DEF Advancing
  <2>8. Standing(up, z1, f, src)
    BY <1>1, <1>2, <1>3, <1>4, <2>3, <2>4, <2>7, <1>n DEF Standing
  <2>9. z1 = Take(b, e1)
    BY DEF z1, e1
  <2>10. Heard(up, b, [fields |-> f, events |-> <<e1>>], src, <<<<"call", n>>>>)
    BY <2>2, <2>a, <2>6, <2>8, <2>9, HeardOne
  <2> QED  BY <2>1, <2>10 DEF e1
<1> QED  BY <1>5 DEF src, up, f, calls, n

LEMMA ResponsesArguments ==
  ASSUME NEW b, NEW d, NEW s, Hears("responses", b, d, s), s.phase = "body", s.open = "call"
  PROVE  Heard("responses", b, DecodeResponses(d, [type |-> "delta", block |-> "args", tool |-> s.calls - 1]), s, <<<<"args", s.calls - 1>>>>)
<1> DEFINE up == "responses"
           src == s
           f == d
           none == <<>>
           n == s.calls - 1
<1>1. /\ b \in Answers /\ b.legal /\ ~b.failed /\ b.got = none /\ Standing(up, b, d, s) /\ Advancing(up, b, d, s)
      /\ Settled(b) /\ s \in Sources /\ d \in Decoders /\ s.phase # "failed"
  BY DEF Hears, Standing
<1>2. src \in Sources /\ f \in Decoders
  BY <1>1 DEF Sources, Decoders, Phases, Opened
<1>3. /\ src.phase = s.phase /\ src.open = s.open /\ src.calls = s.calls /\ src.usage = s.usage /\ src.cut = s.cut /\ src.blocked = s.blocked /\ src.bare = s.bare /\ src.interleaved = s.interleaved
      /\ f.tool = d.tool /\ f.usage = d.usage
  BY <1>1 DEF Sources, Decoders
<1>4. /\ b.told = s.calls /\ s.calls \in Nat /\ b.told \in Nat /\ b.got \in Seq(Pairs)
      /\ (b.strayed => s.interleaved) /\ (b.bare => s.bare)
      /\ (up = "responses" => s.open \in {"none", "message", "reasoning", "call"})
      /\ b.finished = (s.phase \in {"finished", "ended", "done"})
      /\ (s.phase = "body" => b.begun)
      /\ n + 1 = b.told /\ n \in Nat /\ n < b.told /\ b.hot
  BY <1>1 DEF Standing, Advancing, Sources, Decoders, Answers, Settled
<1>p. \A y : Append(none, y) = <<y>>
  OBVIOUS
<1> HIDE DEF none, src, f, n
<1>5. Heard(up, b, DecodeResponses(d, [type |-> "delta", block |-> "args", tool |-> n]), src, <<<<"args", n>>>>)
  <2>1. DecodeResponses(d, [type |-> "delta", block |-> "args", tool |-> n]) = [fields |-> f, events |-> <<ToolEvent("toolstart", n), ToolEvent("tooldelta", n)>>]
    BY <1>4 DEF DecodeResponses, f, n
  <2> DEFINE e1 == ToolEvent("toolstart", n)
             e2 == ToolEvent("tooldelta", n)
             z1 == Take(b, ToolEvent("toolstart", n))
             z2 == Take(z1, ToolEvent("tooldelta", n))
  <2>2. /\ e1 \in Occurrences /\ e1.kind = "toolstart"
        /\ e2 \in Occurrences /\ e2.kind = "tooldelta"
    BY <1>4, Said DEF Kinds, Contents
  <2>a. Fit(up, e1) /\ Fit(up, e2)
    BY <2>2 DEF Fit, Contents
  <2> HIDE DEF e1, e2
  <2>3. /\ z1 \in Answers /\ z1.legal /\ z1 = b
    BY <1>1, <1>3, <1>4, TakesToolAgain DEF Takes
  <2> HIDE DEF z1
  <2>4. /\ z1.told = b.told /\ (z1.strayed = b.strayed) /\ (z1.hot = b.hot) /\ (z1.begun = b.begun)
        /\ (z1.finished = b.finished) /\ (z1.usage = b.usage) /\ (z1.failed = b.failed) /\ (z1.bare = b.bare)
    BY <1>1, <2>3 DEF Marking, Calling, Answers
  <2>5. z1.got = b.got
    BY <2>3 DEF Marking, Calling
  <2>6. /\ z2 \in Answers /\ z2.legal /\ Calling(z1, z2, z1.told, Append(z1.got, <<"args", n>>), z1.hot, z1.strayed \/ ~(z1.hot /\ n + 1 = z1.told))
    BY <1>1, <1>3, <1>4, <2>3, <2>4, <2>5, TakesDelta DEF Takes
  <2> HIDE DEF z2
  <2>7. /\ z2.told = b.told /\ (z2.strayed = (b.strayed \/ ~(b.hot /\ n + 1 = b.told))) /\ (z2.hot = b.hot) /\ (z2.begun = b.begun)
        /\ (z2.finished = b.finished) /\ (z2.usage = b.usage) /\ (z2.failed = b.failed) /\ (z2.bare = b.bare)
    BY <1>1, <2>4, <2>5, <2>6 DEF Marking, Calling, Answers
  <2>8. z2.got = Append(b.got, <<"args", n>>)
    BY <2>4, <2>5, <2>6 DEF Marking, Calling
  <2>9. z2.got = <<<<"args", n>>>>
    BY <1>1, <1>p, <2>8
  <2>10. Advancing(up, z2, f, src)
    BY <1>1, <1>3, <1>4, <2>7 DEF Advancing
  <2>11. Standing(up, z2, f, src)
    BY <1>1, <1>2, <1>3, <1>4, <2>6, <2>7, <2>10 DEF Standing
  <2>12. z2 = Take(Take(b, e1), e2)
    BY DEF z1, z2, e1, e2
  <2>13. Heard(up, b, [fields |-> f, events |-> <<e1, e2>>], src, <<<<"args", n>>>>)
    BY <2>2, <2>a, <2>9, <2>11, <2>12, HeardTwo
  <2> QED  BY <2>1, <2>13 DEF e1, e2
<1> QED  BY <1>5 DEF src, up, f, n

LEMMA ResponsesSays ==
  ASSUME NEW b, NEW d, NEW s, Hears("responses", b, d, s), s.phase = "body", s.open # "call", NEW what \in {"text", "refusal", "thinking"}, NEW k
  PROVE  Heard("responses", b, DecodeResponses(d, [type |-> "delta", block |-> what, tool |-> k]), s, <<<<what, 0>>>>)
<1> DEFINE up == "responses"
           src == s
           f == d
           none == <<>>
<1>1. /\ b \in Answers /\ b.legal /\ ~b.failed /\ b.got = none /\ Standing(up, b, d, s) /\ Advancing(up, b, d, s)
      /\ Settled(b) /\ s \in Sources /\ d \in Decoders /\ s.phase # "failed"
  BY DEF Hears, Standing
<1>2. src \in Sources /\ f \in Decoders
  BY <1>1 DEF Sources, Decoders, Phases, Opened
<1>3. /\ src.phase = s.phase /\ src.open = s.open /\ src.calls = s.calls /\ src.usage = s.usage /\ src.cut = s.cut /\ src.blocked = s.blocked /\ src.bare = s.bare /\ src.interleaved = s.interleaved
      /\ f.tool = d.tool /\ f.usage = d.usage
  BY <1>1 DEF Sources, Decoders
<1>4. /\ b.told = s.calls /\ s.calls \in Nat /\ b.told \in Nat /\ b.got \in Seq(Pairs)
      /\ (b.strayed => s.interleaved) /\ (b.bare => s.bare)
      /\ (up = "responses" => s.open \in {"none", "message", "reasoning", "call"})
      /\ b.finished = (s.phase \in {"finished", "ended", "done"})
      /\ (s.phase = "body" => b.begun)
  BY <1>1 DEF Standing, Advancing, Sources, Decoders, Answers
<1>p. \A y : Append(none, y) = <<y>>
  OBVIOUS
<1> HIDE DEF none, src, f
<1>5. Heard(up, b, DecodeResponses(d, [type |-> "delta", block |-> what, tool |-> k]), src, <<<<what, 0>>>>)
  <2>1. DecodeResponses(d, [type |-> "delta", block |-> what, tool |-> k]) = [fields |-> f, events |-> <<Event(what)>>]
    BY <1>4 DEF DecodeResponses, f
  <2> DEFINE e1 == Event(what)
             z1 == Take(b, Event(what))
  <2>2. /\ e1 \in Occurrences /\ e1.kind = what
    BY <1>4, Said DEF Kinds, Contents
  <2>a. Fit(up, e1)
    BY <2>2 DEF Fit, Contents
  <2> HIDE DEF e1
  <2>3. /\ z1 \in Answers /\ z1.legal /\ Calling(b, z1, b.told, Append(b.got, <<what, 0>>), FALSE, b.strayed)
    BY <1>1, <1>3, <1>4, TakesContent DEF Takes, Contents
  <2> HIDE DEF z1
  <2>4. /\ z1.told = b.told /\ (z1.strayed = b.strayed) /\ (z1.hot = FALSE) /\ (z1.begun = b.begun)
        /\ (z1.finished = b.finished) /\ (z1.usage = b.usage) /\ (z1.failed = b.failed) /\ (z1.bare = b.bare)
    BY <1>1, <2>3 DEF Marking, Calling, Answers
  <2>5. z1.got = Append(b.got, <<what, 0>>)
    BY <2>3 DEF Marking, Calling
  <2>6. z1.got = <<<<what, 0>>>>
    BY <1>1, <1>p, <2>5
  <2>7. Advancing(up, z1, f, src)
    BY <1>1, <1>3, <1>4, <2>4 DEF Advancing
  <2>8. Standing(up, z1, f, src)
    BY <1>1, <1>2, <1>3, <1>4, <2>3, <2>4, <2>7 DEF Standing
  <2>9. z1 = Take(b, e1)
    BY DEF z1, e1
  <2>10. Heard(up, b, [fields |-> f, events |-> <<e1>>], src, <<<<what, 0>>>>)
    BY <2>2, <2>a, <2>6, <2>8, <2>9, HeardOne DEF Contents
  <2> QED  BY <2>1, <2>10 DEF e1
<1> QED  BY <1>5 DEF src, up, f

LEMMA ResponsesItemDone ==
  ASSUME NEW b, NEW d, NEW s, Hears("responses", b, d, s), s.phase = "body"
  PROVE  Heard("responses", b, DecodeResponses(d, [type |-> "item_done"]), [s EXCEPT !.open = "none"], <<>>)
<1> DEFINE up == "responses"
           src == [s EXCEPT !.open = "none"]
           f == d
           none == <<>>
<1>1. /\ b \in Answers /\ b.legal /\ ~b.failed /\ b.got = none /\ Standing(up, b, d, s) /\ Advancing(up, b, d, s)
      /\ Settled(b) /\ s \in Sources /\ d \in Decoders /\ s.phase # "failed"
  BY DEF Hears, Standing
<1>2. src \in Sources /\ f \in Decoders
  BY <1>1 DEF Sources, Decoders, Phases, Opened
<1>3. /\ src.phase = s.phase /\ src.open = "none" /\ src.calls = s.calls /\ src.usage = s.usage /\ src.cut = s.cut /\ src.blocked = s.blocked /\ src.bare = s.bare /\ src.interleaved = s.interleaved
      /\ f.tool = d.tool /\ f.usage = d.usage
  BY <1>1 DEF Sources, Decoders
<1>4. /\ b.told = s.calls /\ s.calls \in Nat /\ b.told \in Nat /\ b.got \in Seq(Pairs)
      /\ (b.strayed => s.interleaved) /\ (b.bare => s.bare)
      /\ (up = "responses" => s.open \in {"none", "message", "reasoning", "call"})
      /\ b.finished = (s.phase \in {"finished", "ended", "done"})
      /\ (s.phase = "body" => b.begun)
  BY <1>1 DEF Standing, Advancing, Sources, Decoders, Answers
<1>p. \A y : Append(none, y) = <<y>>
  OBVIOUS
<1> HIDE DEF none, src, f
<1>5. Heard(up, b, DecodeResponses(d, [type |-> "item_done"]), src, <<>>)
  <2>1. DecodeResponses(d, [type |-> "item_done"]) = [fields |-> f, events |-> <<>>]
    BY <1>1 DEF DecodeResponses, f
  <2>2. Advancing(up, b, f, src)
    BY <1>1, <1>3, <1>4 DEF Advancing
  <2>3. Standing(up, b, f, src)
    BY <1>1, <1>2, <1>3, <1>4, <2>2 DEF Standing
  <2> QED  BY <1>1, <2>1, <2>3, HeardNone DEF none
<1> QED  BY <1>5 DEF src, up, f

LEMMA ResponsesCompleted ==
  ASSUME NEW b, NEW d, NEW s, Hears("responses", b, d, s), s.phase = "body", NEW usage \in BOOLEAN
  PROVE  Heard("responses", b, DecodeResponses(d, [type |-> "completed", usage |-> usage]), [s EXCEPT !.phase = "ended", !.usage = usage], <<>>)
<1> DEFINE up == "responses"
           src == [s EXCEPT !.phase = "ended", !.usage = usage]
           f == d
           none == <<>>
<1>1. /\ b \in Answers /\ b.legal /\ ~b.failed /\ b.got = none /\ Standing(up, b, d, s) /\ Advancing(up, b, d, s)
      /\ Settled(b) /\ s \in Sources /\ d \in Decoders /\ s.phase # "failed"
  BY DEF Hears, Standing
<1>2. src \in Sources /\ f \in Decoders
  BY <1>1 DEF Sources, Decoders, Phases, Opened
<1>3. /\ src.phase = "ended" /\ src.open = s.open /\ src.calls = s.calls /\ src.usage = usage /\ src.cut = s.cut /\ src.blocked = s.blocked /\ src.bare = s.bare /\ src.interleaved = s.interleaved
      /\ f.tool = d.tool /\ f.usage = d.usage
  BY <1>1 DEF Sources, Decoders
<1>4. /\ b.told = s.calls /\ s.calls \in Nat /\ b.told \in Nat /\ b.got \in Seq(Pairs)
      /\ (b.strayed => s.interleaved) /\ (b.bare => s.bare)
      /\ (up = "responses" => s.open \in {"none", "message", "reasoning", "call"})
      /\ b.finished = (s.phase \in {"finished", "ended", "done"})
      /\ (s.phase = "body" => b.begun)
  BY <1>1 DEF Standing, Advancing, Sources, Decoders, Answers
<1>p. \A y : Append(none, y) = <<y>>
  OBVIOUS
<1> HIDE DEF none, src, f
<1>5. ASSUME usage PROVE Heard(up, b, DecodeResponses(d, [type |-> "completed", usage |-> usage]), src, <<>>)
  <2>1. DecodeResponses(d, [type |-> "completed", usage |-> usage]) = [fields |-> f, events |-> <<StopEvent("stop"), Event("usage")>>]
    BY OneOr, <1>5 DEF DecodeResponses, f
  <2> DEFINE e1 == StopEvent("stop")
             e2 == Event("usage")
             z1 == Take(b, StopEvent("stop"))
             z2 == Take(z1, Event("usage"))
  <2>2. /\ e1 \in Occurrences /\ e1.kind = "stop"
        /\ e2 \in Occurrences /\ e2.kind = "usage"
    BY <1>4, Said DEF Kinds, Contents
  <2>a. Fit(up, e1) /\ Fit(up, e2)
    BY <2>2 DEF Fit, Contents
  <2> HIDE DEF e1, e2
  <2>3. /\ z1 \in Answers /\ z1.legal /\ Marking(b, z1, b.begun, TRUE, b.usage, b.done, b.failed, b.bare \/ ~b.begun) /\ ~z1.hot
    BY <1>1, <1>3, <1>4, <1>5, TakesStop DEF Takes
  <2> HIDE DEF z1
  <2>4. /\ z1.told = b.told /\ (z1.strayed = b.strayed) /\ (z1.hot = FALSE) /\ (z1.begun = b.begun)
        /\ (z1.finished = TRUE) /\ (z1.usage = b.usage) /\ (z1.failed = b.failed) /\ (z1.bare = (b.bare \/ ~b.begun))
    BY <1>1, <2>3 DEF Marking, Calling, Answers
  <2>5. z1.got = b.got
    BY <2>3 DEF Marking, Calling
  <2>6. /\ z2 \in Answers /\ z2.legal /\ Marking(z1, z2, z1.begun, z1.finished, z1.usage \/ z1.finished, z1.done, z1.failed, z1.bare) /\ z2.hot = z1.hot
    BY <1>1, <1>3, <1>4, <2>3, <2>4, <2>5, <1>5, TakesUsage DEF Takes
  <2> HIDE DEF z2
  <2>7. /\ z2.told = b.told /\ (z2.strayed = b.strayed) /\ (z2.hot = FALSE) /\ (z2.begun = b.begun)
        /\ (z2.finished = TRUE) /\ (z2.usage = (b.usage \/ TRUE)) /\ (z2.failed = b.failed) /\ (z2.bare = (b.bare \/ ~b.begun))
    BY <1>1, <2>4, <2>5, <2>6 DEF Marking, Calling, Answers
  <2>8. z2.got = b.got
    BY <2>4, <2>5, <2>6 DEF Marking, Calling
  <2>9. z2.got = <<>>
    BY <1>1, <1>p, <2>8 DEF none
  <2>10. Advancing(up, z2, f, src)
    BY <1>1, <1>3, <1>4, <2>7, <1>5 DEF Advancing
  <2>11. Standing(up, z2, f, src)
    BY <1>1, <1>2, <1>3, <1>4, <2>6, <2>7, <2>10, <1>5 DEF Standing
  <2>12. z2 = Take(Take(b, e1), e2)
    BY DEF z1, z2, e1, e2
  <2>13. Heard(up, b, [fields |-> f, events |-> <<e1, e2>>], src, <<>>)
    BY <2>2, <2>a, <2>9, <2>11, <2>12, HeardTwo
  <2> QED  BY <2>1, <2>13 DEF e1, e2
<1>6. ASSUME ~usage PROVE Heard(up, b, DecodeResponses(d, [type |-> "completed", usage |-> usage]), src, <<>>)
  <2>1. DecodeResponses(d, [type |-> "completed", usage |-> usage]) = [fields |-> f, events |-> <<StopEvent("stop")>>]
    BY OneOr, <1>6 DEF DecodeResponses, f
  <2> DEFINE e1 == StopEvent("stop")
             z1 == Take(b, StopEvent("stop"))
  <2>2. /\ e1 \in Occurrences /\ e1.kind = "stop"
    BY <1>4, Said DEF Kinds, Contents
  <2>a. Fit(up, e1)
    BY <2>2 DEF Fit, Contents
  <2> HIDE DEF e1
  <2>3. /\ z1 \in Answers /\ z1.legal /\ Marking(b, z1, b.begun, TRUE, b.usage, b.done, b.failed, b.bare \/ ~b.begun) /\ ~z1.hot
    BY <1>1, <1>3, <1>4, <1>6, TakesStop DEF Takes
  <2> HIDE DEF z1
  <2>4. /\ z1.told = b.told /\ (z1.strayed = b.strayed) /\ (z1.hot = FALSE) /\ (z1.begun = b.begun)
        /\ (z1.finished = TRUE) /\ (z1.usage = b.usage) /\ (z1.failed = b.failed) /\ (z1.bare = (b.bare \/ ~b.begun))
    BY <1>1, <2>3 DEF Marking, Calling, Answers
  <2>5. z1.got = b.got
    BY <2>3 DEF Marking, Calling
  <2>6. z1.got = <<>>
    BY <1>1, <1>p, <2>5 DEF none
  <2>7. Advancing(up, z1, f, src)
    BY <1>1, <1>3, <1>4, <2>4, <1>6 DEF Advancing
  <2>8. Standing(up, z1, f, src)
    BY <1>1, <1>2, <1>3, <1>4, <2>3, <2>4, <2>7, <1>6 DEF Standing
  <2>9. z1 = Take(b, e1)
    BY DEF z1, e1
  <2>10. Heard(up, b, [fields |-> f, events |-> <<e1>>], src, <<>>)
    BY <2>2, <2>a, <2>6, <2>8, <2>9, HeardOne
  <2> QED  BY <2>1, <2>10 DEF e1
<1> QED  BY <1>5, <1>6 DEF src, up, f

LEMMA ResponsesIncomplete ==
  ASSUME NEW b, NEW d, NEW s, Hears("responses", b, d, s), s.phase = "body"
  PROVE  Heard("responses", b, DecodeResponses(d, [type |-> "incomplete"]), [s EXCEPT !.phase = "ended", !.usage = TRUE, !.cut = TRUE], <<>>)
<1> DEFINE up == "responses"
           src == [s EXCEPT !.phase = "ended", !.usage = TRUE, !.cut = TRUE]
           f == d
           none == <<>>
<1>1. /\ b \in Answers /\ b.legal /\ ~b.failed /\ b.got = none /\ Standing(up, b, d, s) /\ Advancing(up, b, d, s)
      /\ Settled(b) /\ s \in Sources /\ d \in Decoders /\ s.phase # "failed"
  BY DEF Hears, Standing
<1>2. src \in Sources /\ f \in Decoders
  BY <1>1 DEF Sources, Decoders, Phases, Opened
<1>3. /\ src.phase = "ended" /\ src.open = s.open /\ src.calls = s.calls /\ src.usage = TRUE /\ src.cut = TRUE /\ src.blocked = s.blocked /\ src.bare = s.bare /\ src.interleaved = s.interleaved
      /\ f.tool = d.tool /\ f.usage = d.usage
  BY <1>1 DEF Sources, Decoders
<1>4. /\ b.told = s.calls /\ s.calls \in Nat /\ b.told \in Nat /\ b.got \in Seq(Pairs)
      /\ (b.strayed => s.interleaved) /\ (b.bare => s.bare)
      /\ (up = "responses" => s.open \in {"none", "message", "reasoning", "call"})
      /\ b.finished = (s.phase \in {"finished", "ended", "done"})
      /\ (s.phase = "body" => b.begun)
  BY <1>1 DEF Standing, Advancing, Sources, Decoders, Answers
<1>p. \A y : Append(none, y) = <<y>>
  OBVIOUS
<1> HIDE DEF none, src, f
<1>5. Heard(up, b, DecodeResponses(d, [type |-> "incomplete"]), src, <<>>)
  <2>1. DecodeResponses(d, [type |-> "incomplete"]) = [fields |-> f, events |-> <<StopEvent("length")>>]
    BY <1>1 DEF DecodeResponses, f
  <2> DEFINE e1 == StopEvent("length")
             z1 == Take(b, StopEvent("length"))
  <2>2. /\ e1 \in Occurrences /\ e1.kind = "stop"
    BY <1>4, Said DEF Kinds, Contents
  <2>a. Fit(up, e1)
    BY <2>2 DEF Fit, Contents
  <2> HIDE DEF e1
  <2>3. /\ z1 \in Answers /\ z1.legal /\ Marking(b, z1, b.begun, TRUE, b.usage, b.done, b.failed, b.bare \/ ~b.begun) /\ ~z1.hot
    BY <1>1, <1>3, <1>4, TakesStop DEF Takes
  <2> HIDE DEF z1
  <2>4. /\ z1.told = b.told /\ (z1.strayed = b.strayed) /\ (z1.hot = FALSE) /\ (z1.begun = b.begun)
        /\ (z1.finished = TRUE) /\ (z1.usage = b.usage) /\ (z1.failed = b.failed) /\ (z1.bare = (b.bare \/ ~b.begun))
    BY <1>1, <2>3 DEF Marking, Calling, Answers
  <2>5. z1.got = b.got
    BY <2>3 DEF Marking, Calling
  <2>6. z1.got = <<>>
    BY <1>1, <1>p, <2>5 DEF none
  <2>7. Advancing(up, z1, f, src)
    BY <1>1, <1>3, <1>4, <2>4 DEF Advancing
  <2>8. Standing(up, z1, f, src)
    BY <1>1, <1>2, <1>3, <1>4, <2>3, <2>4, <2>7 DEF Standing
  <2>9. z1 = Take(b, e1)
    BY DEF z1, e1
  <2>10. Heard(up, b, [fields |-> f, events |-> <<e1>>], src, <<>>)
    BY <2>2, <2>a, <2>6, <2>8, <2>9, HeardOne
  <2> QED  BY <2>1, <2>10 DEF e1
<1> QED  BY <1>5 DEF src, up, f

LEMMA ResponsesDone ==
  ASSUME NEW b, NEW d, NEW s, Hears("responses", b, d, s), s.phase = "ended"
  PROVE  Heard("responses", b, DecodeResponses(d, [type |-> "done", what |-> "done", role |-> FALSE, finish |-> FALSE, usage |-> FALSE]), [s EXCEPT !.phase = "done"], <<>>)
<1> DEFINE up == "responses"
           src == [s EXCEPT !.phase = "done"]
           f == d
           none == <<>>
<1>1. /\ b \in Answers /\ b.legal /\ ~b.failed /\ b.got = none /\ Standing(up, b, d, s) /\ Advancing(up, b, d, s)
      /\ Settled(b) /\ s \in Sources /\ d \in Decoders /\ s.phase # "failed"
  BY DEF Hears, Standing
<1>2. src \in Sources /\ f \in Decoders
  BY <1>1 DEF Sources, Decoders, Phases, Opened
<1>3. /\ src.phase = "done" /\ src.open = s.open /\ src.calls = s.calls /\ src.usage = s.usage /\ src.cut = s.cut /\ src.blocked = s.blocked /\ src.bare = s.bare /\ src.interleaved = s.interleaved
      /\ f.tool = d.tool /\ f.usage = d.usage
  BY <1>1 DEF Sources, Decoders
<1>4. /\ b.told = s.calls /\ s.calls \in Nat /\ b.told \in Nat /\ b.got \in Seq(Pairs)
      /\ (b.strayed => s.interleaved) /\ (b.bare => s.bare)
      /\ (up = "responses" => s.open \in {"none", "message", "reasoning", "call"})
      /\ b.finished = (s.phase \in {"finished", "ended", "done"})
      /\ (s.phase = "body" => b.begun)
  BY <1>1 DEF Standing, Advancing, Sources, Decoders, Answers
<1>p. \A y : Append(none, y) = <<y>>
  OBVIOUS
<1> HIDE DEF none, src, f
<1>5. Heard(up, b, DecodeResponses(d, [type |-> "done", what |-> "done", role |-> FALSE, finish |-> FALSE, usage |-> FALSE]), src, <<>>)
  <2>1. DecodeResponses(d, [type |-> "done", what |-> "done", role |-> FALSE, finish |-> FALSE, usage |-> FALSE]) = [fields |-> f, events |-> <<Event("done")>>]
    BY <1>1 DEF DecodeResponses, f
  <2> DEFINE e1 == Event("done")
             z1 == Take(b, Event("done"))
  <2>2. /\ e1 \in Occurrences /\ e1.kind = "done"
    BY <1>4, Said DEF Kinds, Contents
  <2>a. Fit(up, e1)
    BY <2>2 DEF Fit, Contents
  <2> HIDE DEF e1
  <2>3. /\ z1 \in Answers /\ z1.legal /\ Marking(b, z1, b.begun, b.finished, b.usage, TRUE, b.failed, b.bare) /\ z1.hot = b.hot
    BY <1>1, <1>3, <1>4, TakesDone DEF Takes
  <2> HIDE DEF z1
  <2>4. /\ z1.told = b.told /\ (z1.strayed = b.strayed) /\ (z1.hot = b.hot) /\ (z1.begun = b.begun)
        /\ (z1.finished = b.finished) /\ (z1.usage = b.usage) /\ (z1.failed = b.failed) /\ (z1.bare = b.bare)
    BY <1>1, <2>3 DEF Marking, Calling, Answers
  <2>5. z1.got = b.got
    BY <2>3 DEF Marking, Calling
  <2>6. z1.got = <<>>
    BY <1>1, <1>p, <2>5 DEF none
  <2>7. Advancing(up, z1, f, src)
    BY <1>1, <1>3, <1>4, <2>4 DEF Advancing
  <2>8. Standing(up, z1, f, src)
    BY <1>1, <1>2, <1>3, <1>4, <2>3, <2>4, <2>7 DEF Standing
  <2>9. z1 = Take(b, e1)
    BY DEF z1, e1
  <2>10. Heard(up, b, [fields |-> f, events |-> <<e1>>], src, <<>>)
    BY <2>2, <2>a, <2>6, <2>8, <2>9, HeardOne DEF e1
  <2> QED  BY <2>1, <2>10 DEF e1
<1> QED  BY <1>5 DEF src, up, f

\* A failed response ends with a stop after its error.
LEMMA TakesStopAfterError ==
  ASSUME NEW a \in Answers, a.legal, a.failed, ~a.finished
  PROVE  /\ Takes(a, StopEvent("stop"), Take(a, StopEvent("stop")))
         /\ Marking(a, Take(a, StopEvent("stop")), a.begun, TRUE, a.usage, a.done, a.failed, a.bare)
         /\ ~Take(a, StopEvent("stop")).hot
<1> DEFINE e == StopEvent("stop")
           z == Take(a, e)
<1>1. e \in Occurrences /\ e.kind = "stop"
  BY DEF Event, ToolEvent, StopEvent, Occurrences, Kinds, Contents, Answers
<1>2. Allowed(a, e)
  BY <1>1 DEF Allowed, Contents, Settled, Answers
<1>3. z = After(a, e) /\ z \in Answers /\ z.legal
  BY <1>1, <1>2, TakeLawful
<1> HIDE DEF e
<1>4. z = [a EXCEPT !.finished = TRUE, !.hot = FALSE, !.bare = a.bare \/ ~(a.begun \/ a.failed)]
  BY <1>1, <1>3 DEF After, Contents
<1> HIDE DEF z
<1>5. Marking(a, z, a.begun, TRUE, a.usage, a.done, a.failed, a.bare) /\ ~z.hot
  BY <1>1, <1>4 DEF Answers, Calling, Marking
<1> QED  BY <1>3, <1>5 DEF Takes, z, e

LEMMA ResponsesRefused ==
  ASSUME NEW b, NEW d, NEW s, Hears("responses", b, d, s), s.phase \in {"new", "body"}
  PROVE  Heard("responses", b, DecodeResponses(d, [type |-> "failed"]), [s EXCEPT !.phase = "failed"], <<>>)
<1> DEFINE up == "responses"
           src == [s EXCEPT !.phase = "failed"]
           f == d
           none == <<>>
<1>1. /\ b \in Answers /\ b.legal /\ ~b.failed /\ b.got = none /\ Standing(up, b, d, s) /\ Advancing(up, b, d, s)
      /\ Settled(b) /\ s \in Sources /\ d \in Decoders /\ s.phase # "failed"
  BY DEF Hears, Standing
<1>2. src \in Sources /\ f \in Decoders
  BY <1>1 DEF Sources, Decoders, Phases, Opened
<1>3. /\ src.phase = "failed" /\ src.open = s.open /\ src.calls = s.calls /\ src.usage = s.usage /\ src.cut = s.cut /\ src.blocked = s.blocked /\ src.bare = s.bare /\ src.interleaved = s.interleaved
      /\ f.tool = d.tool /\ f.usage = d.usage
  BY <1>1 DEF Sources, Decoders
<1>4. /\ b.told = s.calls /\ s.calls \in Nat /\ b.told \in Nat /\ b.got \in Seq(Pairs)
      /\ (b.strayed => s.interleaved) /\ (b.bare => s.bare)
      /\ (up = "responses" => s.open \in {"none", "message", "reasoning", "call"})
      /\ b.finished = (s.phase \in {"finished", "ended", "done"})
      /\ (s.phase = "body" => b.begun)
  BY <1>1 DEF Standing, Advancing, Sources, Decoders, Answers
<1>p. \A y : Append(none, y) = <<y>>
  OBVIOUS
<1> HIDE DEF none, src, f
<1>5. Heard(up, b, DecodeResponses(d, [type |-> "failed"]), src, <<>>)
  <2>1. DecodeResponses(d, [type |-> "failed"]) = [fields |-> f, events |-> <<Event("error"), StopEvent("stop")>>]
    BY <1>1 DEF DecodeResponses, f
  <2> DEFINE e1 == Event("error")
             e2 == StopEvent("stop")
             z1 == Take(b, Event("error"))
             z2 == Take(z1, StopEvent("stop"))
  <2>2. /\ e1 \in Occurrences /\ e1.kind = "error"
        /\ e2 \in Occurrences /\ e2.kind = "stop"
    BY <1>4, Said DEF Kinds, Contents
  <2>a. Fit(up, e1) /\ Fit(up, e2)
    BY <2>2 DEF Fit, Contents
  <2> HIDE DEF e1, e2
  <2>3. /\ z1 \in Answers /\ z1.legal /\ Marking(b, z1, b.begun, b.finished, b.usage, b.done, TRUE, b.bare) /\ ~z1.hot
    BY <1>1, <1>3, <1>4, TakesError DEF Takes
  <2> HIDE DEF z1
  <2>4. /\ z1.told = b.told /\ (z1.strayed = b.strayed) /\ (z1.hot = FALSE) /\ (z1.begun = b.begun)
        /\ (z1.finished = b.finished) /\ (z1.usage = b.usage) /\ (z1.failed = TRUE) /\ (z1.bare = b.bare)
    BY <1>1, <2>3 DEF Marking, Calling, Answers
  <2>5. z1.got = b.got
    BY <2>3 DEF Marking, Calling
  <2>6. /\ z2 \in Answers /\ z2.legal /\ Marking(z1, z2, z1.begun, TRUE, z1.usage, z1.done, z1.failed, z1.bare) /\ ~z2.hot
    BY <1>1, <1>3, <1>4, <2>3, <2>4, <2>5, TakesStopAfterError DEF Takes
  <2> HIDE DEF z2
  <2>7. /\ z2.told = b.told /\ (z2.strayed = b.strayed) /\ (z2.hot = FALSE) /\ (z2.begun = b.begun)
        /\ (z2.finished = TRUE) /\ (z2.usage = b.usage) /\ (z2.failed = TRUE) /\ (z2.bare = b.bare)
    BY <1>1, <2>4, <2>5, <2>6 DEF Marking, Calling, Answers
  <2>8. z2.got = b.got
    BY <2>4, <2>5, <2>6 DEF Marking, Calling
  <2>9. z2.got = <<>>
    BY <1>1, <1>p, <2>8 DEF none
  <2>10. Standing(up, z2, f, src)
    BY <1>2, <1>3, <1>4, <2>6, <2>7 DEF Standing
  <2>11. z2 = Take(Take(b, e1), e2)
    BY DEF z1, z2, e1, e2
  <2>12. Heard(up, b, [fields |-> f, events |-> <<e1, e2>>], src, <<>>)
    BY <2>2, <2>a, <2>9, <2>10, <2>11, HeardTwo
  <2> QED  BY <2>1, <2>12 DEF e1, e2
<1> QED  BY <1>5 DEF src, up, f

(* -- Chat -- *)
LEMMA Strung ==
  ASSUME NEW x, NEW y, NEW none, none = <<>>
  PROVE  /\ none \o none = none /\ none \o <<x>> = <<x>> /\ <<x>> \o none = <<x>> /\ <<y>> \o none = <<y>> /\ none \o <<y>> = <<y>>
         /\ <<x>> \o <<y>> = <<x, y>> /\ <<x, y>> \o none = <<x, y>>
<1> DEFINE S == {x, y}
           u == <<x>>
           v == <<y>>
           w == <<x, y>>
<1>1. none \in Seq(S) /\ u \in Seq(S) /\ v \in Seq(S) /\ w \in Seq(S)
  OBVIOUS
<1>2. \A s \in Seq(S) : s \o none = s /\ none \o s = s
  OBVIOUS
<1>3. <<x>> \o <<y>> = <<x, y>>
  BY OneOr DEF If
<1> HIDE DEF S, u, v, w
<1>4. none \o none = none /\ none \o u = u /\ u \o none = u /\ v \o none = v /\ none \o v = v /\ w \o none = w
  BY <1>1, <1>2
<1> QED  BY <1>3, <1>4 DEF u, v, w

\* A chunk's events: its role, its content, its call, its finish, its usage.
ChatEvents(none, role, says, calls, finish, usage) == role \o says \o calls \o finish \o usage

LEMMA ChatDecodes ==
  ASSUME NEW d, NEW e, NEW none, none = <<>>, e.role \in BOOLEAN, e.finish \in BOOLEAN, e.usage \in BOOLEAN
  PROVE  /\ DecodeChat(d, e).fields = d
         /\ DecodeChat(d, e) = [fields |-> d, events |-> DecodeChat(d, e).events]
         /\ DecodeChat(d, e).events = ChatEvents(none, IF e.role THEN <<Event("start")>> ELSE none,
              IF e.what \in {"text", "refusal", "thinking", "signature", "done"} THEN <<Event(e.what)>> ELSE none,
              IF e.what \in {"toolstart", "toolargs"} THEN <<ToolEvent(e.what, e.tool)>> ELSE none,
              IF e.finish THEN <<StopEvent("stop")>> ELSE none, IF e.usage THEN <<Event("usage")>> ELSE none)
  BY DEF DecodeChat, If, ChatEvents

LEMMA ChatSays ==
  ASSUME NEW x, NEW y, NEW none, none = <<>>
  PROVE  /\ ChatEvents(none, <<x>>, none, none, none, none) = <<x>>
         /\ ChatEvents(none, <<x>>, <<y>>, none, none, none) = <<x, y>>
         /\ ChatEvents(none, none, <<x>>, none, none, none) = <<x>>
         /\ ChatEvents(none, none, none, <<x>>, none, none) = <<x>>
         /\ ChatEvents(none, none, none, none, <<x>>, none) = <<x>>
         /\ ChatEvents(none, none, none, none, <<x>>, <<y>>) = <<x, y>>
         /\ ChatEvents(none, none, none, none, none, <<x>>) = <<x>>
<1>1. /\ none \o none = none /\ none \o <<x>> = <<x>> /\ <<x>> \o none = <<x>> /\ <<y>> \o none = <<y>> /\ none \o <<y>> = <<y>>
      /\ <<x>> \o <<y>> = <<x, y>> /\ <<x, y>> \o none = <<x, y>>
  BY Strung
<1> DEFINE u == <<x>>
           v == <<y>>
           w == <<x, y>>
<1>2. none \o none = none /\ none \o u = u /\ u \o none = u /\ v \o none = v /\ none \o v = v /\ u \o v = w /\ w \o none = w
  BY <1>1
<1> HIDE DEF u, v, w
<1>3. /\ ChatEvents(none, u, none, none, none, none) = u
      /\ ChatEvents(none, u, v, none, none, none) = w
      /\ ChatEvents(none, none, u, none, none, none) = u
      /\ ChatEvents(none, none, none, u, none, none) = u
      /\ ChatEvents(none, none, none, none, u, none) = u
      /\ ChatEvents(none, none, none, none, u, v) = w
      /\ ChatEvents(none, none, none, none, none, u) = u
  BY <1>2 DEF ChatEvents
<1> QED  BY <1>3 DEF u, v, w

ChatTook(d, e) ==
  /\ e.role /\ e.what = "none" /\ ~e.finish /\ ~e.usage => DecodeChat(d, e) = [fields |-> d, events |-> <<Event("start")>>]
  /\ e.role /\ e.what = "text" /\ ~e.finish /\ ~e.usage => DecodeChat(d, e) = [fields |-> d, events |-> <<Event("start"), Event("text")>>]
  /\ ~e.role /\ e.what \in {"text", "refusal", "thinking", "signature", "done"} /\ ~e.finish /\ ~e.usage => DecodeChat(d, e) = [fields |-> d, events |-> <<Event(e.what)>>]
  /\ ~e.role /\ e.what \in {"toolstart", "toolargs"} /\ ~e.finish /\ ~e.usage => DecodeChat(d, e) = [fields |-> d, events |-> <<ToolEvent(e.what, e.tool)>>]
  /\ ~e.role /\ e.what = "none" /\ e.finish /\ ~e.usage => DecodeChat(d, e) = [fields |-> d, events |-> <<StopEvent("stop")>>]
  /\ ~e.role /\ e.what = "none" /\ e.finish /\ e.usage => DecodeChat(d, e) = [fields |-> d, events |-> <<StopEvent("stop"), Event("usage")>>]
  /\ ~e.role /\ e.what = "none" /\ ~e.finish /\ e.usage => DecodeChat(d, e) = [fields |-> d, events |-> <<Event("usage")>>]

LEMMA ChatTakes ==
  ASSUME NEW d, NEW e, e.role \in BOOLEAN, e.finish \in BOOLEAN, e.usage \in BOOLEAN
  PROVE  ChatTook(d, e)
<1> DEFINE none == <<>>
           role == IF e.role THEN <<Event("start")>> ELSE none
           says == IF e.what \in {"text", "refusal", "thinking", "signature", "done"} THEN <<Event(e.what)>> ELSE none
           calls == IF e.what \in {"toolstart", "toolargs"} THEN <<ToolEvent(e.what, e.tool)>> ELSE none
           finish == IF e.finish THEN <<StopEvent("stop")>> ELSE none
           usage == IF e.usage THEN <<Event("usage")>> ELSE none
<1>1. DecodeChat(d, e) = [fields |-> d, events |-> DecodeChat(d, e).events]
      /\ DecodeChat(d, e).events = ChatEvents(none, role, says, calls, finish, usage)
  BY ChatDecodes
<1>2. \A x, y :
         /\ ChatEvents(none, <<x>>, none, none, none, none) = <<x>>
         /\ ChatEvents(none, <<x>>, <<y>>, none, none, none) = <<x, y>>
         /\ ChatEvents(none, none, <<x>>, none, none, none) = <<x>>
         /\ ChatEvents(none, none, none, <<x>>, none, none) = <<x>>
         /\ ChatEvents(none, none, none, none, <<x>>, none) = <<x>>
         /\ ChatEvents(none, none, none, none, <<x>>, <<y>>) = <<x, y>>
         /\ ChatEvents(none, none, none, none, none, <<x>>) = <<x>>
  BY ChatSays
<1>3. ASSUME e.role /\ e.what = "none" /\ ~e.finish /\ ~e.usage PROVE DecodeChat(d, e) = [fields |-> d, events |-> <<Event("start")>>]
  <2>1. role = <<Event("start")>> /\ says = none /\ calls = none /\ finish = none /\ usage = none
    BY <1>3
  <2> HIDE DEF role, says, calls, finish, usage, none
  <2> QED  BY <1>1, <1>2, <2>1
<1>4. ASSUME e.role /\ e.what = "text" /\ ~e.finish /\ ~e.usage PROVE DecodeChat(d, e) = [fields |-> d, events |-> <<Event("start"), Event("text")>>]
  <2>1. role = <<Event("start")>> /\ says = <<Event("text")>> /\ calls = none /\ finish = none /\ usage = none
    BY <1>4
  <2> HIDE DEF role, says, calls, finish, usage, none
  <2> QED  BY <1>1, <1>2, <2>1
<1>5. ASSUME ~e.role /\ e.what \in {"text", "refusal", "thinking", "signature", "done"} /\ ~e.finish /\ ~e.usage PROVE DecodeChat(d, e) = [fields |-> d, events |-> <<Event(e.what)>>]
  <2>1. role = none /\ says = <<Event(e.what)>> /\ calls = none /\ finish = none /\ usage = none
    BY <1>5
  <2> HIDE DEF role, says, calls, finish, usage, none
  <2> QED  BY <1>1, <1>2, <2>1
<1>6. ASSUME ~e.role /\ e.what \in {"toolstart", "toolargs"} /\ ~e.finish /\ ~e.usage PROVE DecodeChat(d, e) = [fields |-> d, events |-> <<ToolEvent(e.what, e.tool)>>]
  <2>1. role = none /\ says = none /\ calls = <<ToolEvent(e.what, e.tool)>> /\ finish = none /\ usage = none
    BY <1>6
  <2> HIDE DEF role, says, calls, finish, usage, none
  <2> QED  BY <1>1, <1>2, <2>1
<1>7. ASSUME ~e.role /\ e.what = "none" /\ e.finish /\ ~e.usage PROVE DecodeChat(d, e) = [fields |-> d, events |-> <<StopEvent("stop")>>]
  <2>1. role = none /\ says = none /\ calls = none /\ finish = <<StopEvent("stop")>> /\ usage = none
    BY <1>7
  <2> HIDE DEF role, says, calls, finish, usage, none
  <2> QED  BY <1>1, <1>2, <2>1
<1>8. ASSUME ~e.role /\ e.what = "none" /\ e.finish /\ e.usage PROVE DecodeChat(d, e) = [fields |-> d, events |-> <<StopEvent("stop"), Event("usage")>>]
  <2>1. role = none /\ says = none /\ calls = none /\ finish = <<StopEvent("stop")>> /\ usage = <<Event("usage")>>
    BY <1>8
  <2> HIDE DEF role, says, calls, finish, usage, none
  <2> QED  BY <1>1, <1>2, <2>1
<1>9. ASSUME ~e.role /\ e.what = "none" /\ ~e.finish /\ e.usage PROVE DecodeChat(d, e) = [fields |-> d, events |-> <<Event("usage")>>]
  <2>1. role = none /\ says = none /\ calls = none /\ finish = none /\ usage = <<Event("usage")>>
    BY <1>9
  <2> HIDE DEF role, says, calls, finish, usage, none
  <2> QED  BY <1>1, <1>2, <2>1
<1> QED  BY <1>3, <1>4, <1>5, <1>6, <1>7, <1>8, <1>9 DEF ChatTook

LEMMA ChatRole ==
  ASSUME NEW b, NEW d, NEW s, Hears("chat", b, d, s), s.phase = "new", Resumes(b, s)
  PROVE  /\ Heard("chat", b, DecodeChat(d, [ChatChunk("none", 0) EXCEPT !.role = TRUE]), [s EXCEPT !.phase = "body"], <<>>)
         /\ Resuming(Took(b, DecodeChat(d, [ChatChunk("none", 0) EXCEPT !.role = TRUE]).events), "body", s.last, s.interleaved, s.calls)
<1> DEFINE up == "chat"
           src == [s EXCEPT !.phase = "body"]
           f == d
           none == <<>>
<1>1. /\ b \in Answers /\ b.legal /\ ~b.failed /\ b.got = none /\ Standing(up, b, d, s) /\ Advancing(up, b, d, s)
      /\ Settled(b) /\ s \in Sources /\ d \in Decoders /\ s.phase # "failed"
  BY DEF Hears, Standing
<1>2. src \in Sources /\ f \in Decoders
  BY <1>1 DEF Sources, Decoders, Phases, Opened
<1>3. /\ src.phase = "body" /\ src.open = s.open /\ src.calls = s.calls /\ src.usage = s.usage /\ src.cut = s.cut /\ src.blocked = s.blocked /\ src.bare = s.bare /\ src.interleaved = s.interleaved
      /\ f.tool = d.tool /\ f.usage = d.usage
  BY <1>1 DEF Sources, Decoders
<1>4. /\ b.told = s.calls /\ s.calls \in Nat /\ b.told \in Nat /\ b.got \in Seq(Pairs)
      /\ (b.strayed => s.interleaved) /\ (b.bare => s.bare)
      /\ (up = "responses" => s.open \in {"none", "message", "reasoning", "call"})
      /\ b.finished = (s.phase \in {"finished", "ended", "done"})
      /\ (s.phase = "body" => b.begun)
      /\ Resuming(b, s.phase, s.last, s.interleaved, s.calls)
  BY <1>1 DEF Standing, Advancing, Sources, Decoders, Answers, Resumes
<1>p. \A y : Append(none, y) = <<y>>
  OBVIOUS
<1> HIDE DEF none, src, f
<1>5. Heard(up, b, DecodeChat(d, [ChatChunk("none", 0) EXCEPT !.role = TRUE]), src, <<>>) /\ Resuming(Took(b, DecodeChat(d, [ChatChunk("none", 0) EXCEPT !.role = TRUE]).events), "body", s.last, s.interleaved, s.calls)
  <2>1. DecodeChat(d, [ChatChunk("none", 0) EXCEPT !.role = TRUE]) = [fields |-> f, events |-> <<Event("start")>>]
    <3> DEFINE e == [ChatChunk("none", 0) EXCEPT !.role = TRUE]
    <3>1. e.role = TRUE /\ e.what = "none" /\ e.tool = 0 /\ e.finish = FALSE /\ e.usage = FALSE
      BY DEF ChatChunk
    <3>b. e.role \in BOOLEAN /\ e.finish \in BOOLEAN /\ e.usage \in BOOLEAN
      BY DEF ChatChunk
    <3> HIDE DEF e
    <3>2. DecodeChat(d, e) = [fields |-> d, events |-> <<Event("start")>>]
      <4>1. ChatTook(d, e)
        BY <3>b, ChatTakes
      <4> QED  BY <3>1, <4>1 DEF ChatTook
    <3> QED  BY <3>2 DEF e, f
  <2> DEFINE e1 == Event("start")
             z1 == Take(b, Event("start"))
  <2>2. /\ e1 \in Occurrences /\ e1.kind = "start"
    BY <1>4, Said DEF Kinds, Contents
  <2>a. Fit(up, e1)
    BY <2>2 DEF Fit, Contents
  <2> HIDE DEF e1
  <2>3. /\ z1 \in Answers /\ z1.legal /\ Marking(b, z1, TRUE, b.finished, b.usage, b.done, b.failed, b.bare) /\ z1.hot = b.hot
    BY <1>1, <1>3, <1>4, TakesStart DEF Takes
  <2> HIDE DEF z1
  <2>4. /\ z1.told = b.told /\ (z1.strayed = b.strayed) /\ (z1.hot = b.hot) /\ (z1.begun = TRUE)
        /\ (z1.finished = b.finished) /\ (z1.usage = b.usage) /\ (z1.failed = b.failed) /\ (z1.bare = b.bare)
    BY <1>1, <2>3 DEF Marking, Calling, Answers
  <2>5. z1.got = b.got
    BY <2>3 DEF Marking, Calling
  <2>6. z1.got = <<>>
    BY <1>1, <1>p, <2>5 DEF none
  <2>7. Advancing(up, z1, f, src)
    BY <1>1, <1>3, <1>4, <2>4 DEF Advancing
  <2>8. Standing(up, z1, f, src)
    BY <1>1, <1>2, <1>3, <1>4, <2>3, <2>4, <2>7 DEF Standing
  <2>9. z1 = Take(b, e1)
    BY DEF z1, e1
  <2>10. Heard(up, b, [fields |-> f, events |-> <<e1>>], src, <<>>)
    BY <2>2, <2>a, <2>6, <2>8, <2>9, HeardOne
  <2>11. Took(b, <<e1>>) = z1
    BY <2>9, TookOne
  <2>12. Took(b, DecodeChat(d, [ChatChunk("none", 0) EXCEPT !.role = TRUE]).events) = z1
    BY <2>1, <2>11 DEF e1
  <2>13. Resuming(Took(b, DecodeChat(d, [ChatChunk("none", 0) EXCEPT !.role = TRUE]).events), "body", s.last, s.interleaved, s.calls)
    BY <1>1, <1>4, <2>4, <2>12  DEF Resuming
  <2> QED  BY <2>1, <2>10, <2>13 DEF e1
<1> QED  BY <1>5 DEF src, up, f

LEMMA ChatRoleText ==
  ASSUME NEW b, NEW d, NEW s, Hears("chat", b, d, s), s.phase = "new"
  PROVE  /\ Heard("chat", b, DecodeChat(d, [ChatChunk("text", 0) EXCEPT !.role = TRUE]), [s EXCEPT !.phase = "body"], <<<<"text", 0>>>>)
         /\ Resuming(Took(b, DecodeChat(d, [ChatChunk("text", 0) EXCEPT !.role = TRUE]).events), "body", <<"text", 0>>, s.interleaved, s.calls)
<1> DEFINE up == "chat"
           src == [s EXCEPT !.phase = "body"]
           f == d
           none == <<>>
<1>1. /\ b \in Answers /\ b.legal /\ ~b.failed /\ b.got = none /\ Standing(up, b, d, s) /\ Advancing(up, b, d, s)
      /\ Settled(b) /\ s \in Sources /\ d \in Decoders /\ s.phase # "failed"
  BY DEF Hears, Standing
<1>2. src \in Sources /\ f \in Decoders
  BY <1>1 DEF Sources, Decoders, Phases, Opened
<1>3. /\ src.phase = "body" /\ src.open = s.open /\ src.calls = s.calls /\ src.usage = s.usage /\ src.cut = s.cut /\ src.blocked = s.blocked /\ src.bare = s.bare /\ src.interleaved = s.interleaved
      /\ f.tool = d.tool /\ f.usage = d.usage
  BY <1>1 DEF Sources, Decoders
<1>4. /\ b.told = s.calls /\ s.calls \in Nat /\ b.told \in Nat /\ b.got \in Seq(Pairs)
      /\ (b.strayed => s.interleaved) /\ (b.bare => s.bare)
      /\ (up = "responses" => s.open \in {"none", "message", "reasoning", "call"})
      /\ b.finished = (s.phase \in {"finished", "ended", "done"})
      /\ (s.phase = "body" => b.begun)
  BY <1>1 DEF Standing, Advancing, Sources, Decoders, Answers
<1>p. \A y : Append(none, y) = <<y>>
  OBVIOUS
<1> HIDE DEF none, src, f
<1>5. Heard(up, b, DecodeChat(d, [ChatChunk("text", 0) EXCEPT !.role = TRUE]), src, <<<<"text", 0>>>>) /\ Resuming(Took(b, DecodeChat(d, [ChatChunk("text", 0) EXCEPT !.role = TRUE]).events), "body", <<"text", 0>>, s.interleaved, s.calls)
  <2>1. DecodeChat(d, [ChatChunk("text", 0) EXCEPT !.role = TRUE]) = [fields |-> f, events |-> <<Event("start"), Event("text")>>]
    <3> DEFINE e == [ChatChunk("text", 0) EXCEPT !.role = TRUE]
    <3>1. e.role = TRUE /\ e.what = "text" /\ e.tool = 0 /\ e.finish = FALSE /\ e.usage = FALSE
      BY DEF ChatChunk
    <3>b. e.role \in BOOLEAN /\ e.finish \in BOOLEAN /\ e.usage \in BOOLEAN
      BY DEF ChatChunk
    <3> HIDE DEF e
    <3>2. DecodeChat(d, e) = [fields |-> d, events |-> <<Event("start"), Event("text")>>]
      <4>1. ChatTook(d, e)
        BY <3>b, ChatTakes
      <4> QED  BY <3>1, <4>1 DEF ChatTook
    <3> QED  BY <3>2 DEF e, f
  <2> DEFINE e1 == Event("start")
             e2 == Event("text")
             z1 == Take(b, Event("start"))
             z2 == Take(z1, Event("text"))
  <2>2. /\ e1 \in Occurrences /\ e1.kind = "start"
        /\ e2 \in Occurrences /\ e2.kind = "text"
    BY <1>4, Said DEF Kinds, Contents
  <2>a. Fit(up, e1) /\ Fit(up, e2)
    BY <2>2 DEF Fit, Contents
  <2> HIDE DEF e1, e2
  <2>3. /\ z1 \in Answers /\ z1.legal /\ Marking(b, z1, TRUE, b.finished, b.usage, b.done, b.failed, b.bare) /\ z1.hot = b.hot
    BY <1>1, <1>3, <1>4, TakesStart DEF Takes
  <2> HIDE DEF z1
  <2>4. /\ z1.told = b.told /\ (z1.strayed = b.strayed) /\ (z1.hot = b.hot) /\ (z1.begun = TRUE)
        /\ (z1.finished = b.finished) /\ (z1.usage = b.usage) /\ (z1.failed = b.failed) /\ (z1.bare = b.bare)
    BY <1>1, <2>3 DEF Marking, Calling, Answers
  <2>5. z1.got = b.got
    BY <2>3 DEF Marking, Calling
  <2>6. /\ z2 \in Answers /\ z2.legal /\ Calling(z1, z2, z1.told, Append(z1.got, <<"text", 0>>), FALSE, z1.strayed)
    BY <1>1, <1>3, <1>4, <2>3, <2>4, <2>5, TakesContent DEF Takes, Contents
  <2> HIDE DEF z2
  <2>7. /\ z2.told = b.told /\ (z2.strayed = b.strayed) /\ (z2.hot = FALSE) /\ (z2.begun = TRUE)
        /\ (z2.finished = b.finished) /\ (z2.usage = b.usage) /\ (z2.failed = b.failed) /\ (z2.bare = b.bare)
    BY <1>1, <2>4, <2>5, <2>6 DEF Marking, Calling, Answers
  <2>8. z2.got = Append(b.got, <<"text", 0>>)
    BY <2>4, <2>5, <2>6 DEF Marking, Calling
  <2>9. z2.got = <<<<"text", 0>>>>
    BY <1>1, <1>p, <2>8
  <2>10. Advancing(up, z2, f, src)
    BY <1>1, <1>3, <1>4, <2>7 DEF Advancing
  <2>11. Standing(up, z2, f, src)
    BY <1>1, <1>2, <1>3, <1>4, <2>6, <2>7, <2>10 DEF Standing
  <2>12. z2 = Take(Take(b, e1), e2)
    BY DEF z1, z2, e1, e2
  <2>13. Heard(up, b, [fields |-> f, events |-> <<e1, e2>>], src, <<<<"text", 0>>>>)
    BY <2>2, <2>a, <2>9, <2>11, <2>12, HeardTwo DEF Contents
  <2>14. Took(b, <<e1, e2>>) = z2
    BY <2>12, TookTwo
  <2>15. Took(b, DecodeChat(d, [ChatChunk("text", 0) EXCEPT !.role = TRUE]).events) = z2
    BY <2>1, <2>14 DEF e1, e2
  <2>16. Resuming(Took(b, DecodeChat(d, [ChatChunk("text", 0) EXCEPT !.role = TRUE]).events), "body", <<"text", 0>>, s.interleaved, s.calls)
    BY <1>1, <1>4, <2>7, <2>15  DEF Resuming
  <2> QED  BY <2>1, <2>13, <2>16 DEF e1, e2
<1> QED  BY <1>5 DEF src, up, f

LEMMA ChatText ==
  ASSUME NEW b, NEW d, NEW s, Hears("chat", b, d, s), s.phase = "body", NEW what \in {"text", "refusal", "thinking", "signature"}
  PROVE  /\ Heard("chat", b, DecodeChat(d, ChatChunk(what, 0)), s, <<<<what, 0>>>>)
         /\ Resuming(Took(b, DecodeChat(d, ChatChunk(what, 0)).events), s.phase, <<what, 0>>, s.interleaved, s.calls)
<1> DEFINE up == "chat"
           src == s
           f == d
           none == <<>>
<1>1. /\ b \in Answers /\ b.legal /\ ~b.failed /\ b.got = none /\ Standing(up, b, d, s) /\ Advancing(up, b, d, s)
      /\ Settled(b) /\ s \in Sources /\ d \in Decoders /\ s.phase # "failed"
  BY DEF Hears, Standing
<1>2. src \in Sources /\ f \in Decoders
  BY <1>1 DEF Sources, Decoders, Phases, Opened
<1>3. /\ src.phase = s.phase /\ src.open = s.open /\ src.calls = s.calls /\ src.usage = s.usage /\ src.cut = s.cut /\ src.blocked = s.blocked /\ src.bare = s.bare /\ src.interleaved = s.interleaved
      /\ f.tool = d.tool /\ f.usage = d.usage
  BY <1>1 DEF Sources, Decoders
<1>4. /\ b.told = s.calls /\ s.calls \in Nat /\ b.told \in Nat /\ b.got \in Seq(Pairs)
      /\ (b.strayed => s.interleaved) /\ (b.bare => s.bare)
      /\ (up = "responses" => s.open \in {"none", "message", "reasoning", "call"})
      /\ b.finished = (s.phase \in {"finished", "ended", "done"})
      /\ (s.phase = "body" => b.begun)
  BY <1>1 DEF Standing, Advancing, Sources, Decoders, Answers
<1>p. \A y : Append(none, y) = <<y>>
  OBVIOUS
<1> HIDE DEF none, src, f
<1>5. Heard(up, b, DecodeChat(d, ChatChunk(what, 0)), src, <<<<what, 0>>>>) /\ Resuming(Took(b, DecodeChat(d, ChatChunk(what, 0)).events), s.phase, <<what, 0>>, s.interleaved, s.calls)
  <2>1. DecodeChat(d, ChatChunk(what, 0)) = [fields |-> f, events |-> <<Event(what)>>]
    <3> DEFINE e == ChatChunk(what, 0)
    <3>1. e.role = FALSE /\ e.what = what /\ e.tool = 0 /\ e.finish = FALSE /\ e.usage = FALSE
      BY DEF ChatChunk
    <3>b. e.role \in BOOLEAN /\ e.finish \in BOOLEAN /\ e.usage \in BOOLEAN
      BY DEF ChatChunk
    <3> HIDE DEF e
    <3>2. DecodeChat(d, e) = [fields |-> d, events |-> <<Event(what)>>]
      <4>1. ChatTook(d, e)
        BY <3>b, ChatTakes
      <4> QED  BY <3>1, <4>1 DEF ChatTook
    <3> QED  BY <3>2 DEF e, f
  <2> DEFINE e1 == Event(what)
             z1 == Take(b, Event(what))
  <2>2. /\ e1 \in Occurrences /\ e1.kind = what
    BY <1>4, Said DEF Kinds, Contents
  <2>a. Fit(up, e1)
    BY <2>2 DEF Fit, Contents
  <2> HIDE DEF e1
  <2>3. /\ z1 \in Answers /\ z1.legal /\ Calling(b, z1, b.told, Append(b.got, <<what, 0>>), FALSE, b.strayed)
    BY <1>1, <1>3, <1>4, TakesContent DEF Takes, Contents
  <2> HIDE DEF z1
  <2>4. /\ z1.told = b.told /\ (z1.strayed = b.strayed) /\ (z1.hot = FALSE) /\ (z1.begun = b.begun)
        /\ (z1.finished = b.finished) /\ (z1.usage = b.usage) /\ (z1.failed = b.failed) /\ (z1.bare = b.bare)
    BY <1>1, <2>3 DEF Marking, Calling, Answers
  <2>5. z1.got = Append(b.got, <<what, 0>>)
    BY <2>3 DEF Marking, Calling
  <2>6. z1.got = <<<<what, 0>>>>
    BY <1>1, <1>p, <2>5
  <2>7. Advancing(up, z1, f, src)
    BY <1>1, <1>3, <1>4, <2>4 DEF Advancing
  <2>8. Standing(up, z1, f, src)
    BY <1>1, <1>2, <1>3, <1>4, <2>3, <2>4, <2>7 DEF Standing
  <2>9. z1 = Take(b, e1)
    BY DEF z1, e1
  <2>10. Heard(up, b, [fields |-> f, events |-> <<e1>>], src, <<<<what, 0>>>>)
    BY <2>2, <2>a, <2>6, <2>8, <2>9, HeardOne DEF Contents
  <2>11. Took(b, <<e1>>) = z1
    BY <2>9, TookOne
  <2>12. Took(b, DecodeChat(d, ChatChunk(what, 0)).events) = z1
    BY <2>1, <2>11 DEF e1
  <2>13. Resuming(Took(b, DecodeChat(d, ChatChunk(what, 0)).events), s.phase, <<what, 0>>, s.interleaved, s.calls)
    BY <1>1, <1>4, <2>4, <2>12  DEF Resuming
  <2> QED  BY <2>1, <2>10, <2>13 DEF e1
<1> QED  BY <1>5 DEF src, up, f

LEMMA ChatCall ==
  ASSUME NEW b, NEW d, NEW s, Hears("chat", b, d, s), s.phase = "body"
  PROVE  /\ Heard("chat", b, DecodeChat(d, ChatChunk("toolstart", s.calls)), [s EXCEPT !.calls = s.calls + 1], <<<<"call", s.calls>>>>)
         /\ Resuming(Took(b, DecodeChat(d, ChatChunk("toolstart", s.calls)).events), s.phase, <<"call", s.calls>>, s.interleaved, s.calls + 1)
<1> DEFINE up == "chat"
           calls == s.calls + 1
           src == [s EXCEPT !.calls = calls]
           f == d
           none == <<>>
           n == s.calls
<1>1. /\ b \in Answers /\ b.legal /\ ~b.failed /\ b.got = none /\ Standing(up, b, d, s) /\ Advancing(up, b, d, s)
      /\ Settled(b) /\ s \in Sources /\ d \in Decoders /\ s.phase # "failed"
  BY DEF Hears, Standing
<1>n. calls = s.calls + 1 /\ calls \in Nat
  BY <1>1 DEF Sources, Decoders
<1> HIDE DEF calls
<1>2. src \in Sources /\ f \in Decoders
  BY <1>1, <1>n DEF Sources, Decoders, Phases, Opened
<1>3. /\ src.phase = s.phase /\ src.open = s.open /\ src.calls = calls /\ src.usage = s.usage /\ src.cut = s.cut /\ src.blocked = s.blocked /\ src.bare = s.bare /\ src.interleaved = s.interleaved
      /\ f.tool = d.tool /\ f.usage = d.usage
  BY <1>1, <1>n DEF Sources, Decoders
<1>4. /\ b.told = s.calls /\ s.calls \in Nat /\ b.told \in Nat /\ b.got \in Seq(Pairs)
      /\ (b.strayed => s.interleaved) /\ (b.bare => s.bare)
      /\ (up = "responses" => s.open \in {"none", "message", "reasoning", "call"})
      /\ b.finished = (s.phase \in {"finished", "ended", "done"})
      /\ (s.phase = "body" => b.begun)
      /\ n = b.told /\ n = s.calls /\ n \in Nat
  BY <1>1 DEF Standing, Advancing, Sources, Decoders, Answers, Settled
<1>p. \A y : Append(none, y) = <<y>>
  OBVIOUS
<1> HIDE DEF none, src, f, n
<1>5. Heard(up, b, DecodeChat(d, ChatChunk("toolstart", n)), src, <<<<"call", n>>>>) /\ Resuming(Took(b, DecodeChat(d, ChatChunk("toolstart", n)).events), s.phase, <<"call", n>>, s.interleaved, calls)
  <2>1. DecodeChat(d, ChatChunk("toolstart", n)) = [fields |-> f, events |-> <<ToolEvent("toolstart", n)>>]
    <3> DEFINE e == ChatChunk("toolstart", n)
    <3>1. e.role = FALSE /\ e.what = "toolstart" /\ e.tool = n /\ e.finish = FALSE /\ e.usage = FALSE
      BY DEF ChatChunk
    <3>b. e.role \in BOOLEAN /\ e.finish \in BOOLEAN /\ e.usage \in BOOLEAN
      BY DEF ChatChunk
    <3> HIDE DEF e
    <3>2. DecodeChat(d, e) = [fields |-> d, events |-> <<ToolEvent("toolstart", n)>>]
      <4>1. ChatTook(d, e)
        BY <3>b, ChatTakes
      <4> QED  BY <3>1, <4>1 DEF ChatTook
    <3> QED  BY <3>2 DEF e, f
  <2> DEFINE e1 == ToolEvent("toolstart", n)
             z1 == Take(b, ToolEvent("toolstart", n))
  <2>2. /\ e1 \in Occurrences /\ e1.kind = "toolstart"
    BY <1>4, Said DEF Kinds, Contents
  <2>a. Fit(up, e1)
    BY <2>2 DEF Fit, Contents
  <2> HIDE DEF e1
  <2>3. /\ z1 \in Answers /\ z1.legal /\ Calling(b, z1, b.told + 1, Append(b.got, <<"call", n>>), TRUE, b.strayed)
    BY <1>1, <1>3, <1>4, TakesTool DEF Takes
  <2> HIDE DEF z1
  <2>4. /\ z1.told = b.told + 1 /\ (z1.strayed = b.strayed) /\ (z1.hot = TRUE) /\ (z1.begun = b.begun)
        /\ (z1.finished = b.finished) /\ (z1.usage = b.usage) /\ (z1.failed = b.failed) /\ (z1.bare = b.bare)
    BY <1>1, <2>3 DEF Marking, Calling, Answers
  <2>5. z1.got = Append(b.got, <<"call", n>>)
    BY <2>3 DEF Marking, Calling
  <2>6. z1.got = <<<<"call", n>>>>
    BY <1>1, <1>p, <2>5
  <2>b. b.told + 1 > 0
    BY <1>4, <1>n
  <2>7. Advancing(up, z1, f, src)
    BY <2>b, <1>1, <1>3, <1>4, <2>4 DEF Advancing
  <2>8. Standing(up, z1, f, src)
    BY <1>1, <1>2, <1>3, <1>4, <2>3, <2>4, <2>7, <1>n DEF Standing
  <2>9. z1 = Take(b, e1)
    BY DEF z1, e1
  <2>10. Heard(up, b, [fields |-> f, events |-> <<e1>>], src, <<<<"call", n>>>>)
    BY <2>2, <2>a, <2>6, <2>8, <2>9, HeardOne
  <2>11. Took(b, <<e1>>) = z1
    BY <2>9, TookOne
  <2>12. Took(b, DecodeChat(d, ChatChunk("toolstart", n)).events) = z1
    BY <2>1, <2>11 DEF e1
  <2>13. Resuming(Took(b, DecodeChat(d, ChatChunk("toolstart", n)).events), s.phase, <<"call", n>>, s.interleaved, calls)
    BY <1>1, <1>4, <2>4, <2>12 , <1>n DEF Resuming
  <2> QED  BY <2>1, <2>10, <2>13 DEF e1
<1> QED  BY <1>5 DEF src, up, f, calls, n

LEMMA ChatArguments ==
  ASSUME NEW b, NEW d, NEW s, Hears("chat", b, d, s), s.phase = "body", Resumes(b, s), NEW n \in 0..(s.calls - 1)
  PROVE  /\ Heard("chat", b, DecodeChat(d, ChatChunk("toolargs", n)), [s EXCEPT !.interleaved = (s.interleaved \/ (s.last \notin {<<"call", n>>, <<"args", n>>}))], <<<<"args", n>>>>)
         /\ Resuming(Took(b, DecodeChat(d, ChatChunk("toolargs", n)).events), s.phase, <<"args", n>>, (s.interleaved \/ (s.last \notin {<<"call", n>>, <<"args", n>>})), s.calls)
<1> DEFINE up == "chat"
           between == (s.last \notin {<<"call", n>>, <<"args", n>>})
           src == [s EXCEPT !.interleaved = (s.interleaved \/ between)]
           f == d
           none == <<>>
<1>1. /\ b \in Answers /\ b.legal /\ ~b.failed /\ b.got = none /\ Standing(up, b, d, s) /\ Advancing(up, b, d, s)
      /\ Settled(b) /\ s \in Sources /\ d \in Decoders /\ s.phase # "failed"
  BY DEF Hears, Standing
<1> HIDE DEF between
<1>2. src \in Sources /\ f \in Decoders
  BY <1>1 DEF Sources, Decoders, Phases, Opened
<1>3. /\ src.phase = s.phase /\ src.open = s.open /\ src.calls = s.calls /\ src.usage = s.usage /\ src.cut = s.cut /\ src.blocked = s.blocked /\ src.bare = s.bare /\ src.interleaved = (s.interleaved \/ between)
      /\ f.tool = d.tool /\ f.usage = d.usage
  BY <1>1 DEF Sources, Decoders
<1>4. /\ b.told = s.calls /\ s.calls \in Nat /\ b.told \in Nat /\ b.got \in Seq(Pairs)
      /\ (b.strayed => s.interleaved) /\ (b.bare => s.bare)
      /\ (up = "responses" => s.open \in {"none", "message", "reasoning", "call"})
      /\ b.finished = (s.phase \in {"finished", "ended", "done"})
      /\ (s.phase = "body" => b.begun)
      /\ n \in Nat /\ n < b.told
      /\ Resuming(b, s.phase, s.last, s.interleaved, s.calls)
  BY <1>1 DEF Standing, Advancing, Sources, Decoders, Answers, Settled, Resumes
<1>r. ~s.interleaved /\ ~between => b.hot /\ n + 1 = b.told
  <2>1. ~between => s.last[1] \in {"call", "args"} /\ s.last[2] = n
    BY DEF between
  <2>2. ~s.interleaved /\ s.last[1] \in {"call", "args"} => b.hot /\ s.last[2] + 1 = s.calls
    BY <1>4 DEF Resuming
  <2> QED  BY <2>1, <2>2, <1>4
<1>p. \A y : Append(none, y) = <<y>>
  OBVIOUS
<1> HIDE DEF none, src, f
<1>5. Heard(up, b, DecodeChat(d, ChatChunk("toolargs", n)), src, <<<<"args", n>>>>) /\ Resuming(Took(b, DecodeChat(d, ChatChunk("toolargs", n)).events), s.phase, <<"args", n>>, (s.interleaved \/ between), s.calls)
  <2>1. DecodeChat(d, ChatChunk("toolargs", n)) = [fields |-> f, events |-> <<ToolEvent("toolargs", n)>>]
    <3> DEFINE e == ChatChunk("toolargs", n)
    <3>1. e.role = FALSE /\ e.what = "toolargs" /\ e.tool = n /\ e.finish = FALSE /\ e.usage = FALSE
      BY DEF ChatChunk
    <3>b. e.role \in BOOLEAN /\ e.finish \in BOOLEAN /\ e.usage \in BOOLEAN
      BY DEF ChatChunk
    <3> HIDE DEF e
    <3>2. DecodeChat(d, e) = [fields |-> d, events |-> <<ToolEvent("toolargs", n)>>]
      <4>1. ChatTook(d, e)
        BY <3>b, ChatTakes
      <4> QED  BY <3>1, <4>1 DEF ChatTook
    <3> QED  BY <3>2 DEF e, f
  <2> DEFINE e1 == ToolEvent("toolargs", n)
             z1 == Take(b, ToolEvent("toolargs", n))
  <2>2. /\ e1 \in Occurrences /\ e1.kind = "toolargs"
    BY <1>4, Said DEF Kinds, Contents
  <2>a. Fit(up, e1)
    BY <2>2 DEF Fit, Contents
  <2> HIDE DEF e1
  <2>3. /\ z1 \in Answers /\ z1.legal /\ Calling(b, z1, b.told, Append(b.got, <<"args", n>>), b.hot, b.strayed \/ ~(b.hot /\ n + 1 = b.told))
    BY <1>1, <1>3, <1>4, TakesArguments DEF Takes
  <2> HIDE DEF z1
  <2>4. /\ z1.told = b.told /\ (z1.strayed = (b.strayed \/ ~(b.hot /\ n + 1 = b.told))) /\ (z1.hot = b.hot) /\ (z1.begun = b.begun)
        /\ (z1.finished = b.finished) /\ (z1.usage = b.usage) /\ (z1.failed = b.failed) /\ (z1.bare = b.bare)
    BY <1>1, <2>3 DEF Marking, Calling, Answers
  <2>5. z1.got = Append(b.got, <<"args", n>>)
    BY <2>3 DEF Marking, Calling
  <2>6. z1.got = <<<<"args", n>>>>
    BY <1>1, <1>p, <2>5
  <2>7. Advancing(up, z1, f, src)
    BY <1>1, <1>3, <1>4, <2>4 DEF Advancing
  <2>8. Standing(up, z1, f, src)
    BY <1>1, <1>2, <1>3, <1>4, <2>3, <2>4, <2>7, <1>r DEF Standing
  <2>9. z1 = Take(b, e1)
    BY DEF z1, e1
  <2>10. Heard(up, b, [fields |-> f, events |-> <<e1>>], src, <<<<"args", n>>>>)
    BY <2>2, <2>a, <2>6, <2>8, <2>9, HeardOne
  <2>11. Took(b, <<e1>>) = z1
    BY <2>9, TookOne
  <2>12. Took(b, DecodeChat(d, ChatChunk("toolargs", n)).events) = z1
    BY <2>1, <2>11 DEF e1
  <2>13. Resuming(Took(b, DecodeChat(d, ChatChunk("toolargs", n)).events), s.phase, <<"args", n>>, (s.interleaved \/ between), s.calls)
    BY <1>1, <1>4, <2>4, <2>12 , <1>r DEF Resuming
  <2> QED  BY <2>1, <2>10, <2>13 DEF e1
<1> QED  BY <1>5 DEF src, up, f, between

LEMMA ChatFinish ==
  ASSUME NEW b, NEW d, NEW s, Hears("chat", b, d, s), s.phase = "body", NEW usage \in BOOLEAN
  PROVE  Heard("chat", b, DecodeChat(d, [ChatChunk("none", 0) EXCEPT !.finish = TRUE, !.usage = usage]), [s EXCEPT !.phase = (IF usage THEN "ended" ELSE "finished"), !.usage = usage], <<>>)
<1> DEFINE up == "chat"
           src == [s EXCEPT !.phase = (IF usage THEN "ended" ELSE "finished"), !.usage = usage]
           f == d
           none == <<>>
<1>1. /\ b \in Answers /\ b.legal /\ ~b.failed /\ b.got = none /\ Standing(up, b, d, s) /\ Advancing(up, b, d, s)
      /\ Settled(b) /\ s \in Sources /\ d \in Decoders /\ s.phase # "failed"
  BY DEF Hears, Standing
<1>2. src \in Sources /\ f \in Decoders
  BY <1>1 DEF Sources, Decoders, Phases, Opened
<1>3. /\ src.phase = (IF usage THEN "ended" ELSE "finished") /\ src.open = s.open /\ src.calls = s.calls /\ src.usage = usage /\ src.cut = s.cut /\ src.blocked = s.blocked /\ src.bare = s.bare /\ src.interleaved = s.interleaved
      /\ f.tool = d.tool /\ f.usage = d.usage
  BY <1>1 DEF Sources, Decoders
<1>4. /\ b.told = s.calls /\ s.calls \in Nat /\ b.told \in Nat /\ b.got \in Seq(Pairs)
      /\ (b.strayed => s.interleaved) /\ (b.bare => s.bare)
      /\ (up = "responses" => s.open \in {"none", "message", "reasoning", "call"})
      /\ b.finished = (s.phase \in {"finished", "ended", "done"})
      /\ (s.phase = "body" => b.begun)
  BY <1>1 DEF Standing, Advancing, Sources, Decoders, Answers
<1>p. \A y : Append(none, y) = <<y>>
  OBVIOUS
<1> HIDE DEF none, src, f
<1>5. ASSUME usage PROVE Heard(up, b, DecodeChat(d, [ChatChunk("none", 0) EXCEPT !.finish = TRUE, !.usage = usage]), src, <<>>)
  <2>1. DecodeChat(d, [ChatChunk("none", 0) EXCEPT !.finish = TRUE, !.usage = usage]) = [fields |-> f, events |-> <<StopEvent("stop"), Event("usage")>>]
    <3> DEFINE e == [ChatChunk("none", 0) EXCEPT !.finish = TRUE, !.usage = usage]
    <3>1. e.role = FALSE /\ e.what = "none" /\ e.tool = 0 /\ e.finish = TRUE /\ e.usage = usage
      BY DEF ChatChunk
    <3>b. e.role \in BOOLEAN /\ e.finish \in BOOLEAN /\ e.usage \in BOOLEAN
      BY DEF ChatChunk
    <3> HIDE DEF e
    <3>2. DecodeChat(d, e) = [fields |-> d, events |-> <<StopEvent("stop"), Event("usage")>>]
      <4>1. ChatTook(d, e)
        BY <3>b, ChatTakes
      <4> QED  BY <3>1, <1>5, <4>1 DEF ChatTook
    <3> QED  BY <3>2 DEF e, f
  <2> DEFINE e1 == StopEvent("stop")
             e2 == Event("usage")
             z1 == Take(b, StopEvent("stop"))
             z2 == Take(z1, Event("usage"))
  <2>2. /\ e1 \in Occurrences /\ e1.kind = "stop"
        /\ e2 \in Occurrences /\ e2.kind = "usage"
    BY <1>4, Said DEF Kinds, Contents
  <2>a. Fit(up, e1) /\ Fit(up, e2)
    BY <2>2 DEF Fit, Contents
  <2> HIDE DEF e1, e2
  <2>3. /\ z1 \in Answers /\ z1.legal /\ Marking(b, z1, b.begun, TRUE, b.usage, b.done, b.failed, b.bare \/ ~b.begun) /\ ~z1.hot
    BY <1>1, <1>3, <1>4, <1>5, TakesStop DEF Takes
  <2> HIDE DEF z1
  <2>4. /\ z1.told = b.told /\ (z1.strayed = b.strayed) /\ (z1.hot = FALSE) /\ (z1.begun = b.begun)
        /\ (z1.finished = TRUE) /\ (z1.usage = b.usage) /\ (z1.failed = b.failed) /\ (z1.bare = (b.bare \/ ~b.begun))
    BY <1>1, <2>3 DEF Marking, Calling, Answers
  <2>5. z1.got = b.got
    BY <2>3 DEF Marking, Calling
  <2>6. /\ z2 \in Answers /\ z2.legal /\ Marking(z1, z2, z1.begun, z1.finished, z1.usage \/ z1.finished, z1.done, z1.failed, z1.bare) /\ z2.hot = z1.hot
    BY <1>1, <1>3, <1>4, <2>3, <2>4, <2>5, <1>5, TakesUsage DEF Takes
  <2> HIDE DEF z2
  <2>7. /\ z2.told = b.told /\ (z2.strayed = b.strayed) /\ (z2.hot = FALSE) /\ (z2.begun = b.begun)
        /\ (z2.finished = TRUE) /\ (z2.usage = (b.usage \/ TRUE)) /\ (z2.failed = b.failed) /\ (z2.bare = (b.bare \/ ~b.begun))
    BY <1>1, <2>4, <2>5, <2>6 DEF Marking, Calling, Answers
  <2>8. z2.got = b.got
    BY <2>4, <2>5, <2>6 DEF Marking, Calling
  <2>9. z2.got = <<>>
    BY <1>1, <1>p, <2>8 DEF none
  <2>10. Advancing(up, z2, f, src)
    BY <1>1, <1>3, <1>4, <2>7, <1>5 DEF Advancing
  <2>11. Standing(up, z2, f, src)
    BY <1>1, <1>2, <1>3, <1>4, <2>6, <2>7, <2>10, <1>5 DEF Standing
  <2>12. z2 = Take(Take(b, e1), e2)
    BY DEF z1, z2, e1, e2
  <2>13. Heard(up, b, [fields |-> f, events |-> <<e1, e2>>], src, <<>>)
    BY <2>2, <2>a, <2>9, <2>11, <2>12, HeardTwo
  <2> QED  BY <2>1, <2>13 DEF e1, e2
<1>6. ASSUME ~usage PROVE Heard(up, b, DecodeChat(d, [ChatChunk("none", 0) EXCEPT !.finish = TRUE, !.usage = usage]), src, <<>>)
  <2>1. DecodeChat(d, [ChatChunk("none", 0) EXCEPT !.finish = TRUE, !.usage = usage]) = [fields |-> f, events |-> <<StopEvent("stop")>>]
    <3> DEFINE e == [ChatChunk("none", 0) EXCEPT !.finish = TRUE, !.usage = usage]
    <3>1. e.role = FALSE /\ e.what = "none" /\ e.tool = 0 /\ e.finish = TRUE /\ e.usage = usage
      BY DEF ChatChunk
    <3>b. e.role \in BOOLEAN /\ e.finish \in BOOLEAN /\ e.usage \in BOOLEAN
      BY DEF ChatChunk
    <3> HIDE DEF e
    <3>2. DecodeChat(d, e) = [fields |-> d, events |-> <<StopEvent("stop")>>]
      <4>1. ChatTook(d, e)
        BY <3>b, ChatTakes
      <4> QED  BY <3>1, <1>6, <4>1 DEF ChatTook
    <3> QED  BY <3>2 DEF e, f
  <2> DEFINE e1 == StopEvent("stop")
             z1 == Take(b, StopEvent("stop"))
  <2>2. /\ e1 \in Occurrences /\ e1.kind = "stop"
    BY <1>4, Said DEF Kinds, Contents
  <2>a. Fit(up, e1)
    BY <2>2 DEF Fit, Contents
  <2> HIDE DEF e1
  <2>3. /\ z1 \in Answers /\ z1.legal /\ Marking(b, z1, b.begun, TRUE, b.usage, b.done, b.failed, b.bare \/ ~b.begun) /\ ~z1.hot
    BY <1>1, <1>3, <1>4, <1>6, TakesStop DEF Takes
  <2> HIDE DEF z1
  <2>4. /\ z1.told = b.told /\ (z1.strayed = b.strayed) /\ (z1.hot = FALSE) /\ (z1.begun = b.begun)
        /\ (z1.finished = TRUE) /\ (z1.usage = b.usage) /\ (z1.failed = b.failed) /\ (z1.bare = (b.bare \/ ~b.begun))
    BY <1>1, <2>3 DEF Marking, Calling, Answers
  <2>5. z1.got = b.got
    BY <2>3 DEF Marking, Calling
  <2>6. z1.got = <<>>
    BY <1>1, <1>p, <2>5 DEF none
  <2>7. Advancing(up, z1, f, src)
    BY <1>1, <1>3, <1>4, <2>4, <1>6 DEF Advancing
  <2>8. Standing(up, z1, f, src)
    BY <1>1, <1>2, <1>3, <1>4, <2>3, <2>4, <2>7, <1>6 DEF Standing
  <2>9. z1 = Take(b, e1)
    BY DEF z1, e1
  <2>10. Heard(up, b, [fields |-> f, events |-> <<e1>>], src, <<>>)
    BY <2>2, <2>a, <2>6, <2>8, <2>9, HeardOne
  <2> QED  BY <2>1, <2>10 DEF e1
<1> QED  BY <1>5, <1>6 DEF src, up, f

LEMMA ChatUsage ==
  ASSUME NEW b, NEW d, NEW s, Hears("chat", b, d, s), s.phase = "finished"
  PROVE  Heard("chat", b, DecodeChat(d, [ChatChunk("none", 0) EXCEPT !.usage = TRUE]), [s EXCEPT !.phase = "ended", !.usage = TRUE], <<>>)
<1> DEFINE up == "chat"
           src == [s EXCEPT !.phase = "ended", !.usage = TRUE]
           f == d
           none == <<>>
<1>1. /\ b \in Answers /\ b.legal /\ ~b.failed /\ b.got = none /\ Standing(up, b, d, s) /\ Advancing(up, b, d, s)
      /\ Settled(b) /\ s \in Sources /\ d \in Decoders /\ s.phase # "failed"
  BY DEF Hears, Standing
<1>2. src \in Sources /\ f \in Decoders
  BY <1>1 DEF Sources, Decoders, Phases, Opened
<1>3. /\ src.phase = "ended" /\ src.open = s.open /\ src.calls = s.calls /\ src.usage = TRUE /\ src.cut = s.cut /\ src.blocked = s.blocked /\ src.bare = s.bare /\ src.interleaved = s.interleaved
      /\ f.tool = d.tool /\ f.usage = d.usage
  BY <1>1 DEF Sources, Decoders
<1>4. /\ b.told = s.calls /\ s.calls \in Nat /\ b.told \in Nat /\ b.got \in Seq(Pairs)
      /\ (b.strayed => s.interleaved) /\ (b.bare => s.bare)
      /\ (up = "responses" => s.open \in {"none", "message", "reasoning", "call"})
      /\ b.finished = (s.phase \in {"finished", "ended", "done"})
      /\ (s.phase = "body" => b.begun)
  BY <1>1 DEF Standing, Advancing, Sources, Decoders, Answers
<1>p. \A y : Append(none, y) = <<y>>
  OBVIOUS
<1> HIDE DEF none, src, f
<1>5. Heard(up, b, DecodeChat(d, [ChatChunk("none", 0) EXCEPT !.usage = TRUE]), src, <<>>)
  <2>1. DecodeChat(d, [ChatChunk("none", 0) EXCEPT !.usage = TRUE]) = [fields |-> f, events |-> <<Event("usage")>>]
    <3> DEFINE e == [ChatChunk("none", 0) EXCEPT !.usage = TRUE]
    <3>1. e.role = FALSE /\ e.what = "none" /\ e.tool = 0 /\ e.finish = FALSE /\ e.usage = TRUE
      BY DEF ChatChunk
    <3>b. e.role \in BOOLEAN /\ e.finish \in BOOLEAN /\ e.usage \in BOOLEAN
      BY DEF ChatChunk
    <3> HIDE DEF e
    <3>2. DecodeChat(d, e) = [fields |-> d, events |-> <<Event("usage")>>]
      <4>1. ChatTook(d, e)
        BY <3>b, ChatTakes
      <4> QED  BY <3>1, <4>1 DEF ChatTook
    <3> QED  BY <3>2 DEF e, f
  <2> DEFINE e1 == Event("usage")
             z1 == Take(b, Event("usage"))
  <2>2. /\ e1 \in Occurrences /\ e1.kind = "usage"
    BY <1>4, Said DEF Kinds, Contents
  <2>a. Fit(up, e1)
    BY <2>2 DEF Fit, Contents
  <2> HIDE DEF e1
  <2>3. /\ z1 \in Answers /\ z1.legal /\ Marking(b, z1, b.begun, b.finished, b.usage \/ b.finished, b.done, b.failed, b.bare) /\ z1.hot = b.hot
    BY <1>1, <1>3, <1>4, TakesUsage DEF Takes
  <2> HIDE DEF z1
  <2>4. /\ z1.told = b.told /\ (z1.strayed = b.strayed) /\ (z1.hot = b.hot) /\ (z1.begun = b.begun)
        /\ (z1.finished = b.finished) /\ (z1.usage = (b.usage \/ b.finished)) /\ (z1.failed = b.failed) /\ (z1.bare = b.bare)
    BY <1>1, <2>3 DEF Marking, Calling, Answers
  <2>5. z1.got = b.got
    BY <2>3 DEF Marking, Calling
  <2>6. z1.got = <<>>
    BY <1>1, <1>p, <2>5 DEF none
  <2>7. Advancing(up, z1, f, src)
    BY <1>1, <1>3, <1>4, <2>4 DEF Advancing
  <2>8. Standing(up, z1, f, src)
    BY <1>1, <1>2, <1>3, <1>4, <2>3, <2>4, <2>7 DEF Standing
  <2>9. z1 = Take(b, e1)
    BY DEF z1, e1
  <2>10. Heard(up, b, [fields |-> f, events |-> <<e1>>], src, <<>>)
    BY <2>2, <2>a, <2>6, <2>8, <2>9, HeardOne
  <2> QED  BY <2>1, <2>10 DEF e1
<1> QED  BY <1>5 DEF src, up, f

LEMMA ChatDone ==
  ASSUME NEW b, NEW d, NEW s, Hears("chat", b, d, s), s.phase \in {"finished", "ended"}
  PROVE  Heard("chat", b, DecodeChat(d, [type |-> "done", what |-> "done", role |-> FALSE, finish |-> FALSE, usage |-> FALSE]), [s EXCEPT !.phase = "done"], <<>>)
<1> DEFINE up == "chat"
           src == [s EXCEPT !.phase = "done"]
           f == d
           none == <<>>
<1>1. /\ b \in Answers /\ b.legal /\ ~b.failed /\ b.got = none /\ Standing(up, b, d, s) /\ Advancing(up, b, d, s)
      /\ Settled(b) /\ s \in Sources /\ d \in Decoders /\ s.phase # "failed"
  BY DEF Hears, Standing
<1>2. src \in Sources /\ f \in Decoders
  BY <1>1 DEF Sources, Decoders, Phases, Opened
<1>3. /\ src.phase = "done" /\ src.open = s.open /\ src.calls = s.calls /\ src.usage = s.usage /\ src.cut = s.cut /\ src.blocked = s.blocked /\ src.bare = s.bare /\ src.interleaved = s.interleaved
      /\ f.tool = d.tool /\ f.usage = d.usage
  BY <1>1 DEF Sources, Decoders
<1>4. /\ b.told = s.calls /\ s.calls \in Nat /\ b.told \in Nat /\ b.got \in Seq(Pairs)
      /\ (b.strayed => s.interleaved) /\ (b.bare => s.bare)
      /\ (up = "responses" => s.open \in {"none", "message", "reasoning", "call"})
      /\ b.finished = (s.phase \in {"finished", "ended", "done"})
      /\ (s.phase = "body" => b.begun)
  BY <1>1 DEF Standing, Advancing, Sources, Decoders, Answers
<1>p. \A y : Append(none, y) = <<y>>
  OBVIOUS
<1> HIDE DEF none, src, f
<1>5. Heard(up, b, DecodeChat(d, [type |-> "done", what |-> "done", role |-> FALSE, finish |-> FALSE, usage |-> FALSE]), src, <<>>)
  <2>1. DecodeChat(d, [type |-> "done", what |-> "done", role |-> FALSE, finish |-> FALSE, usage |-> FALSE]) = [fields |-> f, events |-> <<Event("done")>>]
    <3> DEFINE e == [type |-> "done", what |-> "done", role |-> FALSE, finish |-> FALSE, usage |-> FALSE]
    <3>1. e.role = FALSE /\ e.what = "done" /\ e.finish = FALSE /\ e.usage = FALSE
      BY DEF ChatChunk
    <3>b. e.role \in BOOLEAN /\ e.finish \in BOOLEAN /\ e.usage \in BOOLEAN
      BY DEF ChatChunk
    <3> HIDE DEF e
    <3>2. DecodeChat(d, e) = [fields |-> d, events |-> <<Event("done")>>]
      <4>1. ChatTook(d, e)
        BY <3>b, ChatTakes
      <4> QED  BY <3>1, <4>1 DEF ChatTook
    <3> QED  BY <3>2 DEF e, f
  <2> DEFINE e1 == Event("done")
             z1 == Take(b, Event("done"))
  <2>2. /\ e1 \in Occurrences /\ e1.kind = "done"
    BY <1>4, Said DEF Kinds, Contents
  <2>a. Fit(up, e1)
    BY <2>2 DEF Fit, Contents
  <2> HIDE DEF e1
  <2>3. /\ z1 \in Answers /\ z1.legal /\ Marking(b, z1, b.begun, b.finished, b.usage, TRUE, b.failed, b.bare) /\ z1.hot = b.hot
    BY <1>1, <1>3, <1>4, TakesDone DEF Takes
  <2> HIDE DEF z1
  <2>4. /\ z1.told = b.told /\ (z1.strayed = b.strayed) /\ (z1.hot = b.hot) /\ (z1.begun = b.begun)
        /\ (z1.finished = b.finished) /\ (z1.usage = b.usage) /\ (z1.failed = b.failed) /\ (z1.bare = b.bare)
    BY <1>1, <2>3 DEF Marking, Calling, Answers
  <2>5. z1.got = b.got
    BY <2>3 DEF Marking, Calling
  <2>6. z1.got = <<>>
    BY <1>1, <1>p, <2>5 DEF none
  <2>7. Advancing(up, z1, f, src)
    BY <1>1, <1>3, <1>4, <2>4 DEF Advancing
  <2>8. Standing(up, z1, f, src)
    BY <1>1, <1>2, <1>3, <1>4, <2>3, <2>4, <2>7 DEF Standing
  <2>9. z1 = Take(b, e1)
    BY DEF z1, e1
  <2>10. Heard(up, b, [fields |-> f, events |-> <<e1>>], src, <<>>)
    BY <2>2, <2>a, <2>6, <2>8, <2>9, HeardOne DEF e1
  <2> QED  BY <2>1, <2>10 DEF e1
<1> QED  BY <1>5 DEF src, up, f

(* -- Gemini -- *)

\* More of a sequence, piece by piece.
LEMMA Longer ==
  ASSUME NEW S, NEW s \in Seq(S), NEW x \in S, NEW y \in S, NEW z \in S
  PROVE  /\ s \o <<>> = s /\ s \o <<x>> = Append(s, x) /\ s \o <<x, y>> = Append(Append(s, x), y)
         /\ s \o <<x, y, z>> = Append(Append(Append(s, x), y), z)
<1> DEFINE none == <<>>
           u == <<x>>
           v == <<x, y>>
           w == <<x, y, z>>
<1>1. none \in Seq(S) /\ u \in Seq(S) /\ v \in Seq(S) /\ w \in Seq(S)
  OBVIOUS
<1>2. u = Append(none, x) /\ v = Append(u, y) /\ w = Append(v, z)
  OBVIOUS
<1>3. \A p \in Seq(S) : p \o none = p /\ \A q \in Seq(S), e \in S : p \o Append(q, e) = Append(p \o q, e) /\ p \o q \in Seq(S)
  OBVIOUS
<1> HIDE DEF none, u, v, w
<1>4. s \o none = s /\ s \o u = Append(s, x)
  BY <1>1, <1>2, <1>3
<1>5. s \o v = Append(Append(s, x), y)
  BY <1>1, <1>2, <1>3, <1>4
<1>6. s \o w = Append(Append(Append(s, x), y), z)
  BY <1>1, <1>2, <1>3, <1>5
<1> QED  BY <1>4, <1>5, <1>6 DEF none, u, v, w

\* How many pieces of a kind.
Count(pieces, what) == Len(Pieces(pieces, {what}))

LEMMA CountAppend ==
  ASSUME NEW s \in Seq(Pairs), NEW p \in Pairs, NEW what
  PROVE  /\ Count(s, what) \in Nat
         /\ Count(Append(s, p), what) = IF p[1] = what THEN Count(s, what) + 1 ELSE Count(s, what)
<1> DEFINE kept == Pieces(s, {what})
<1>1. kept \in Seq(Pairs)
  BY PiecesSeq
<1>2. Pieces(Append(s, p), {what}) = IF p[1] \in {what} THEN Append(kept, p) ELSE kept
  BY PiecesAppend
<1>3. Len(kept) \in Nat /\ Len(Append(kept, p)) = Len(kept) + 1
  BY <1>1
<1> HIDE DEF kept
<1> QED  BY <1>2, <1>3 DEF Count, kept

\* Where the answer is, some parts on, when it was at b before them.
Still(b, z, told, pieces) ==
  /\ z \in Answers /\ z.legal /\ z.told = told /\ z.got = pieces
  /\ (z.begun <=> b.begun) /\ (z.finished <=> b.finished) /\ (z.usage <=> b.usage) /\ (z.failed <=> b.failed)
  /\ (z.bare <=> b.bare) /\ (z.strayed <=> b.strayed)
Plain(e) == e.kind # "done" /\ Fit("gemini", e)
Fares(b, events, told, pieces) ==
  /\ events \in Seq(Occurrences) /\ \A i \in 1..Len(events) : Plain(events[i])
  /\ told \in Nat /\ pieces \in Seq(Pairs)
  /\ Still(b, Took(b, events), told, pieces)
Talking(b) == b \in Answers /\ b.begun /\ ~b.finished /\ ~b.failed

LEMMA FaresNone ==
  ASSUME NEW b \in Answers, b.legal, b.got = <<>>
  PROVE  Fares(b, <<>>, b.told, <<>>)
<1> DEFINE none == <<>>
<1>1. none \in Seq(Occurrences) /\ none \in Seq(Pairs) /\ \A i \in 1..Len(none) : Plain(none[i])
  OBVIOUS
<1>2. Took(b, none) = b /\ b.told \in Nat /\ b.got = none
  BY TookNone DEF Answers
<1> HIDE DEF none
<1>3. Fares(b, none, b.told, none)
  BY <1>1, <1>2 DEF Fares, Still
<1> QED  BY <1>3 DEF none

LEMMA PlainAppend ==
  ASSUME NEW s \in Seq(Occurrences), NEW e \in Occurrences, \A i \in 1..Len(s) : Plain(s[i]), Plain(e)
  PROVE  Append(s, e) \in Seq(Occurrences) /\ \A i \in 1..Len(Append(s, e)) : Plain(Append(s, e)[i])
<1> DEFINE t == Append(s, e)
<1>1. t \in Seq(Occurrences) /\ Len(t) = Len(s) + 1 /\ t[Len(s) + 1] = e /\ Len(s) \in Nat
  OBVIOUS
<1>2. \A i \in 1..Len(s) : t[i] = s[i]
  OBVIOUS
<1> HIDE DEF t
<1>3. \A i \in 1..Len(t) : i \in 1..Len(s) \/ i = Len(s) + 1
  BY <1>1
<1>4. t \in Seq(Occurrences) /\ \A i \in 1..Len(t) : Plain(t[i])
  BY <1>1, <1>2, <1>3
<1> QED  BY <1>4 DEF t

LEMMA FaresSays ==
  ASSUME NEW b, Talking(b), NEW events, NEW told, NEW pieces, Fares(b, events, told, pieces), NEW what \in Contents
  PROVE  Fares(b, Append(events, Event(what)), told, Append(pieces, <<what, 0>>))
<1> DEFINE e == Event(what)
           p == <<what, 0>>
           z == Took(b, events)
           y == Take(z, e)
           more == Append(events, e)
           got == Append(pieces, p)
<1>1. /\ events \in Seq(Occurrences) /\ (\A i \in 1..Len(events) : Plain(events[i]))
      /\ told \in Nat /\ pieces \in Seq(Pairs) /\ Still(b, z, told, pieces)
  BY DEF Fares
<1>2. e \in Occurrences /\ e.kind = what /\ Plain(e) /\ p \in Pairs
  BY Said DEF Kinds, Contents, Plain, Fit, Pairs, Words
<1>3. more \in Seq(Occurrences) /\ \A i \in 1..Len(more) : Plain(more[i])
  BY <1>1, <1>2, PlainAppend
<1>4. Took(b, more) = y
  BY <1>1, <1>2, TookAppend
<1>5. got \in Seq(Pairs)
  BY <1>1, <1>2
<1> HIDE DEF z
<1>6. z \in Answers /\ z.legal /\ ~z.failed /\ z.begun /\ ~z.finished
  BY <1>1 DEF Still, Talking
<1>7. Takes(z, e, y) /\ Calling(z, y, z.told, Append(z.got, <<what, 0>>), FALSE, z.strayed)
  BY <1>6, TakesContent
<1> HIDE DEF y, e, p
<1>8. y.got = got /\ y.told = told
  BY <1>1, <1>7 DEF Calling, Still, p
<1> HIDE DEF more, got
<1>9. Still(b, y, told, got)
  BY <1>1, <1>7, <1>8 DEF Still, Takes, Calling
<1>10. Fares(b, more, told, got)
  BY <1>1, <1>3, <1>4, <1>5, <1>9 DEF Fares
<1> QED  BY <1>10 DEF more, got, e, p

LEMMA FaresCall ==
  ASSUME NEW b, Talking(b), NEW events, NEW n, NEW pieces, Fares(b, events, n, pieces)
  PROVE  Fares(b, Append(Append(Append(events, ToolEvent("toolstart", n)), ToolEvent("toolargs", n)), ToolEvent("toolstop", n)),
               n + 1, Append(Append(pieces, <<"call", n>>), <<"args", n>>))
<1> DEFINE e1 == ToolEvent("toolstart", n)
           e2 == ToolEvent("toolargs", n)
           e3 == ToolEvent("toolstop", n)
           p1 == <<"call", n>>
           p2 == <<"args", n>>
           z == Took(b, events)
           y1 == Take(z, e1)
           y2 == Take(y1, e2)
           y3 == Take(y2, e3)
           m1 == Append(events, e1)
           m2 == Append(m1, e2)
           m3 == Append(m2, e3)
           g1 == Append(pieces, p1)
           g2 == Append(g1, p2)
           k == n + 1
<1>1. /\ events \in Seq(Occurrences) /\ (\A i \in 1..Len(events) : Plain(events[i]))
      /\ n \in Nat /\ pieces \in Seq(Pairs) /\ Still(b, z, n, pieces)
  BY DEF Fares
<1>2. /\ e1 \in Occurrences /\ e1.kind = "toolstart" /\ e2 \in Occurrences /\ e2.kind = "toolargs"
      /\ e3 \in Occurrences /\ e3.kind = "toolstop"
  BY <1>1, Said DEF Kinds
<1>3. Plain(e1) /\ Plain(e2) /\ Plain(e3)
  BY <1>2 DEF Plain, Fit
<1>4. p1 \in Pairs /\ p2 \in Pairs
  BY <1>1 DEF Pairs, Words
<1>5. g1 \in Seq(Pairs) /\ k \in Nat
  BY <1>1, <1>4
<1>6. g2 \in Seq(Pairs)
  BY <1>4, <1>5
<1> HIDE DEF e1, e2, e3
<1>7. m1 \in Seq(Occurrences) /\ \A i \in 1..Len(m1) : Plain(m1[i])
  BY <1>1, <1>2, <1>3, PlainAppend
<1>8. Took(b, m1) = y1
  BY <1>1, <1>2, TookAppend
<1> HIDE DEF m1
<1>9. m2 \in Seq(Occurrences) /\ \A i \in 1..Len(m2) : Plain(m2[i])
  BY <1>7, <1>2, <1>3, PlainAppend
<1>10. Took(b, m2) = y2
  BY <1>7, <1>8, <1>2, TookAppend
<1> HIDE DEF m2
<1>11. m3 \in Seq(Occurrences) /\ \A i \in 1..Len(m3) : Plain(m3[i])
  BY <1>9, <1>2, <1>3, PlainAppend
<1>12. Took(b, m3) = y3
  BY <1>9, <1>10, <1>2, TookAppend
<1> HIDE DEF m3, z
<1>13. z \in Answers /\ z.legal /\ ~z.failed /\ z.begun /\ ~z.finished /\ z.told = n /\ z.got = pieces
  BY <1>1 DEF Still, Talking
<1>14. Takes(z, e1, y1) /\ Calling(z, y1, n + 1, Append(pieces, <<"call", n>>), TRUE, z.strayed)
  BY <1>13, TakesTool DEF e1
<1> HIDE DEF y1
<1>15. y1 \in Answers /\ y1.legal /\ ~y1.failed /\ y1.begun /\ ~y1.finished /\ y1.told = k /\ y1.got = g1 /\ y1.hot /\ y1.strayed = z.strayed
  BY <1>13, <1>14 DEF Takes, Calling, Answers
<1>16. n < y1.told /\ n + 1 = y1.told
  BY <1>1, <1>15
<1> HIDE DEF g1
<1>17. Takes(y1, e2, y2) /\ Calling(y1, y2, y1.told, Append(y1.got, <<"args", n>>), y1.hot, y1.strayed \/ ~(y1.hot /\ n + 1 = y1.told))
  BY <1>1, <1>15, <1>16, TakesArguments DEF e2
<1> HIDE DEF y2
<1>18. y2 \in Answers /\ y2.legal /\ ~y2.failed /\ y2.told = k /\ y2.got = g2 /\ y2.strayed = z.strayed
  BY <1>13, <1>15, <1>16, <1>17 DEF Takes, Calling, Answers
<1>19. Takes(y2, e3, y3) /\ Marking(y2, y3, y2.begun, y2.finished, y2.usage, y2.done, y2.failed, y2.bare)
  BY <1>1, <1>18, TakesToolStop DEF e3
<1> HIDE DEF y3, g2, k
<1>20. y3.told = k /\ y3.got = g2 /\ y3 \in Answers /\ y3.legal
  BY <1>18, <1>19 DEF Takes, Marking
<1>21. Still(b, y3, k, g2)
  <2>1. (y1.usage <=> z.usage) /\ (y1.bare <=> z.bare) /\ (y1.begun <=> z.begun) /\ (y1.finished <=> z.finished) /\ (y1.failed <=> z.failed)
    BY <1>14 DEF Calling
  <2>2. (y2.usage <=> z.usage) /\ (y2.bare <=> z.bare) /\ (y2.begun <=> z.begun) /\ (y2.finished <=> z.finished) /\ (y2.failed <=> z.failed)
    BY <2>1, <1>17 DEF Calling
  <2>3. (y3.usage <=> z.usage) /\ (y3.bare <=> z.bare) /\ (y3.begun <=> z.begun) /\ (y3.finished <=> z.finished) /\ (y3.failed <=> z.failed)
        /\ (y3.strayed <=> z.strayed)
    BY <2>2, <1>18, <1>19 DEF Marking
  <2> QED  BY <1>1, <1>20, <2>3 DEF Still
<1>22. Fares(b, m3, k, g2)
  BY <1>5, <1>6, <1>11, <1>12, <1>21 DEF Fares, k
<1> QED  BY <1>22 DEF m3, m2, m1, g2, g1, k, e1, e2, e3, p1, p2

\* What a signature adds.
Marked(s, t, x, signed) == (signed => t = Append(s, x)) /\ (~signed => t = s)

LEMMA ConcatSigned ==
  ASSUME NEW S, NEW s \in Seq(S), NEW x \in S, NEW p
  PROVE  Marked(s, s \o If(p.signed, <<x>>), x, p.signed)
<1>1. s \o <<>> = s /\ s \o <<x>> = Append(s, x)
  BY Longer
<1>2. ASSUME p.signed PROVE s \o If(p.signed, <<x>>) = Append(s, x)
  BY <1>1, <1>2 DEF If
<1>3. ASSUME ~p.signed PROVE s \o If(p.signed, <<x>>) = s
  BY <1>1, <1>3 DEF If
<1> QED  BY <1>2, <1>3 DEF Marked

Events(n, events) == [tool |-> n, events |-> events]
Sent(n, pieces) == [calls |-> n, pieces |-> pieces]

\* A part of a chunk goes the same way in the provider's account and in the decoder's.
Parted(b, x, y) == Fares(b, x.events, x.tool, y.pieces) /\ y.calls = x.tool
Counting(y, w, p) == \A what \in TextKinds : Count(w.pieces, what) = IF p.what = what THEN Count(y.pieces, what) + 1 ELSE Count(y.pieces, what)

LEMMA PartSays ==
  ASSUME NEW b, Talking(b), NEW x, NEW y, Parted(b, x, y), NEW p \in GeminiParts, p.what # "call"
  PROVE  Parted(b, DecodePart(x, p), PieceOf(y, p)) /\ Counting(y, PieceOf(y, p), p)
<1> DEFINE e == Event(p.what)
           g == <<p.what, 0>>
           es == Event("signature")
           gs == <<"signature", 0>>
           n == x.tool
           e1 == Append(x.events, e)
           g1 == Append(y.pieces, g)
           e2 == e1 \o If(p.signed, <<es>>)
           g2 == g1 \o If(p.signed, <<gs>>)
<1>1. /\ Fares(b, x.events, n, y.pieces) /\ y.calls = n /\ x.events \in Seq(Occurrences) /\ y.pieces \in Seq(Pairs)
      /\ p.what \in Contents /\ p.what \in TextKinds /\ p.signed \in BOOLEAN
  BY DEF Parted, Fares, GeminiParts, Contents, TextKinds
<1>2. e \in Occurrences /\ es \in Occurrences /\ g \in Pairs /\ gs \in Pairs /\ "signature" \in Contents /\ gs[1] = "signature" /\ g[1] = p.what
  BY <1>1, Said DEF Kinds, Contents, Pairs, Words
<1>3. Fares(b, e1, n, g1)
  BY <1>1, FaresSays
<1>4. e1 \in Seq(Occurrences) /\ g1 \in Seq(Pairs)
  BY <1>3 DEF Fares
<1>5. Fares(b, Append(e1, es), n, Append(g1, gs))
  BY <1>2, <1>3, FaresSays
<1>6. x.events \o <<e>> = e1 /\ y.pieces \o <<g>> = g1
  BY <1>1, <1>2, Longer
<1>7. DecodePart(x, p).tool = n /\ DecodePart(x, p).events = e2 /\ PieceOf(y, p).calls = n /\ PieceOf(y, p).pieces = g2
  <2>1. DecodePart(x, p) = [x EXCEPT !.events = (x.events \o <<e>>) \o If(p.signed, <<es>>)]
    BY DEF DecodePart
  <2>2. PieceOf(y, p) = [y EXCEPT !.pieces = (y.pieces \o <<g>>) \o If(p.signed, <<gs>>)]
    BY DEF PieceOf
  <2> HIDE DEF e1, g1, e, g, es, gs
  <2>3. DecodePart(x, p) = [x EXCEPT !.events = e2] /\ PieceOf(y, p) = [y EXCEPT !.pieces = g2]
    BY <1>6, <2>1, <2>2
  <2> QED  BY <1>1, <2>3
<1> HIDE DEF e, g, es, gs
<1>8. (p.signed => e2 = Append(e1, es) /\ g2 = Append(g1, gs)) /\ (~p.signed => e2 = e1 /\ g2 = g1)
  <2> HIDE DEF e1, g1
  <2>1. Marked(e1, e2, es, p.signed)
    BY <1>2, <1>4, ConcatSigned
  <2>2. Marked(g1, g2, gs, p.signed)
    BY <1>2, <1>4, ConcatSigned
  <2> QED  BY <2>1, <2>2 DEF Marked
<1> HIDE DEF e2, g2
<1>9. Fares(b, e2, n, g2)
  BY <1>3, <1>5, <1>8
<1>10. \A what \in TextKinds : Count(g2, what) = IF p.what = what THEN Count(y.pieces, what) + 1 ELSE Count(y.pieces, what)
  <2> SUFFICES ASSUME NEW what \in TextKinds
               PROVE  Count(g2, what) = IF p.what = what THEN Count(y.pieces, what) + 1 ELSE Count(y.pieces, what)
    OBVIOUS
  <2>1. Count(g1, what) = IF p.what = what THEN Count(y.pieces, what) + 1 ELSE Count(y.pieces, what)
    BY <1>1, <1>2, CountAppend
  <2>2. Count(Append(g1, gs), what) = Count(g1, what)
    BY <1>2, <1>4, CountAppend DEF TextKinds
  <2> QED  BY <1>8, <2>1, <2>2
<1> QED  BY <1>1, <1>7, <1>9, <1>10 DEF Parted, Counting

LEMMA PartCalls ==
  ASSUME NEW b, Talking(b), NEW x, NEW y, Parted(b, x, y), NEW p \in GeminiParts, p.what = "call"
  PROVE  Parted(b, DecodePart(x, p), PieceOf(y, p)) /\ Counting(y, PieceOf(y, p), p)
<1> DEFINE n == x.tool
           e1 == ToolEvent("toolstart", n)
           e2 == ToolEvent("toolargs", n)
           e3 == ToolEvent("toolstop", n)
           g1 == <<"call", n>>
           g2 == <<"args", n>>
           es == Event("signature")
           gs == <<"signature", 0>>
           ev == x.events \o If(p.signed, <<es>>)
           pc == y.pieces \o If(p.signed, <<gs>>)
           k == n + 1
           ev3 == Append(Append(Append(ev, e1), e2), e3)
           pc2 == Append(Append(pc, g1), g2)
<1>1. /\ Fares(b, x.events, n, y.pieces) /\ y.calls = n /\ x.events \in Seq(Occurrences) /\ y.pieces \in Seq(Pairs)
      /\ n \in Nat /\ p.signed \in BOOLEAN
  BY DEF Parted, Fares, GeminiParts
<1>2. es \in Occurrences /\ gs \in Pairs /\ "signature" \in Contents /\ gs[1] = "signature"
  BY Said DEF Kinds, Contents, Pairs, Words
<1>3. e1 \in Occurrences /\ e2 \in Occurrences /\ e3 \in Occurrences
  BY <1>1, Said DEF Kinds
<1>4. g1 \in Pairs /\ g2 \in Pairs /\ g1[1] = "call" /\ g2[1] = "args"
  BY <1>1 DEF Pairs, Words
<1>5. Fares(b, Append(x.events, es), n, Append(y.pieces, gs))
  BY <1>1, <1>2, FaresSays
<1>6. /\ (p.signed => ev = Append(x.events, es) /\ pc = Append(y.pieces, gs))
      /\ (~p.signed => ev = x.events /\ pc = y.pieces)
  <2> HIDE DEF es, gs, n
  <2>1. Marked(x.events, ev, es, p.signed)
    BY <1>1, <1>2, ConcatSigned
  <2>2. Marked(y.pieces, pc, gs, p.signed)
    BY <1>1, <1>2, ConcatSigned
  <2> QED  BY <2>1, <2>2 DEF Marked
<1>7. DecodePart(x, p) = [tool |-> n + 1, events |-> ev \o <<e1, e2, e3>>] /\ PieceOf(y, p) = [calls |-> y.calls + 1, pieces |-> pc \o <<<<"call", y.calls>>, <<"args", y.calls>>>>]
  BY DEF DecodePart, PieceOf
<1> HIDE DEF ev, pc
<1>8. Fares(b, ev, n, pc)
  BY <1>1, <1>5, <1>6
<1>x. ev \in Seq(Occurrences) /\ pc \in Seq(Pairs)
  BY <1>8 DEF Fares
<1>9. Fares(b, ev3, k, pc2)
  BY <1>8, FaresCall
<1>10. ev \o <<e1, e2, e3>> = ev3 /\ pc \o <<g1, g2>> = pc2
  <2> HIDE DEF e1, e2, e3, g1, g2
  <2>1. ev \o <<e1, e2, e3>> = ev3
    BY <1>3, <1>x, Longer
  <2>2. pc \o <<g1, g2>> = pc2
    BY <1>4, <1>x, Longer
  <2> QED  BY <2>1, <2>2
<1>11. \A what \in TextKinds : Count(pc2, what) = Count(y.pieces, what)
  <2> SUFFICES ASSUME NEW what \in TextKinds PROVE Count(pc2, what) = Count(y.pieces, what)
    OBVIOUS
  <2> DEFINE pc1 == Append(pc, g1)
  <2> HIDE DEF g1, g2, gs
  <2>1. pc1 \in Seq(Pairs)
    BY <1>4, <1>x
  <2>2. Count(Append(y.pieces, gs), what) = Count(y.pieces, what)
    BY <1>1, <1>2, CountAppend DEF TextKinds
  <2>3. Count(pc1, what) = Count(pc, what)
    BY <1>4, <1>x, CountAppend DEF TextKinds
  <2> HIDE DEF pc1
  <2>4. Count(Append(pc1, g2), what) = Count(pc1, what)
    BY <1>4, <2>1, CountAppend DEF TextKinds
  <2> QED  BY <1>6, <2>2, <2>3, <2>4 DEF pc1
<1>12. DecodePart(x, p).tool = k /\ DecodePart(x, p).events = ev3 /\ PieceOf(y, p).calls = k /\ PieceOf(y, p).pieces = pc2
  <2> HIDE DEF ev3, pc2, e1, e2, e3
  <2>1. DecodePart(x, p) = [tool |-> k, events |-> ev3]
    BY <1>7, <1>10
  <2>2. PieceOf(y, p) = [calls |-> k, pieces |-> pc2]
    BY <1>1, <1>7, <1>10
  <2> QED  BY <2>1, <2>2
<1> HIDE DEF ev3, pc2, k
<1>13. Parted(b, DecodePart(x, p), PieceOf(y, p))
  BY <1>9, <1>12 DEF Parted
<1>14. Counting(y, PieceOf(y, p), p)
  BY <1>11, <1>12 DEF Counting, TextKinds
<1> QED  BY <1>13, <1>14

\* The events b takes, none of which is [DONE], bring it to z.
Carried(b, events, z) ==
  /\ events \in Seq(Occurrences) /\ \A i \in 1..Len(events) : Plain(events[i])
  /\ Took(b, events) = z

LEMMA CarriedMore ==
  ASSUME NEW b, NEW ev, NEW z, Carried(b, ev, z), NEW e \in Occurrences, Plain(e)
  PROVE  Carried(b, Append(ev, e), Take(z, e))
<1>1. ev \in Seq(Occurrences) /\ Took(b, ev) = z /\ \A i \in 1..Len(ev) : Plain(ev[i])
  BY DEF Carried
<1>2. Append(ev, e) \in Seq(Occurrences) /\ \A i \in 1..Len(Append(ev, e)) : Plain(Append(ev, e)[i])
  BY <1>1, PlainAppend
<1>3. Took(b, Append(ev, e)) = Take(z, e)
  BY <1>1, TookAppend
<1> DEFINE more == Append(ev, e)
           y == Take(z, e)
<1>4. more \in Seq(Occurrences) /\ Took(b, more) = y /\ \A i \in 1..Len(more) : Plain(more[i])
  BY <1>2, <1>3
<1> HIDE DEF more, y
<1>5. Carried(b, more, y)
  BY <1>4 DEF Carried
<1> QED  BY <1>5 DEF more, y

LEMMA CarriedOn ==
  ASSUME NEW a, NEW ev, NEW b, Carried(a, ev, b), NEW on, NEW z, Carried(b, on, z)
  PROVE  Carried(a, ev \o on, z)
<1> DEFINE t == ev \o on
<1>1. /\ ev \in Seq(Occurrences) /\ Took(a, ev) = b /\ (\A i \in 1..Len(ev) : Plain(ev[i]))
      /\ on \in Seq(Occurrences) /\ Took(b, on) = z /\ (\A i \in 1..Len(on) : Plain(on[i]))
  BY DEF Carried
<1>2. Took(a, t) = z
  BY <1>1, TookOn
<1>3. t \in Seq(Occurrences) /\ Len(t) = Len(ev) + Len(on) /\ Len(ev) \in Nat /\ Len(on) \in Nat
  BY <1>1
<1>4. \A i \in 1..Len(ev) : t[i] = ev[i]
  BY <1>1
<1>5. \A i \in 1..Len(on) : t[i + Len(ev)] = on[i]
  BY <1>1
<1> HIDE DEF t
<1>6. \A i \in 1..Len(t) : Plain(t[i])
  <2> SUFFICES ASSUME NEW i \in 1..Len(t) PROVE Plain(t[i])
    OBVIOUS
  <2>1. CASE i <= Len(ev)
    BY <1>1, <1>3, <1>4, <2>1
  <2>2. CASE i > Len(ev)
    <3> DEFINE j == i - Len(ev)
    <3>1. j \in 1..Len(on) /\ j + Len(ev) = i
      BY <1>3, <2>2
    <3> HIDE DEF j
    <3> QED  BY <1>1, <1>5, <3>1
  <2> QED  BY <1>3, <2>1, <2>2
<1>7. Carried(a, t, z)
  BY <1>2, <1>3, <1>6 DEF Carried
<1> QED  BY <1>7 DEF t

LEMMA CarriedProper ==
  ASSUME NEW b, NEW ev, NEW z, Carried(b, ev, z)
  PROVE  Proper("gemini", ev) /\ Took(b, ev) = z
  BY DEF Carried, Proper, Plain

\* The parts of a Gemini chunk, one after the other.
LEMMA PartsRun ==
  ASSUME NEW b, Talking(b), b.legal, b.got = <<>>, NEW parts \in SeqOf(GeminiParts, 2), NEW n, n = b.told
  PROVE  /\ Parted(b, FoldLeft(DecodePart, Events(n, <<>>), parts), FoldLeft(PieceOf, Sent(n, <<>>), parts))
         /\ ~Doubled(parts) => Single(FoldLeft(PieceOf, Sent(n, <<>>), parts).pieces)
<1> DEFINE x0 == Events(n, <<>>)
           y0 == Sent(n, <<>>)
           x == FoldLeft(DecodePart, x0, parts)
           y == FoldLeft(PieceOf, y0, parts)
           hx == By("part")
           hy == By("piece")
           none == <<>>
<1>0. PICK m \in 0..2 : parts \in [1..m -> GeminiParts]
  BY DEF SeqOf
<1>1. parts \in Seq(GeminiParts)
  BY <1>0
<1>2. Len(parts) = 0 \/ Len(parts) = 1 \/ Len(parts) = 2
  BY <1>0
<1>3. x = Folded(hx, x0, parts) /\ y = Folded(hy, y0, parts)
  BY <1>1, FoldDecodePart, FoldPieceOf
<1>7. x0.tool = n /\ x0.events = none /\ y0.calls = n /\ y0.pieces = none
  BY DEF Events, Sent
<1>s. \A u, v : StepOf(hx, u, v) = DecodePart(u, v) /\ StepOf(hy, u, v) = PieceOf(u, v)
  BY DEF StepOf, By
<1> HIDE DEF x0, y0, x, y, hx, hy
<1>g. \A how, base :
        \E run : /\ run[0] = base /\ run[Len(parts)] = Folded(how, base, parts)
                /\ \A k \in 1..Len(parts) : run[k] = StepOf(how, run[k - 1], parts[k])
  BY <1>1, FoldedGoes
<1>4. PICK p : /\ p[0] = x0 /\ p[Len(parts)] = Folded(hx, x0, parts)
               /\ \A k \in 1..Len(parts) : p[k] = StepOf(hx, p[k - 1], parts[k])
  BY <1>g
<1>5. PICK q : /\ q[0] = y0 /\ q[Len(parts)] = Folded(hy, y0, parts)
               /\ \A k \in 1..Len(parts) : q[k] = StepOf(hy, q[k - 1], parts[k])
  BY <1>g
<1>6. \A k \in 1..Len(parts) : p[k] = DecodePart(p[k - 1], parts[k]) /\ q[k] = PieceOf(q[k - 1], parts[k]) /\ parts[k] \in GeminiParts
  BY <1>1, <1>4, <1>5, <1>s
<1>8. \A what : Count(none, what) = 0
  <2> SUFFICES ASSUME NEW what PROVE Count(none, what) = 0
    OBVIOUS
  <2>1. Pieces(none, {what}) = none
    BY PiecesNone
  <2>2. Len(none) = 0
    OBVIOUS
  <2> HIDE DEF none
  <2> QED  BY <2>1, <2>2 DEF Count
<1>9. Fares(b, none, n, none)
  <2>1. b \in Answers
    BY DEF Talking
  <2> QED  BY <2>1, FaresNone
<1> HIDE DEF none
<1>10. Parted(b, p[0], q[0])
  BY <1>4, <1>5, <1>7, <1>9 DEF Parted
<1>11. ASSUME NEW k \in 1..Len(parts), Parted(b, p[k - 1], q[k - 1])
       PROVE  Parted(b, p[k], q[k]) /\ Counting(q[k - 1], q[k], parts[k])
  <2> DEFINE part == parts[k]
             u == p[k - 1]
             v == q[k - 1]
  <2>1. p[k] = DecodePart(u, part) /\ q[k] = PieceOf(v, part) /\ part \in GeminiParts /\ Parted(b, u, v)
    BY <1>6, <1>11
  <2> HIDE DEF part, u, v
  <2>2. CASE part.what = "call"
    BY <2>1, <2>2, PartCalls DEF part, u, v
  <2>3. CASE part.what # "call"
    BY <2>1, <2>3, PartSays DEF part, u, v
  <2> QED  BY <2>2, <2>3
<1>12. \A what \in TextKinds : Count(q[0].pieces, what) = 0
  BY <1>5, <1>7, <1>8
<1>13. ASSUME NEW z, Count(z, "text") <= 1, Count(z, "refusal") <= 1, Count(z, "thinking") <= 1 PROVE Single(z)
  BY <1>13 DEF Single, Count, TextKinds
<1>14. CASE Len(parts) = 0
  <2>1. x = p[0] /\ y = q[0]
    BY <1>3, <1>4, <1>5, <1>14
  <2>2. Single(y.pieces)
    <3>1. Count(y.pieces, "text") = 0 /\ Count(y.pieces, "refusal") = 0 /\ Count(y.pieces, "thinking") = 0
      BY <1>12, <2>1 DEF TextKinds
    <3> QED  BY <1>13, <3>1
  <2> QED  BY <1>10, <2>1, <2>2 DEF x, y, x0, y0, none
<1>15. CASE Len(parts) = 1
  <2>1. x = p[1] /\ y = q[1]
    BY <1>3, <1>4, <1>5, <1>15
  <2>2. Parted(b, p[1], q[1]) /\ Counting(q[0], q[1], parts[1])
    BY <1>10, <1>11, <1>15
  <2>3. Single(y.pieces)
    <3>1. \A what \in TextKinds : Count(y.pieces, what) = 0 \/ Count(y.pieces, what) = 1
      BY <1>12, <2>1, <2>2 DEF Counting
    <3>2. \A what \in TextKinds : Count(y.pieces, what) <= 1
      BY <3>1
    <3> QED  BY <1>13, <3>2 DEF TextKinds
  <2> QED  BY <2>1, <2>2, <2>3 DEF x, y, x0, y0, none
<1>16. CASE Len(parts) = 2
  <2>1. x = p[2] /\ y = q[2]
    BY <1>3, <1>4, <1>5, <1>16
  <2>2. Parted(b, p[1], q[1]) /\ Counting(q[0], q[1], parts[1])
    BY <1>10, <1>11, <1>16
  <2>3. Parted(b, p[2], q[2]) /\ Counting(q[1], q[2], parts[2])
    BY <2>2, <1>11, <1>16
  <2>4. ~Doubled(parts) => Single(y.pieces)
    <3> SUFFICES ASSUME ~Doubled(parts) PROVE Single(y.pieces)
      OBVIOUS
    <3>1. \A what \in TextKinds : parts[1].what # what \/ parts[2].what # what
      BY <1>16 DEF Doubled, TextKinds
    <3>2. \A what \in TextKinds : Count(q[1].pieces, what) = IF parts[1].what = what THEN 1 ELSE 0
      BY <1>12, <2>2 DEF Counting
    <3>3. \A what \in TextKinds : Count(y.pieces, what) = IF parts[2].what = what THEN Count(q[1].pieces, what) + 1 ELSE Count(q[1].pieces, what)
      BY <2>1, <2>3 DEF Counting
    <3>4. \A what \in TextKinds : Count(y.pieces, what) = 0 \/ Count(y.pieces, what) = 1
      BY <3>1, <3>2, <3>3
    <3>5. \A what \in TextKinds : Count(y.pieces, what) <= 1
      BY <3>4
    <3> QED  BY <1>13, <3>5 DEF TextKinds
  <2> QED  BY <2>1, <2>3, <2>4 DEF x, y, x0, y0, none
<1> QED  BY <1>2, <1>14, <1>15, <1>16

\* What the rest of a Gemini chunk makes of the answer.
Alike(a, z) == z \in Answers /\ z.legal /\ ~z.failed /\ z.told = a.told /\ z.got = a.got /\ z.strayed = a.strayed /\ z.begun = a.begun
Stopped(a, z, e) ==
  /\ Alike(a, z) /\ z.usage = a.usage
  /\ z.finished <=> e.finish
  /\ z.bare <=> a.bare \/ (e.finish /\ ~a.begun)
Used(a, z, e) == Alike(a, z) /\ z.finished = a.finished /\ z.bare = a.bare /\ (z.usage <=> a.usage \/ (e.usage /\ a.finished))

LEMMA ChunkStops ==
  ASSUME NEW b, NEW ev, NEW a, Carried(b, ev, a), a \in Answers, a.legal, ~a.failed, ~a.finished, NEW e
  PROVE  \E z : Carried(b, ev \o If(e.finish, <<StopEvent("stop")>>), z) /\ Stopped(a, z, e)
<1> DEFINE x == StopEvent("stop")
           t == ev \o If(e.finish, <<x>>)
<1>1. x \in Occurrences /\ Plain(x)
  BY Said DEF Plain, Fit
<1>2. ev \in Seq(Occurrences)
  BY DEF Carried
<1>3. CASE e.finish
  <2> DEFINE z == Take(a, x)
  <2>1. If(e.finish, <<x>>) = <<x>>
    BY <1>3 DEF If
  <2>2. t = Append(ev, x)
    <3> HIDE DEF x
    <3>1. ev \o <<x>> = Append(ev, x)
      BY <1>1, <1>2, Longer
    <3> QED  BY <2>1, <3>1
  <2>3. Takes(a, x, z) /\ Marking(a, z, a.begun, TRUE, a.usage, a.done, a.failed, a.bare \/ ~a.begun)
    BY TakesStop
  <2> HIDE DEF x
  <2>4. Carried(b, Append(ev, x), z)
    BY <1>1, CarriedMore
  <2> HIDE DEF z
  <2>5. Stopped(a, z, e)
    BY <1>3, <2>3 DEF Stopped, Alike, Takes, Marking, Answers
  <2> QED  BY <2>2, <2>4, <2>5 DEF t, x
<1>4. CASE ~e.finish
  <2>1. If(e.finish, <<x>>) = <<>>
    BY <1>4 DEF If
  <2>2. t = ev
    BY <1>1, <1>2, <2>1, Longer
  <2> HIDE DEF x
  <2>3. Stopped(a, a, e)
    BY <1>4 DEF Stopped, Alike, Answers
  <2> QED  BY <2>2, <2>3 DEF t, x
<1> QED  BY <1>3, <1>4

LEMMA ChunkCounts ==
  ASSUME NEW b, NEW ev, NEW a, Carried(b, ev, a), a \in Answers, a.legal, ~a.failed, NEW e
  PROVE  \E z : Carried(b, ev \o If(e.usage, <<Event("usage")>>), z) /\ Used(a, z, e)
<1> DEFINE x == Event("usage")
           t == ev \o If(e.usage, <<x>>)
<1>1. x \in Occurrences /\ Plain(x)
  BY Said DEF Plain, Fit, Kinds
<1>2. ev \in Seq(Occurrences)
  BY DEF Carried
<1>3. CASE e.usage
  <2> DEFINE z == Take(a, x)
  <2>1. If(e.usage, <<x>>) = <<x>>
    BY <1>3 DEF If
  <2>2. t = Append(ev, x)
    <3> HIDE DEF x
    <3>1. ev \o <<x>> = Append(ev, x)
      BY <1>1, <1>2, Longer
    <3> QED  BY <2>1, <3>1
  <2>3. Takes(a, x, z) /\ Marking(a, z, a.begun, a.finished, a.usage \/ a.finished, a.done, a.failed, a.bare)
    BY TakesUsage
  <2> HIDE DEF x
  <2>4. Carried(b, Append(ev, x), z)
    BY <1>1, CarriedMore
  <2> HIDE DEF z
  <2>5. Used(a, z, e)
    BY <1>3, <2>3 DEF Used, Alike, Takes, Marking, Answers
  <2> QED  BY <2>2, <2>4, <2>5 DEF t, x
<1>4. CASE ~e.usage
  <2>1. If(e.usage, <<x>>) = <<>>
    BY <1>4 DEF If
  <2>2. t = ev
    BY <1>1, <1>2, <2>1, Longer
  <2> HIDE DEF x
  <2>3. Used(a, a, e)
    BY <1>4 DEF Used, Alike, Answers
  <2> QED  BY <2>2, <2>3 DEF t, x
<1> QED  BY <1>3, <1>4

LEMMA CarriedStart ==
  ASSUME NEW b \in Answers, b.legal, ~b.failed, ~b.finished
  PROVE  \E a : /\ Carried(b, <<Event("start")>>, a) /\ Talking(a) /\ a.legal
                /\ Marking(b, a, TRUE, b.finished, b.usage, b.done, b.failed, b.bare)
<1> DEFINE x == Event("start")
           none == <<>>
           a == Take(b, x)
           t == Append(none, x)
<1>1. x \in Occurrences /\ Plain(x)
  BY Said DEF Plain, Fit, Kinds
<1>2. none \in Seq(Occurrences) /\ \A i \in 1..Len(none) : Plain(none[i])
  OBVIOUS
<1>3. Took(b, none) = b
  BY TookNone
<1>4. Takes(b, x, a) /\ Marking(b, a, TRUE, b.finished, b.usage, b.done, b.failed, b.bare)
  BY TakesStart
<1>5. t = <<x>>
  OBVIOUS
<1> HIDE DEF x, none
<1>6. Carried(b, none, b)
  BY <1>2, <1>3 DEF Carried
<1>7. Carried(b, t, a)
  BY <1>1, <1>6, CarriedMore
<1> HIDE DEF a
<1>8. Talking(a) /\ a.legal
  BY <1>4 DEF Talking, Takes, Marking
<1> QED  BY <1>4, <1>5, <1>7, <1>8 DEF x

\* Where a Gemini provider is after a chunk: none before its first candidate's.
GeminiGoes(s, parts, finish, usage, calls) ==
  [s EXCEPT !.phase = IF ~finish THEN "body" ELSE IF usage THEN "ended" ELSE "finished",
            !.calls = calls, !.usage = finish /\ usage, !.bare = s.phase = "new" /\ parts = <<>>,
            !.doubled = @ \/ Doubled(parts)]

\* The parts are taken by now: what is left is the finish and the usage.
LEMMA ChunkEnds ==
  ASSUME NEW b, NEW d, NEW s, Hears("gemini", b, d, s), s.phase \in {"new", "body"},
         NEW parts, NEW finish \in BOOLEAN, NEW usage \in BOOLEAN, parts # <<>> \/ finish,
         NEW ev, NEW a, Carried(b, ev, a), a \in Answers, a.legal,
         Marking([b EXCEPT !.told = a.told, !.got = a.got], a, parts # <<>> \/ b.begun, b.finished, b.usage, a.done, b.failed, b.bare),
         NEW none, none = <<>>
  PROVE  Heard("gemini", b,
               [fields |-> [d EXCEPT !.tool = a.told - 1],
                events |-> ((ev \o If(finish, <<StopEvent("stop")>>)) \o If(usage, <<Event("usage")>>)) \o none],
               GeminiGoes(s, parts, finish, usage, a.told), a.got)
<1> DEFINE e == [finish |-> finish, usage |-> usage]
           src == GeminiGoes(s, parts, finish, usage, a.told)
           k == a.told - 1
           f == [d EXCEPT !.tool = k]
           e1 == ev \o If(e.finish, <<StopEvent("stop")>>)
           e2 == e1 \o If(e.usage, <<Event("usage")>>)
           empty == parts = <<>>
           doubled == s.doubled \/ Doubled(parts)
<1>1. /\ b \in Answers /\ b.legal /\ ~b.failed /\ Standing("gemini", b, d, s) /\ Advancing("gemini", b, d, s)
      /\ Settled(b) /\ s \in Sources /\ d \in Decoders /\ s.phase # "failed"
  BY DEF Hears, Standing
<1>2. (b.strayed => s.interleaved) /\ ~b.finished /\ ~b.bare /\ (s.phase = "body" => b.begun) /\ a.told \in Nat /\ s.doubled \in BOOLEAN
  BY <1>1 DEF Standing, Advancing, Settled, Sources, Answers
<1>3. /\ a.strayed = b.strayed /\ (a.begun <=> ~empty \/ b.begun) /\ ~a.finished /\ (a.usage <=> b.usage) /\ ~a.failed /\ ~a.bare
  BY <1>1, <1>2 DEF Marking, Answers
<1>4. k \in Int /\ k + 1 = a.told
  BY <1>2
<1>5. e.finish = finish /\ e.usage = usage
  OBVIOUS
<1>6. doubled \in BOOLEAN /\ empty \in BOOLEAN
  BY <1>2 DEF Doubled
<1> HIDE DEF e
<1>7. PICK y : Carried(b, e1, y) /\ Stopped(a, y, e)
  BY <1>3, ChunkStops
<1> HIDE DEF e1
<1>8. PICK z : Carried(b, e2, z) /\ Used(y, z, e)
  BY <1>7, ChunkCounts DEF Stopped, Alike
<1> HIDE DEF k, empty, doubled
<1>9. /\ src \in Sources /\ src.phase = (IF ~finish THEN "body" ELSE IF usage THEN "ended" ELSE "finished") /\ src.open = s.open
      /\ src.calls = a.told /\ src.usage = (finish /\ usage) /\ src.cut = s.cut /\ src.blocked = s.blocked
      /\ src.bare = (s.phase = "new" /\ empty) /\ src.interleaved = s.interleaved
  <2>1. src = [s EXCEPT !.phase = IF ~finish THEN "body" ELSE IF usage THEN "ended" ELSE "finished",
            !.calls = a.told, !.usage = finish /\ usage, !.bare = s.phase = "new" /\ empty, !.doubled = doubled]
    BY DEF GeminiGoes, empty, doubled
  <2> HIDE DEF src
  <2>2. src \in Sources
    BY ZenonT(60), <1>1, <1>2, <1>6, <2>1 DEF Sources, Phases
  <2> QED  BY <1>1, <2>1, <2>2 DEF Sources
<1> HIDE DEF src
<1>10. f \in Decoders /\ f.tool = k /\ f.usage = d.usage
  BY <1>1, <1>4 DEF Decoders
<1> HIDE DEF f
<1>11. /\ z \in Answers /\ z.legal /\ ~z.failed /\ z.told = a.told /\ z.got = a.got /\ z.strayed = b.strayed
       /\ (z.begun <=> ~empty \/ b.begun) /\ (z.finished <=> finish) /\ (z.bare <=> finish /\ empty /\ ~b.begun)
       /\ (z.usage <=> b.usage \/ (usage /\ finish))
  BY <1>3, <1>5, <1>7, <1>8 DEF Stopped, Used, Alike
<1>12. ~empty \/ finish
  BY DEF empty
<1>13. Advancing("gemini", z, f, src)
  BY <1>2, <1>4, <1>9, <1>10, <1>11, <1>12 DEF Advancing
<1>14. Standing("gemini", z, f, src)
  BY <1>1, <1>2, <1>9, <1>10, <1>11, <1>13 DEF Standing
<1>15. Proper("gemini", e2) /\ Took(b, e2) = z
  BY <1>8, CarriedProper
<1>16. e2 \o none = e2
  <2>1. e2 \in Seq(Occurrences)
    BY <1>8 DEF Carried
  <2> QED  BY <2>1
<1> HIDE DEF e2
<1>17. Heard("gemini", b, [fields |-> f, events |-> e2 \o none], src, a.got)
  BY <1>11, <1>14, <1>15, <1>16 DEF Heard
<1>18. e2 = (ev \o If(finish, <<StopEvent("stop")>>)) \o If(usage, <<Event("usage")>>)
  BY <1>5 DEF e2, e1
<1> QED  BY <1>17, <1>18 DEF f, k, src

\* The first chunk of a Gemini stream, and each after it, until the finish.
GeminiChunk(parts, finish, usage) == [parts |-> parts, finish |-> finish, usage |-> usage, blocked |-> FALSE]

LEMMA GeminiParted ==
  ASSUME NEW b, NEW d, NEW s, Hears("gemini", b, d, s), s.phase \in {"new", "body"},
         NEW parts \in SeqOf(GeminiParts, 2), NEW finish \in BOOLEAN, NEW usage \in BOOLEAN, parts # <<>>,
         NEW sent, sent = FoldLeft(PieceOf, [calls |-> s.calls, pieces |-> <<>>], parts)
  PROVE  /\ Heard("gemini", b, DecodeGemini(d, GeminiChunk(parts, finish, usage)),
                  GeminiGoes(s, parts, finish, usage, sent.calls), sent.pieces)
         /\ sent.calls \in Nat
         /\ ~Doubled(parts) => Single(sent.pieces)
<1> DEFINE n == d.tool + 1
           x == FoldLeft(DecodePart, Events(n, <<>>), parts)
           none == <<>>
<1>1. /\ b \in Answers /\ b.legal /\ ~b.failed /\ b.got = none /\ Standing("gemini", b, d, s) /\ Advancing("gemini", b, d, s)
      /\ Settled(b) /\ s \in Sources /\ d \in Decoders /\ s.phase # "failed"
  BY DEF Hears, Standing
<1>2. n = b.told /\ n = s.calls /\ ~b.finished
  BY <1>1 DEF Standing, Advancing
<1>3. PICK a : /\ Carried(b, <<Event("start")>>, a) /\ Talking(a) /\ a.legal
               /\ Marking(b, a, TRUE, b.finished, b.usage, b.done, b.failed, b.bare)
  BY <1>1, <1>2, CarriedStart
<1>4. a.got = none /\ a.told = n
  BY <1>1, <1>2, <1>3 DEF Marking
<1>5. sent = FoldLeft(PieceOf, Sent(n, <<>>), parts)
  BY <1>2 DEF Sent
<1>6. Parted(a, x, sent) /\ (~Doubled(parts) => Single(sent.pieces))
  <2> HIDE DEF n
  <2>1. Parted(a, x, FoldLeft(PieceOf, Sent(n, <<>>), parts)) /\ (~Doubled(parts) => Single(FoldLeft(PieceOf, Sent(n, <<>>), parts).pieces))
    BY <1>3, <1>4, PartsRun
  <2> QED  BY <1>5, <2>1
<1> DEFINE z == Took(a, x.events)
           k == sent.calls
<1>7. x.events = x.events /\ Fares(a, x.events, x.tool, sent.pieces) /\ k = x.tool /\ k \in Nat
  BY <1>6 DEF Parted, Fares
<1>8. Carried(a, x.events, z) /\ Still(a, z, k, sent.pieces)
  BY <1>7 DEF Fares, Carried
<1> DEFINE ev == <<Event("start")>> \o x.events
<1>9. Carried(b, ev, z)
  BY <1>3, <1>8, CarriedOn
<1>10. z \in Answers /\ z.legal /\ z.told = k /\ z.got = sent.pieces
  BY <1>8 DEF Still
<1> DEFINE was == [b EXCEPT !.told = z.told, !.got = z.got]
<1>11. Marking(was, z, parts # none \/ b.begun, b.finished, b.usage, z.done, b.failed, b.bare)
  <2>1. was.told = z.told /\ was.got = z.got /\ was.strayed = b.strayed
    BY <1>1 DEF Answers
  <2>2. /\ z.begun /\ (z.finished <=> b.finished) /\ (z.usage <=> b.usage) /\ (z.failed <=> b.failed) /\ (z.bare <=> b.bare)
        /\ (z.strayed <=> b.strayed)
    BY <1>3, <1>8 DEF Still, Marking
  <2>3. z.strayed = b.strayed
    BY <1>1, <1>10, <2>2 DEF Answers
  <2> HIDE DEF was, z
  <2> QED  BY <2>1, <2>2, <2>3 DEF Marking
<1>12. DecodeGemini(d, GeminiChunk(parts, finish, usage))
         = [fields |-> [d EXCEPT !.tool = k - 1],
            events |-> ((ev \o If(finish, <<StopEvent("stop")>>)) \o If(usage, <<Event("usage")>>)) \o none]
  <2>1. x = FoldLeft(DecodePart, [tool |-> d.tool + 1, events |-> <<>>], parts)
    BY DEF Events
  <2> DEFINE e == GeminiChunk(parts, finish, usage)
  <2>2. e.parts = parts /\ e.finish = finish /\ e.usage = usage /\ e.blocked = FALSE
    BY DEF GeminiChunk
  <2> HIDE DEF e
  <2>3. If(e.parts # <<>>, <<Event("start")>>) = <<Event("start")>> /\ If(e.blocked, <<Event("start"), StopEvent("safety")>>) = none
    BY <2>2 DEF If
  <2>4. DecodeGemini(d, e) = [fields |-> [d EXCEPT !.tool = x.tool - 1],
          events |-> If(e.parts # <<>>, <<Event("start")>>) \o x.events \o If(e.finish, <<StopEvent("stop")>>)
                   \o If(e.usage, <<Event("usage")>>) \o If(e.blocked, <<Event("start"), StopEvent("safety")>>)]
    BY <2>1, <2>2 DEF DecodeGemini
  <2> HIDE DEF x, none
  <2>5. x.tool = k
    BY <1>7
  <2> HIDE DEF k
  <2> QED  BY <2>2, <2>3, <2>4, <2>5 DEF e
<1> HIDE DEF z, ev, k
<1>13. Heard("gemini", b,
               [fields |-> [d EXCEPT !.tool = z.told - 1],
                events |-> ((ev \o If(finish, <<StopEvent("stop")>>)) \o If(usage, <<Event("usage")>>)) \o none],
               GeminiGoes(s, parts, finish, usage, z.told), z.got)
  BY <1>9, <1>10, <1>11, ChunkEnds
<1> QED  BY <1>6, <1>7, <1>10, <1>12, <1>13 DEF k

\* A chunk without parts.
LEMMA NoParts ==
  ASSUME NEW d \in Decoders, NEW e, e.parts = <<>>
  PROVE  DecodeGemini(d, e) = [fields |-> d,
           events |-> If(e.finish, <<StopEvent("stop")>>) \o If(e.usage, <<Event("usage")>>)
                        \o If(e.blocked, <<Event("start"), StopEvent("safety")>>)]
<1> DEFINE none == <<>>
           n == d.tool + 1
           x0 == Events(n, none)
           x == FoldLeft(DecodePart, x0, none)
           stop == If(e.finish, <<StopEvent("stop")>>)
           S == {}
<1>1. none \in Seq(S)
  OBVIOUS
<1>2. x = Folded(By("part"), x0, none)
  <2> HIDE DEF x0, none, S
  <2> QED  BY <1>1, FoldDecodePart
<1>3. x = x0
  <2> HIDE DEF x0, x
  <2> QED  BY <1>2, FoldedEmpty
<1>4. x.tool - 1 = d.tool /\ x.events = none
  <2>1. d.tool \in Int /\ x0.tool = d.tool + 1 /\ x0.events = none
    BY DEF Decoders, Events
  <2> HIDE DEF x0, x, none
  <2>2. d.tool + 1 - 1 = d.tool
    BY <2>1
  <2> QED  BY <1>3, <2>1, <2>2
<1>5. If(e.parts # none, <<Event("start")>>) = none
  BY DEF If
<1>6. DecodeGemini(d, e) = [fields |-> [d EXCEPT !.tool = x.tool - 1],
          events |-> If(e.parts # none, <<Event("start")>>) \o x.events \o stop
                   \o If(e.usage, <<Event("usage")>>) \o If(e.blocked, <<Event("start"), StopEvent("safety")>>)]
  BY DEF DecodeGemini, Events
<1>7. [d EXCEPT !.tool = d.tool] = d
  BY DEF Decoders
<1>8. (none \o none) \o stop = stop
  <2> DEFINE x1 == StopEvent("stop")
  <2>1. stop = <<x1>> \/ stop = none
    BY DEF If
  <2> HIDE DEF stop, x1
  <2>2. none \o none = none /\ none \o <<x1>> = <<x1>>
    BY Strung
  <2> QED  BY <2>1, <2>2
<1> HIDE DEF none, x, stop
<1>9. DecodeGemini(d, e) = [fields |-> d, events |-> ((none \o none) \o stop)
                   \o If(e.usage, <<Event("usage")>>) \o If(e.blocked, <<Event("start"), StopEvent("safety")>>)]
  BY <1>4, <1>5, <1>6, <1>7
<1> QED  BY <1>8, <1>9 DEF stop

LEMMA CarriedNone == ASSUME NEW b PROVE Carried(b, <<>>, b)
<1> DEFINE none == <<>>
<1>1. none \in Seq(Occurrences) /\ \A i \in 1..Len(none) : Plain(none[i])
  OBVIOUS
<1>2. Took(b, none) = b
  BY TookNone
<1> HIDE DEF none
<1>3. Carried(b, none, b)
  BY <1>1, <1>2 DEF Carried
<1> QED  BY <1>3 DEF none

\* A candidate that finishes with no part.
LEMMA GeminiBare ==
  ASSUME NEW b, NEW d, NEW s, Hears("gemini", b, d, s), s.phase \in {"new", "body"}, NEW usage \in BOOLEAN,
         NEW none, none = <<>>
  PROVE  Heard("gemini", b, DecodeGemini(d, GeminiChunk(none, TRUE, usage)), GeminiGoes(s, none, TRUE, usage, s.calls), none)
<1> DEFINE e == GeminiChunk(none, TRUE, usage)
           finish == TRUE
<1>1. /\ b \in Answers /\ b.legal /\ ~b.failed /\ b.got = none /\ Standing("gemini", b, d, s) /\ Advancing("gemini", b, d, s)
      /\ d \in Decoders /\ s \in Sources
  BY DEF Hears, Standing
<1>2. b.told = s.calls /\ d.tool = b.told - 1 /\ b.told \in Nat
  BY <1>1 DEF Standing, Advancing, Decoders, Answers
<1>3. Carried(b, none, b)
  BY CarriedNone
<1> DEFINE was == [b EXCEPT !.told = b.told, !.got = b.got]
<1>4. was = b
  BY <1>1 DEF Answers
<1> HIDE DEF was
<1>5. Marking(was, b, none # <<>> \/ b.begun, b.finished, b.usage, b.done, b.failed, b.bare)
  BY <1>1, <1>4 DEF Marking, Answers
<1>6. [d EXCEPT !.tool = b.told - 1] = d
  BY <1>1, <1>2 DEF Decoders
<1>7. Heard("gemini", b,
               [fields |-> [d EXCEPT !.tool = b.told - 1],
                events |-> ((none \o If(finish, <<StopEvent("stop")>>)) \o If(usage, <<Event("usage")>>)) \o none],
               GeminiGoes(s, none, finish, usage, b.told), b.got)
  BY <1>1, <1>3, <1>5, ChunkEnds DEF was
<1>8. DecodeGemini(d, e) = [fields |-> d,
           events |-> If(e.finish, <<StopEvent("stop")>>) \o If(e.usage, <<Event("usage")>>)
                        \o If(e.blocked, <<Event("start"), StopEvent("safety")>>)]
  <2>1. e.parts = <<>>
    BY DEF GeminiChunk
  <2> HIDE DEF e
  <2> QED  BY <1>1, <2>1, NoParts
<1>9. If(e.finish, <<StopEvent("stop")>>) = If(finish, <<StopEvent("stop")>>) /\ If(e.usage, <<Event("usage")>>) = If(usage, <<Event("usage")>>)
      /\ If(e.blocked, <<Event("start"), StopEvent("safety")>>) = none
  BY DEF GeminiChunk, If
<1> DEFINE stop == If(finish, <<StopEvent("stop")>>)
<1>10. none \o stop = stop
  <2>1. stop \in Seq({StopEvent("stop")})
    BY DEF If
  <2> HIDE DEF stop
  <2> QED  BY <2>1
<1> HIDE DEF e, stop
<1>11. DecodeGemini(d, e) = [fields |-> [d EXCEPT !.tool = b.told - 1],
                events |-> ((none \o stop) \o If(usage, <<Event("usage")>>)) \o none]
  BY <1>6, <1>8, <1>9, <1>10 DEF stop
<1>12. GeminiGoes(s, none, finish, usage, b.told) = GeminiGoes(s, none, TRUE, usage, s.calls) /\ b.got = none
  BY <1>1, <1>2
<1> QED  BY <1>7, <1>11, <1>12 DEF e, stop

\* The usage after the finish.
LEMMA GeminiUsage ==
  ASSUME NEW b, NEW d, NEW s, Hears("gemini", b, d, s), s.phase = "finished", NEW none, none = <<>>
  PROVE  Heard("gemini", b, DecodeGemini(d, [parts |-> none, finish |-> FALSE, usage |-> TRUE, blocked |-> FALSE]),
               [s EXCEPT !.phase = "ended", !.usage = TRUE], none)
<1> DEFINE e == [parts |-> none, finish |-> FALSE, usage |-> TRUE, blocked |-> FALSE]
           src == [s EXCEPT !.phase = "ended", !.usage = TRUE]
           x == Event("usage")
           z == Take(b, x)
           one == <<x>>
<1>1. /\ b \in Answers /\ b.legal /\ ~b.failed /\ b.got = none /\ Standing("gemini", b, d, s) /\ Advancing("gemini", b, d, s)
      /\ d \in Decoders /\ s \in Sources
  BY DEF Hears, Standing
<1>2. DecodeGemini(d, e) = [fields |-> d,
           events |-> If(e.finish, <<StopEvent("stop")>>) \o If(e.usage, one)
                        \o If(e.blocked, <<Event("start"), StopEvent("safety")>>)]
  <2> HIDE DEF e
  <2>1. e.parts = <<>>
    BY DEF e
  <2> QED  BY <1>1, <2>1, NoParts
<1>3. If(e.finish, <<StopEvent("stop")>>) = none /\ If(e.usage, one) = one
      /\ If(e.blocked, <<Event("start"), StopEvent("safety")>>) = none
  BY DEF If
<1>4. none \o one = one /\ one \o none = one
  BY Strung
<1> HIDE DEF e, one
<1>5. DecodeGemini(d, e) = [fields |-> d, events |-> one]
  BY <1>2, <1>3, <1>4
<1>6. x \in Occurrences /\ x.kind = "usage"
  BY Said DEF Kinds
<1>7. Takes(b, x, z) /\ Marking(b, z, b.begun, b.finished, b.usage \/ b.finished, b.done, b.failed, b.bare)
  BY <1>1, TakesUsage
<1>8. src \in Sources /\ src.phase = "ended" /\ src.open = s.open /\ src.calls = s.calls /\ src.usage = TRUE /\ src.bare = s.bare
      /\ src.interleaved = s.interleaved
  BY <1>1 DEF Sources, Phases
<1>9. b.finished /\ b.told = s.calls /\ d.tool + 1 = s.calls /\ (b.strayed => s.interleaved) /\ (b.bare => s.bare)
  BY <1>1 DEF Standing, Advancing
<1> HIDE DEF src, x, z
<1>10. z.legal /\ z.told = b.told /\ z.got = none /\ z.finished /\ z.usage /\ ~z.failed /\ (z.bare <=> b.bare) /\ (z.strayed <=> b.strayed)
  BY <1>1, <1>7, <1>9 DEF Takes, Marking
<1>11. Advancing("gemini", z, d, src)
  BY <1>8, <1>9, <1>10 DEF Advancing
<1>12. Standing("gemini", z, d, src)
  BY <1>1, <1>8, <1>9, <1>10, <1>11 DEF Standing
<1>13. Fit("gemini", x)
  BY <1>6 DEF Fit
<1>14. Heard("gemini", b, [fields |-> d, events |-> <<x>>], src, none)
  BY <1>6, <1>10, <1>12, <1>13, HeardOne DEF z
<1> QED  BY <1>5, <1>14 DEF one, e, src

\* A blocked prompt.
LEMMA GeminiBlocked ==
  ASSUME NEW b, NEW d, NEW s, Hears("gemini", b, d, s), s.phase = "new", NEW none, none = <<>>
  PROVE  Heard("gemini", b, DecodeGemini(d, [parts |-> none, finish |-> FALSE, usage |-> TRUE, blocked |-> TRUE]),
               [s EXCEPT !.phase = "ended", !.usage = TRUE, !.blocked = TRUE], none)
<1> DEFINE e == [parts |-> none, finish |-> FALSE, usage |-> TRUE, blocked |-> TRUE]
           src == [s EXCEPT !.phase = "ended", !.usage = TRUE, !.blocked = TRUE]
           x1 == Event("usage")
           x2 == Event("start")
           x3 == StopEvent("safety")
           z1 == Take(b, x1)
           z2 == Take(z1, x2)
           z3 == Take(z2, x3)
           one == <<x1>>
           two == <<x2, x3>>
<1>1. /\ b \in Answers /\ b.legal /\ ~b.failed /\ b.got = none /\ Standing("gemini", b, d, s) /\ Advancing("gemini", b, d, s)
      /\ d \in Decoders /\ s \in Sources
  BY DEF Hears, Standing
<1>2. DecodeGemini(d, e) = [fields |-> d,
           events |-> If(e.finish, <<StopEvent("stop")>>) \o If(e.usage, one) \o If(e.blocked, two)]
  <2> HIDE DEF e
  <2>1. e.parts = <<>>
    BY DEF e
  <2> QED  BY <1>1, <2>1, NoParts
<1>3. If(e.finish, <<StopEvent("stop")>>) = none /\ If(e.usage, one) = one /\ If(e.blocked, two) = two
  BY DEF If
<1>4. none \o one = one
  BY Strung
<1>5. one \o two = <<x1, x2, x3>>
  <2> DEFINE S == {x1, x2, x3}
  <2>1. one \in Seq(S) /\ x2 \in S /\ x3 \in S /\ <<x1, x2>> = Append(one, x2)
    OBVIOUS
  <2>2. <<x1, x2, x3>> = Append(Append(one, x2), x3)
    OBVIOUS
  <2> HIDE DEF S, one, x1, x2, x3
  <2>3. one \o <<x2, x3>> = Append(Append(one, x2), x3)
    BY <2>1, Longer
  <2> QED  BY <2>2, <2>3
<1> HIDE DEF e, one, two
<1>6. DecodeGemini(d, e) = [fields |-> d, events |-> <<x1, x2, x3>>]
  BY <1>2, <1>3, <1>4, <1>5
<1>7. x1 \in Occurrences /\ x1.kind = "usage" /\ x2 \in Occurrences /\ x2.kind = "start" /\ x3 \in Occurrences /\ x3.kind = "stop"
  BY Said DEF Kinds
<1>8. Fit("gemini", x1) /\ Fit("gemini", x2) /\ Fit("gemini", x3)
  BY <1>7 DEF Fit
<1>9. ~b.finished /\ b.told = s.calls /\ d.tool + 1 = s.calls /\ (b.strayed => s.interleaved) /\ (b.bare => s.bare)
  BY <1>1 DEF Standing, Advancing
<1>10. Takes(b, x1, z1) /\ Marking(b, z1, b.begun, b.finished, b.usage \/ b.finished, b.done, b.failed, b.bare)
  BY <1>1, TakesUsage
<1> HIDE DEF z1
<1>11. z1 \in Answers /\ z1.legal /\ z1.told = b.told /\ z1.got = none /\ ~z1.finished /\ ~z1.failed /\ (z1.bare <=> b.bare) /\ (z1.strayed <=> b.strayed)
  BY <1>1, <1>9, <1>10 DEF Takes, Marking
<1>12. Takes(z1, x2, z2) /\ Marking(z1, z2, TRUE, z1.finished, z1.usage, z1.done, z1.failed, z1.bare)
  BY <1>11, TakesStart
<1> HIDE DEF z2
<1>13. z2 \in Answers /\ z2.legal /\ z2.told = b.told /\ z2.got = none /\ ~z2.finished /\ ~z2.failed /\ z2.begun /\ (z2.bare <=> b.bare)
       /\ (z2.strayed <=> b.strayed)
  BY <1>11, <1>12 DEF Takes, Marking
<1>14. Takes(z2, x3, z3) /\ Marking(z2, z3, z2.begun, TRUE, z2.usage, z2.done, z2.failed, z2.bare \/ ~z2.begun)
  BY <1>13, TakesStop
<1> HIDE DEF z3
<1>15. z3.legal /\ z3.told = b.told /\ z3.got = none /\ z3.finished /\ ~z3.failed /\ (z3.bare <=> b.bare) /\ (z3.strayed <=> b.strayed)
  BY <1>13, <1>14 DEF Takes, Marking
<1>16. src \in Sources /\ src.phase = "ended" /\ src.open = s.open /\ src.calls = s.calls /\ src.usage = TRUE /\ src.blocked = TRUE
       /\ src.bare = s.bare /\ src.interleaved = s.interleaved
  BY <1>1 DEF Sources, Phases
<1> HIDE DEF src
<1>17. Advancing("gemini", z3, d, src)
  BY <1>9, <1>15, <1>16 DEF Advancing
<1>18. Standing("gemini", z3, d, src)
  BY <1>1, <1>9, <1>15, <1>16, <1>17 DEF Standing
<1> HIDE DEF x1, x2, x3
<1>19. z3 = Take(Take(Take(b, x1), x2), x3)
  BY DEF z1, z2, z3
<1>20. Heard("gemini", b, [fields |-> d, events |-> <<x1, x2, x3>>], src, none)
  BY <1>7, <1>8, <1>15, <1>18, <1>19, HeardThree
<1> QED  BY <1>6, <1>20 DEF e, src

(* ---- the provider's next event ---- *)

LastOf(src, pieces) == IF pieces = <<>> THEN src.last ELSE Last(pieces)
Posted(src, pieces) ==
  [src EXCEPT !.events = @ + Size(pieces), !.signatures = FoldLeft(Signed, @, pieces), !.last = LastOf(src, pieces)]

PostedAs(t, src, n, m, last) == t = [src EXCEPT !.events = n, !.signatures = m, !.last = last]
PostedKeeps(src, t) ==
  t.phase = src.phase /\ t.interleaved = src.interleaved /\ t.calls = src.calls /\ t.doubled = src.doubled

LEMMA StandingPosted ==
  ASSUME NEW up, NEW a, NEW d, NEW src, Standing(up, a, d, src), NEW n \in Nat, NEW m \in Nat, NEW last \in Pairs, NEW t,
         PostedAs(t, src, n, m, last)
  PROVE  /\ Standing(up, a, d, t) /\ t.signatures = m /\ t.last = last /\ PostedKeeps(src, t)
<1>1. src \in Sources
  BY DEF Standing
<1>2. t \in Sources
  BY <1>1 DEF Sources, PostedAs
<1>3. /\ t.phase = src.phase /\ t.open = src.open /\ t.calls = src.calls /\ t.usage = src.usage /\ t.last = last
      /\ t.signatures = m /\ t.cut = src.cut /\ t.blocked = src.blocked /\ t.bare = src.bare
      /\ t.interleaved = src.interleaved /\ t.doubled = src.doubled
  BY <1>1 DEF Sources, PostedAs
<1>4. Advancing(up, a, d, src) => Advancing(up, a, d, t)
  BY <1>3 DEF Advancing
<1>5. Standing(up, a, d, t)
  BY <1>2, <1>3, <1>4 DEF Standing
<1> QED  BY <1>3, <1>5 DEF PostedKeeps

LEMMA SizeOf == ASSUME NEW s \in Seq(Pairs) PROVE Size(s) \in Nat
<1> DEFINE none == <<>>
<1>1. Len(s) \in Nat
  OBVIOUS
<1> QED  BY <1>1 DEF Size

LEMMA LastPair == ASSUME NEW src \in Sources, NEW s \in Seq(Pairs) PROVE LastOf(src, s) \in Pairs
<1>1. src.last \in Pairs
  BY DEF Sources
<1>2. s = <<>> \/ Last(s) \in Pairs
  <2>1. \A t \in Seq(Pairs) : t = <<>> \/ t[Len(t)] \in Pairs
    OBVIOUS
  <2> QED  BY <2>1 DEF Last
<1> QED  BY <1>1, <1>2 DEF LastOf

\* And the pieces they carry are the ones the provider counts as sent.
Posts(up, b, decoded, src, pieces) ==
  /\ Proper(up, decoded.events)
  /\ Took(b, decoded.events) \in Answers /\ Settled(Took(b, decoded.events))
  /\ Agrees(up, Took(b, decoded.events), decoded.fields, Posted(src, pieces), pieces)

LEMMA PostedAgrees ==
  ASSUME NEW up, NEW b \in Answers, Settled(b), b.got = <<>>, NEW decoded, NEW src, NEW pieces,
         Heard(up, b, decoded, src, pieces), b.signed = src.signatures,
         up = "chat" => Resuming(Took(b, decoded.events), src.phase, LastOf(src, pieces), src.interleaved, src.calls),
         ~src.doubled => Single(pieces)
  PROVE  Posts(up, b, decoded, src, pieces)
<1> DEFINE events == decoded.events
           a == Took(b, events)
           d == decoded.fields
           n == b.signed
           none == <<>>
           size == src.events + Size(pieces)
           m == FoldLeft(Signed, src.signatures, pieces)
           last == LastOf(src, pieces)
           t == Posted(src, pieces)
<1>1. Proper(up, events) /\ a.got = pieces /\ Standing(up, a, d, src)
  BY DEF Heard
<1>2. events \in Seq(Occurrences) /\ a.legal /\ src \in Sources
  BY <1>1 DEF Proper, Standing
<1>3. Folded(By("signed"), n, none) = n /\ b.got = none
  BY FoldedEmpty
<1>4. PostedAs(t, src, size, m, last)
  BY DEF Posted, PostedAs
<1> HIDE DEF events, n, d, none, last, t
<1>5. b.signed = Folded(By("signed"), n, b.got)
  BY <1>3 DEF n
<1>6. a \in Answers /\ Settled(a) /\ a.signed = Folded(By("signed"), n, a.got)
  BY <1>2, <1>5, TookRun
<1>7. a.signed \in Nat /\ a.got \in Seq(Pairs)
  BY <1>6 DEF Answers
<1> HIDE DEF a
<1>8. pieces \in Seq(Pairs)
  BY <1>1, <1>7
<1>9. m = Folded(By("signed"), n, pieces)
  BY <1>8, FoldSigned DEF n
<1>10. m = a.signed
  BY <1>1, <1>6, <1>9
<1> HIDE DEF m
<1>11. m \in Nat
  BY <1>7, <1>10
<1>12. last \in Pairs
  BY <1>2, <1>8, LastPair DEF last
<1>13. size \in Nat
  <2>1. src.events \in Nat
    BY <1>2 DEF Sources
  <2> QED  BY <1>8, <2>1, SizeOf
<1> HIDE DEF size
<1>14. Standing(up, a, d, t) /\ t.signatures = m /\ t.last = last /\ PostedKeeps(src, t)
  BY <1>1, <1>4, <1>11, <1>12, <1>13, StandingPosted
<1>15. up = "chat" => Resuming(a, src.phase, last, src.interleaved, src.calls)
  BY DEF a, events, last
<1>16. up = "chat" => Resumes(a, t)
  BY <1>14, <1>15 DEF Resumes, PostedKeeps
<1>17. Agrees(up, a, d, t, pieces)
  BY <1>1, <1>10, <1>14, <1>16 DEF Agrees, PostedKeeps
<1> QED  BY <1>1, <1>6, <1>17 DEF Posts, t, d, a, events

(* What a chat provider said last matters only while it may go on. *)
LEMMA ResumesNot ==
  ASSUME NEW a, NEW phase, phase \notin {"new", "body"}, NEW last, NEW interleaved, NEW calls
  PROVE  Resuming(a, phase, last, interleaved, calls)
  BY DEF Resuming

LEMMA PostedNone ==
  ASSUME NEW up, NEW b \in Answers, Settled(b), b.got = <<>>, NEW decoded, NEW src,
         Heard(up, b, decoded, src, <<>>), b.signed = src.signatures,
         up = "chat" => Resuming(Took(b, decoded.events), src.phase, src.last, src.interleaved, src.calls)
  PROVE  Posts(up, b, decoded, src, <<>>)
<1> DEFINE none == <<>>
<1>1. Single(none) /\ LastOf(src, none) = src.last
  BY SingleNone DEF LastOf
<1>2. Heard(up, b, decoded, src, none) /\ b.got = none
  OBVIOUS
<1> HIDE DEF none
<1>3. Posts(up, b, decoded, src, none)
  <2>1. up = "chat" => Resuming(Took(b, decoded.events), src.phase, LastOf(src, none), src.interleaved, src.calls)
    BY <1>1
  <2> QED  BY <1>1, <1>2, <2>1, PostedAgrees DEF none
<1> QED  BY <1>3 DEF none

LEMMA PostedOne ==
  ASSUME NEW up, NEW b \in Answers, Settled(b), b.got = <<>>, NEW decoded, NEW src, NEW p \in Pairs,
         Heard(up, b, decoded, src, <<p>>), b.signed = src.signatures,
         up = "chat" => Resuming(Took(b, decoded.events), src.phase, p, src.interleaved, src.calls)
  PROVE  Posts(up, b, decoded, src, <<p>>)
<1> DEFINE one == <<p>>
<1>1. Last(one) = p /\ one # <<>>
  BY DEF Last
<1>2. Single(one) /\ LastOf(src, one) = p
  BY <1>1, SingleOne DEF LastOf
<1>3. Heard(up, b, decoded, src, one)
  OBVIOUS
<1> HIDE DEF one
<1>4. Posts(up, b, decoded, src, one)
  BY <1>2, <1>3, PostedAgrees
<1> QED  BY <1>4 DEF one

LEMMA AfterKeeps ==
  ASSUME NEW a \in Answers, NEW e \in Occurrences
  PROVE  (a.strayed => After(a, e).strayed) /\ (a.bare => After(a, e).bare)
<1>1. CASE e.kind \in Contents
  <2> DEFINE got == Append(a.got, <<e.kind, 0>>)
             n == IF e.kind = "signature" THEN a.signed + 1 ELSE a.signed
  <2>1. After(a, e) = [a EXCEPT !.got = got, !.hot = FALSE, !.signed = n]
    BY <1>1 DEF After, Contents
  <2> HIDE DEF got, n
  <2> QED  BY <2>1 DEF Answers
<1>2. CASE e.kind = "toolstart"
  <2> DEFINE got == Append(a.got, <<"call", e.tool>>)
             n == a.told + 1
  <2>1. After(a, e) = [a EXCEPT !.got = got, !.told = n, !.hot = TRUE] \/ After(a, e) = a
    BY <1>2 DEF After, Contents
  <2> HIDE DEF got, n
  <2>2. CASE After(a, e) = [a EXCEPT !.got = got, !.told = n, !.hot = TRUE]
    BY <2>2 DEF Answers
  <2>3. CASE After(a, e) = a
    BY <2>3
  <2> QED  BY <2>1, <2>2, <2>3
<1>3. CASE e.kind \in {"toolargs", "tooldelta"}
  <2> DEFINE got == Append(a.got, <<"args", e.tool>>)
             z == a.strayed \/ ~(a.hot /\ e.tool + 1 = a.told)
  <2>1. After(a, e) = [a EXCEPT !.got = got, !.strayed = z] /\ (a.strayed => z)
    BY <1>3 DEF After, Contents
  <2> HIDE DEF got, z
  <2> QED  BY <2>1 DEF Answers
<1>4. CASE e.kind \notin Contents \union {"toolstart", "toolargs", "tooldelta"}
  BY <1>4 DEF After, Contents, Answers
<1> QED  BY <1>1, <1>2, <1>3, <1>4

LEMMA TookKeeps ==
  ASSUME NEW a \in Answers, Settled(a), NEW s \in Seq(Occurrences), Took(a, s).legal
  PROVE  (a.strayed => Took(a, s).strayed) /\ (a.bare => Took(a, s).bare)
<1> DEFINE ha == By("take")
           Good(x) == x \in Answers /\ Settled(x) /\ (a.strayed => x.strayed) /\ (a.bare => x.bare)
<1>1. PICK y : /\ y[0] = a /\ y[Len(s)] = Folded(ha, a, s)
               /\ \A i \in 1..Len(s) : y[i] = StepOf(ha, y[i - 1], s[i])
  BY FoldedGoes
<1>2. \A i \in 1..Len(s) : y[i] = Take(y[i - 1], s[i])
  BY <1>1 DEF StepOf, By
<1> DEFINE G == {i \in Nat : i <= Len(s) /\ y[i].legal => Good(y[i])}
<1>3. 0 \in G
  BY <1>1
<1>4. ASSUME NEW i \in Nat, i \in G PROVE i + 1 \in G
  <2> SUFFICES ASSUME i + 1 <= Len(s), y[i + 1].legal PROVE Good(y[i + 1])
    OBVIOUS
  <2> DEFINE e == s[i + 1]
             b == y[i]
  <2>1. e \in Occurrences /\ y[i + 1] = Take(b, e)
    <3>1. i + 1 \in 1..Len(s) /\ (i + 1) - 1 = i
      OBVIOUS
    <3> QED  BY <1>2, <3>1
  <2>2. b.legal /\ Allowed(b, e)
    BY <2>1, TakeLegal
  <2>3. Good(b)
    BY <1>4, <2>2
  <2> HIDE DEF e, b
  <2>4. Take(b, e) = After(b, e) /\ After(b, e) \in Answers
    BY <2>1, <2>2, <2>3, TakeLawful
  <2>5. Settled(After(b, e))
    BY <2>1, <2>2, <2>3, SettledAfter
  <2>6. (b.strayed => After(b, e).strayed) /\ (b.bare => After(b, e).bare)
    BY <2>1, <2>3, AfterKeeps
  <2> QED  BY <2>1, <2>3, <2>4, <2>5, <2>6
<1> HIDE DEF G
<1>5. Len(s) \in Nat
  OBVIOUS
<1>6. Len(s) \in G
  BY <1>3, <1>4, <1>5, Upward
<1>7. Took(a, s) = y[Len(s)]
  BY <1>1 DEF Took
<1> QED  BY <1>5, <1>6, <1>7 DEF G

\* What a provider's event finds when the client has all of the last one.
Sends(up, b, d, s) == Hears(up, b, d, s) /\ (up = "chat" => Resumes(b, s)) /\ b.signed = s.signatures

LEMMA AnthropicStartPosts ==
  ASSUME NEW b, NEW d, NEW s, Sends("anthropic", b, d, s), s.phase = "new", NEW usage \in BOOLEAN
  PROVE  Posts("anthropic", b, DecodeAnthropic(d, [type |-> "message_start", usage |-> usage]), [s EXCEPT !.phase = "body", !.usage = usage], <<>>)
<1> DEFINE decoded == DecodeAnthropic(d, [type |-> "message_start", usage |-> usage])
           src == [s EXCEPT !.phase = "body", !.usage = usage]
<1>1. Hears("anthropic", b, d, s) /\ s \in Sources /\ b \in Answers /\ Settled(b) /\ b.got = <<>>
  BY DEF Sends, Hears, Standing
<1>2. Heard("anthropic", b, decoded, src, <<>>)
  BY <1>1, AnthropicStart DEF Sends
<1>3. src.signatures = s.signatures
  BY <1>1 DEF Sources
<1>4. b.signed = s.signatures
  BY DEF Sends
<1> HIDE DEF decoded, src
<1>7. Posts("anthropic", b, decoded, src, <<>>)
  BY <1>1, <1>2, <1>3, <1>4, PostedNone
<1> QED  BY <1>7 DEF decoded, src

LEMMA AnthropicBlockPosts ==
  ASSUME NEW b, NEW d, NEW s, Sends("anthropic", b, d, s), s.phase = "body", s.open = "none", NEW block \in {"text", "thinking"}
  PROVE  Posts("anthropic", b, DecodeAnthropic(d, [type |-> "block_start", block |-> block]), [s EXCEPT !.open = block], <<>>)
<1> DEFINE decoded == DecodeAnthropic(d, [type |-> "block_start", block |-> block])
           src == [s EXCEPT !.open = block]
<1>1. Hears("anthropic", b, d, s) /\ s \in Sources /\ b \in Answers /\ Settled(b) /\ b.got = <<>>
  BY DEF Sends, Hears, Standing
<1>2. Heard("anthropic", b, decoded, src, <<>>)
  BY <1>1, AnthropicBlock DEF Sends
<1>3. src.signatures = s.signatures
  BY <1>1 DEF Sources
<1>4. b.signed = s.signatures
  BY DEF Sends
<1> HIDE DEF decoded, src
<1>7. Posts("anthropic", b, decoded, src, <<>>)
  BY <1>1, <1>2, <1>3, <1>4, PostedNone
<1> QED  BY <1>7 DEF decoded, src

LEMMA AnthropicRedactedPosts ==
  ASSUME NEW b, NEW d, NEW s, Sends("anthropic", b, d, s), s.phase = "body", s.open = "none"
  PROVE  Posts("anthropic", b, DecodeAnthropic(d, [type |-> "block_start", block |-> "redacted"]), [s EXCEPT !.open = "redacted"], <<<<"redacted", 0>>>>)
<1> DEFINE decoded == DecodeAnthropic(d, [type |-> "block_start", block |-> "redacted"])
           src == [s EXCEPT !.open = "redacted"]
<1>1. Hears("anthropic", b, d, s) /\ s \in Sources /\ b \in Answers /\ Settled(b) /\ b.got = <<>>
  BY DEF Sends, Hears, Standing
<1>2. Heard("anthropic", b, decoded, src, <<<<"redacted", 0>>>>)
  BY <1>1, AnthropicRedacted DEF Sends
<1>3. src.signatures = s.signatures
  BY <1>1 DEF Sources
<1>4. b.signed = s.signatures
  BY DEF Sends
<1>5. <<"redacted", 0>> \in Pairs
  BY <1>1 DEF Pairs, Words, Sources
<1> HIDE DEF decoded, src
<1>7. Posts("anthropic", b, decoded, src, <<<<"redacted", 0>>>>)
  BY <1>1, <1>2, <1>3, <1>4, <1>5, PostedOne
<1> QED  BY <1>7 DEF decoded, src

LEMMA AnthropicCallPosts ==
  ASSUME NEW b, NEW d, NEW s, Sends("anthropic", b, d, s), s.phase = "body", s.open = "none"
  PROVE  Posts("anthropic", b, DecodeAnthropic(d, [type |-> "block_start", block |-> "call"]), [s EXCEPT !.open = "call", !.calls = s.calls + 1], <<<<"call", s.calls>>>>)
<1> DEFINE decoded == DecodeAnthropic(d, [type |-> "block_start", block |-> "call"])
           src == [s EXCEPT !.open = "call", !.calls = s.calls + 1]
<1>1. Hears("anthropic", b, d, s) /\ s \in Sources /\ b \in Answers /\ Settled(b) /\ b.got = <<>>
  BY DEF Sends, Hears, Standing
<1>2. Heard("anthropic", b, decoded, src, <<<<"call", s.calls>>>>)
  BY <1>1, AnthropicCall DEF Sends
<1>3. src.signatures = s.signatures
  BY <1>1 DEF Sources
<1>4. b.signed = s.signatures
  BY DEF Sends
<1>5. <<"call", s.calls>> \in Pairs
  BY <1>1 DEF Pairs, Words, Sources
<1> HIDE DEF decoded, src
<1>7. Posts("anthropic", b, decoded, src, <<<<"call", s.calls>>>>)
  BY <1>1, <1>2, <1>3, <1>4, <1>5, PostedOne
<1> QED  BY <1>7 DEF decoded, src

LEMMA AnthropicArgumentsPosts ==
  ASSUME NEW b, NEW d, NEW s, Sends("anthropic", b, d, s), s.phase = "body", s.open = "call", s.calls > 0
  PROVE  Posts("anthropic", b, DecodeAnthropic(d, [type |-> "delta", block |-> "args"]), s, <<<<"args", s.calls - 1>>>>)
<1> DEFINE decoded == DecodeAnthropic(d, [type |-> "delta", block |-> "args"])
           src == s
<1>1. Hears("anthropic", b, d, s) /\ s \in Sources /\ b \in Answers /\ Settled(b) /\ b.got = <<>>
  BY DEF Sends, Hears, Standing
<1>2. Heard("anthropic", b, decoded, src, <<<<"args", s.calls - 1>>>>)
  BY <1>1, AnthropicArguments DEF Sends
<1>3. src.signatures = s.signatures
  BY <1>1 DEF Sources
<1>4. b.signed = s.signatures
  BY DEF Sends
<1>5. <<"args", s.calls - 1>> \in Pairs
  BY <1>1 DEF Pairs, Words, Sources, Standing, Hears, Advancing, Sends, Answers
<1> HIDE DEF decoded, src
<1>7. Posts("anthropic", b, decoded, src, <<<<"args", s.calls - 1>>>>)
  BY <1>1, <1>2, <1>3, <1>4, <1>5, PostedOne
<1> QED  BY <1>7 DEF decoded, src

LEMMA AnthropicSaysPosts ==
  ASSUME NEW b, NEW d, NEW s, Sends("anthropic", b, d, s), s.phase = "body", s.open # "call", NEW what \in {"text", "thinking", "signature"}
  PROVE  Posts("anthropic", b, DecodeAnthropic(d, [type |-> "delta", block |-> what]), s, <<<<what, 0>>>>)
<1> DEFINE decoded == DecodeAnthropic(d, [type |-> "delta", block |-> what])
           src == s
<1>1. Hears("anthropic", b, d, s) /\ s \in Sources /\ b \in Answers /\ Settled(b) /\ b.got = <<>>
  BY DEF Sends, Hears, Standing
<1>2. Heard("anthropic", b, decoded, src, <<<<what, 0>>>>)
  BY <1>1, AnthropicSays DEF Sends
<1>3. src.signatures = s.signatures
  BY <1>1 DEF Sources
<1>4. b.signed = s.signatures
  BY DEF Sends
<1>5. <<what, 0>> \in Pairs
  BY <1>1 DEF Pairs, Words, Sources
<1> HIDE DEF decoded, src
<1>7. Posts("anthropic", b, decoded, src, <<<<what, 0>>>>)
  BY <1>1, <1>2, <1>3, <1>4, <1>5, PostedOne
<1> QED  BY <1>7 DEF decoded, src

LEMMA AnthropicBlockStopPosts ==
  ASSUME NEW b, NEW d, NEW s, Sends("anthropic", b, d, s), s.phase = "body"
  PROVE  Posts("anthropic", b, DecodeAnthropic(d, [type |-> "block_stop"]), [s EXCEPT !.open = "none"], <<>>)
<1> DEFINE decoded == DecodeAnthropic(d, [type |-> "block_stop"])
           src == [s EXCEPT !.open = "none"]
<1>1. Hears("anthropic", b, d, s) /\ s \in Sources /\ b \in Answers /\ Settled(b) /\ b.got = <<>>
  BY DEF Sends, Hears, Standing
<1>2. Heard("anthropic", b, decoded, src, <<>>)
  BY <1>1, AnthropicBlockStop DEF Sends
<1>3. src.signatures = s.signatures
  BY <1>1 DEF Sources
<1>4. b.signed = s.signatures
  BY DEF Sends
<1> HIDE DEF decoded, src
<1>7. Posts("anthropic", b, decoded, src, <<>>)
  BY <1>1, <1>2, <1>3, <1>4, PostedNone
<1> QED  BY <1>7 DEF decoded, src

LEMMA AnthropicFinishPosts ==
  ASSUME NEW b, NEW d, NEW s, Sends("anthropic", b, d, s), s.phase = "body", NEW usage \in BOOLEAN
  PROVE  Posts("anthropic", b, DecodeAnthropic(d, [type |-> "message_delta", usage |-> usage]), [s EXCEPT !.phase = "finished", !.usage = (s.usage \/ usage)], <<>>)
<1> DEFINE decoded == DecodeAnthropic(d, [type |-> "message_delta", usage |-> usage])
           src == [s EXCEPT !.phase = "finished", !.usage = (s.usage \/ usage)]
<1>1. Hears("anthropic", b, d, s) /\ s \in Sources /\ b \in Answers /\ Settled(b) /\ b.got = <<>>
  BY DEF Sends, Hears, Standing
<1>2. Heard("anthropic", b, decoded, src, <<>>)
  BY <1>1, AnthropicFinish DEF Sends
<1>3. src.signatures = s.signatures
  BY <1>1 DEF Sources
<1>4. b.signed = s.signatures
  BY DEF Sends
<1> HIDE DEF decoded, src
<1>7. Posts("anthropic", b, decoded, src, <<>>)
  BY <1>1, <1>2, <1>3, <1>4, PostedNone
<1> QED  BY <1>7 DEF decoded, src

LEMMA AnthropicEndPosts ==
  ASSUME NEW b, NEW d, NEW s, Sends("anthropic", b, d, s), s.phase = "finished"
  PROVE  Posts("anthropic", b, DecodeAnthropic(d, [type |-> "message_stop"]), [s EXCEPT !.phase = "ended"], <<>>)
<1> DEFINE decoded == DecodeAnthropic(d, [type |-> "message_stop"])
           src == [s EXCEPT !.phase = "ended"]
<1>1. Hears("anthropic", b, d, s) /\ s \in Sources /\ b \in Answers /\ Settled(b) /\ b.got = <<>>
  BY DEF Sends, Hears, Standing
<1>2. Heard("anthropic", b, decoded, src, <<>>)
  BY <1>1, AnthropicEnd DEF Sends
<1>3. src.signatures = s.signatures
  BY <1>1 DEF Sources
<1>4. b.signed = s.signatures
  BY DEF Sends
<1> HIDE DEF decoded, src
<1>7. Posts("anthropic", b, decoded, src, <<>>)
  BY <1>1, <1>2, <1>3, <1>4, PostedNone
<1> QED  BY <1>7 DEF decoded, src

LEMMA AnthropicErrorPosts ==
  ASSUME NEW b, NEW d, NEW s, Sends("anthropic", b, d, s), s.phase \in {"new", "body"}
  PROVE  Posts("anthropic", b, DecodeAnthropic(d, [type |-> "error"]), [s EXCEPT !.phase = "failed"], <<>>)
<1> DEFINE decoded == DecodeAnthropic(d, [type |-> "error"])
           src == [s EXCEPT !.phase = "failed"]
<1>1. Hears("anthropic", b, d, s) /\ s \in Sources /\ b \in Answers /\ Settled(b) /\ b.got = <<>>
  BY DEF Sends, Hears, Standing
<1>2. Heard("anthropic", b, decoded, src, <<>>)
  BY <1>1, AnthropicError DEF Sends
<1>3. src.signatures = s.signatures
  BY <1>1 DEF Sources
<1>4. b.signed = s.signatures
  BY DEF Sends
<1> HIDE DEF decoded, src
<1>7. Posts("anthropic", b, decoded, src, <<>>)
  BY <1>1, <1>2, <1>3, <1>4, PostedNone
<1> QED  BY <1>7 DEF decoded, src

LEMMA AnthropicDonePosts ==
  ASSUME NEW b, NEW d, NEW s, Sends("anthropic", b, d, s), s.phase = "ended"
  PROVE  Posts("anthropic", b, DecodeAnthropic(d, [type |-> "done", what |-> "done", role |-> FALSE, finish |-> FALSE, usage |-> FALSE]), [s EXCEPT !.phase = "done"], <<>>)
<1> DEFINE decoded == DecodeAnthropic(d, [type |-> "done", what |-> "done", role |-> FALSE, finish |-> FALSE, usage |-> FALSE])
           src == [s EXCEPT !.phase = "done"]
<1>1. Hears("anthropic", b, d, s) /\ s \in Sources /\ b \in Answers /\ Settled(b) /\ b.got = <<>>
  BY DEF Sends, Hears, Standing
<1>2. Heard("anthropic", b, decoded, src, <<>>)
  BY <1>1, AnthropicDone DEF Sends
<1>3. src.signatures = s.signatures
  BY <1>1 DEF Sources
<1>4. b.signed = s.signatures
  BY DEF Sends
<1> HIDE DEF decoded, src
<1>7. Posts("anthropic", b, decoded, src, <<>>)
  BY <1>1, <1>2, <1>3, <1>4, PostedNone
<1> QED  BY <1>7 DEF decoded, src

LEMMA ResponsesCreatedPosts ==
  ASSUME NEW b, NEW d, NEW s, Sends("responses", b, d, s), s.phase = "new"
  PROVE  Posts("responses", b, DecodeResponses(d, [type |-> "created"]), [s EXCEPT !.phase = "body"], <<>>)
<1> DEFINE decoded == DecodeResponses(d, [type |-> "created"])
           src == [s EXCEPT !.phase = "body"]
<1>1. Hears("responses", b, d, s) /\ s \in Sources /\ b \in Answers /\ Settled(b) /\ b.got = <<>>
  BY DEF Sends, Hears, Standing
<1>2. Heard("responses", b, decoded, src, <<>>)
  BY <1>1, ResponsesCreated DEF Sends
<1>3. src.signatures = s.signatures
  BY <1>1 DEF Sources
<1>4. b.signed = s.signatures
  BY DEF Sends
<1> HIDE DEF decoded, src
<1>7. Posts("responses", b, decoded, src, <<>>)
  BY <1>1, <1>2, <1>3, <1>4, PostedNone
<1> QED  BY <1>7 DEF decoded, src

LEMMA ResponsesItemPosts ==
  ASSUME NEW b, NEW d, NEW s, Sends("responses", b, d, s), s.phase = "body", s.open = "none", NEW item \in {"message", "reasoning"}
  PROVE  Posts("responses", b, DecodeResponses(d, [type |-> "item_added", block |-> item]), [s EXCEPT !.open = item], <<>>)
<1> DEFINE decoded == DecodeResponses(d, [type |-> "item_added", block |-> item])
           src == [s EXCEPT !.open = item]
<1>1. Hears("responses", b, d, s) /\ s \in Sources /\ b \in Answers /\ Settled(b) /\ b.got = <<>>
  BY DEF Sends, Hears, Standing
<1>2. Heard("responses", b, decoded, src, <<>>)
  BY <1>1, ResponsesItem DEF Sends
<1>3. src.signatures = s.signatures
  BY <1>1 DEF Sources
<1>4. b.signed = s.signatures
  BY DEF Sends
<1> HIDE DEF decoded, src
<1>7. Posts("responses", b, decoded, src, <<>>)
  BY <1>1, <1>2, <1>3, <1>4, PostedNone
<1> QED  BY <1>7 DEF decoded, src

LEMMA ResponsesCallPosts ==
  ASSUME NEW b, NEW d, NEW s, Sends("responses", b, d, s), s.phase = "body", s.open = "none"
  PROVE  Posts("responses", b, DecodeResponses(d, [type |-> "item_added", block |-> "call", tool |-> s.calls]), [s EXCEPT !.open = "call", !.calls = s.calls + 1], <<<<"call", s.calls>>>>)
<1> DEFINE decoded == DecodeResponses(d, [type |-> "item_added", block |-> "call", tool |-> s.calls])
           src == [s EXCEPT !.open = "call", !.calls = s.calls + 1]
<1>1. Hears("responses", b, d, s) /\ s \in Sources /\ b \in Answers /\ Settled(b) /\ b.got = <<>>
  BY DEF Sends, Hears, Standing
<1>2. Heard("responses", b, decoded, src, <<<<"call", s.calls>>>>)
  BY <1>1, ResponsesCall DEF Sends
<1>3. src.signatures = s.signatures
  BY <1>1 DEF Sources
<1>4. b.signed = s.signatures
  BY DEF Sends
<1>5. <<"call", s.calls>> \in Pairs
  BY <1>1 DEF Pairs, Words, Sources
<1> HIDE DEF decoded, src
<1>7. Posts("responses", b, decoded, src, <<<<"call", s.calls>>>>)
  BY <1>1, <1>2, <1>3, <1>4, <1>5, PostedOne
<1> QED  BY <1>7 DEF decoded, src

LEMMA ResponsesArgumentsPosts ==
  ASSUME NEW b, NEW d, NEW s, Sends("responses", b, d, s), s.phase = "body", s.open = "call", s.calls > 0
  PROVE  Posts("responses", b, DecodeResponses(d, [type |-> "delta", block |-> "args", tool |-> s.calls - 1]), s, <<<<"args", s.calls - 1>>>>)
<1> DEFINE decoded == DecodeResponses(d, [type |-> "delta", block |-> "args", tool |-> s.calls - 1])
           src == s
<1>1. Hears("responses", b, d, s) /\ s \in Sources /\ b \in Answers /\ Settled(b) /\ b.got = <<>>
  BY DEF Sends, Hears, Standing
<1>2. Heard("responses", b, decoded, src, <<<<"args", s.calls - 1>>>>)
  BY <1>1, ResponsesArguments DEF Sends
<1>3. src.signatures = s.signatures
  BY <1>1 DEF Sources
<1>4. b.signed = s.signatures
  BY DEF Sends
<1>5. <<"args", s.calls - 1>> \in Pairs
  BY <1>1 DEF Pairs, Words, Sources, Standing, Hears, Advancing, Sends, Answers
<1> HIDE DEF decoded, src
<1>7. Posts("responses", b, decoded, src, <<<<"args", s.calls - 1>>>>)
  BY <1>1, <1>2, <1>3, <1>4, <1>5, PostedOne
<1> QED  BY <1>7 DEF decoded, src

LEMMA ResponsesSaysPosts ==
  ASSUME NEW b, NEW d, NEW s, Sends("responses", b, d, s), s.phase = "body", s.open # "call", NEW what \in {"text", "refusal", "thinking"}, NEW k
  PROVE  Posts("responses", b, DecodeResponses(d, [type |-> "delta", block |-> what, tool |-> k]), s, <<<<what, 0>>>>)
<1> DEFINE decoded == DecodeResponses(d, [type |-> "delta", block |-> what, tool |-> k])
           src == s
<1>1. Hears("responses", b, d, s) /\ s \in Sources /\ b \in Answers /\ Settled(b) /\ b.got = <<>>
  BY DEF Sends, Hears, Standing
<1>2. Heard("responses", b, decoded, src, <<<<what, 0>>>>)
  BY <1>1, ResponsesSays DEF Sends
<1>3. src.signatures = s.signatures
  BY <1>1 DEF Sources
<1>4. b.signed = s.signatures
  BY DEF Sends
<1>5. <<what, 0>> \in Pairs
  BY <1>1 DEF Pairs, Words, Sources
<1> HIDE DEF decoded, src
<1>7. Posts("responses", b, decoded, src, <<<<what, 0>>>>)
  BY <1>1, <1>2, <1>3, <1>4, <1>5, PostedOne
<1> QED  BY <1>7 DEF decoded, src

LEMMA ResponsesItemDonePosts ==
  ASSUME NEW b, NEW d, NEW s, Sends("responses", b, d, s), s.phase = "body"
  PROVE  Posts("responses", b, DecodeResponses(d, [type |-> "item_done"]), [s EXCEPT !.open = "none"], <<>>)
<1> DEFINE decoded == DecodeResponses(d, [type |-> "item_done"])
           src == [s EXCEPT !.open = "none"]
<1>1. Hears("responses", b, d, s) /\ s \in Sources /\ b \in Answers /\ Settled(b) /\ b.got = <<>>
  BY DEF Sends, Hears, Standing
<1>2. Heard("responses", b, decoded, src, <<>>)
  BY <1>1, ResponsesItemDone DEF Sends
<1>3. src.signatures = s.signatures
  BY <1>1 DEF Sources
<1>4. b.signed = s.signatures
  BY DEF Sends
<1> HIDE DEF decoded, src
<1>7. Posts("responses", b, decoded, src, <<>>)
  BY <1>1, <1>2, <1>3, <1>4, PostedNone
<1> QED  BY <1>7 DEF decoded, src

LEMMA ResponsesCompletedPosts ==
  ASSUME NEW b, NEW d, NEW s, Sends("responses", b, d, s), s.phase = "body", NEW usage \in BOOLEAN
  PROVE  Posts("responses", b, DecodeResponses(d, [type |-> "completed", usage |-> usage]), [s EXCEPT !.phase = "ended", !.usage = usage], <<>>)
<1> DEFINE decoded == DecodeResponses(d, [type |-> "completed", usage |-> usage])
           src == [s EXCEPT !.phase = "ended", !.usage = usage]
<1>1. Hears("responses", b, d, s) /\ s \in Sources /\ b \in Answers /\ Settled(b) /\ b.got = <<>>
  BY DEF Sends, Hears, Standing
<1>2. Heard("responses", b, decoded, src, <<>>)
  BY <1>1, ResponsesCompleted DEF Sends
<1>3. src.signatures = s.signatures
  BY <1>1 DEF Sources
<1>4. b.signed = s.signatures
  BY DEF Sends
<1> HIDE DEF decoded, src
<1>7. Posts("responses", b, decoded, src, <<>>)
  BY <1>1, <1>2, <1>3, <1>4, PostedNone
<1> QED  BY <1>7 DEF decoded, src

LEMMA ResponsesIncompletePosts ==
  ASSUME NEW b, NEW d, NEW s, Sends("responses", b, d, s), s.phase = "body"
  PROVE  Posts("responses", b, DecodeResponses(d, [type |-> "incomplete"]), [s EXCEPT !.phase = "ended", !.usage = TRUE, !.cut = TRUE], <<>>)
<1> DEFINE decoded == DecodeResponses(d, [type |-> "incomplete"])
           src == [s EXCEPT !.phase = "ended", !.usage = TRUE, !.cut = TRUE]
<1>1. Hears("responses", b, d, s) /\ s \in Sources /\ b \in Answers /\ Settled(b) /\ b.got = <<>>
  BY DEF Sends, Hears, Standing
<1>2. Heard("responses", b, decoded, src, <<>>)
  BY <1>1, ResponsesIncomplete DEF Sends
<1>3. src.signatures = s.signatures
  BY <1>1 DEF Sources
<1>4. b.signed = s.signatures
  BY DEF Sends
<1> HIDE DEF decoded, src
<1>7. Posts("responses", b, decoded, src, <<>>)
  BY <1>1, <1>2, <1>3, <1>4, PostedNone
<1> QED  BY <1>7 DEF decoded, src

LEMMA ResponsesRefusedPosts ==
  ASSUME NEW b, NEW d, NEW s, Sends("responses", b, d, s), s.phase \in {"new", "body"}
  PROVE  Posts("responses", b, DecodeResponses(d, [type |-> "failed"]), [s EXCEPT !.phase = "failed"], <<>>)
<1> DEFINE decoded == DecodeResponses(d, [type |-> "failed"])
           src == [s EXCEPT !.phase = "failed"]
<1>1. Hears("responses", b, d, s) /\ s \in Sources /\ b \in Answers /\ Settled(b) /\ b.got = <<>>
  BY DEF Sends, Hears, Standing
<1>2. Heard("responses", b, decoded, src, <<>>)
  BY <1>1, ResponsesRefused DEF Sends
<1>3. src.signatures = s.signatures
  BY <1>1 DEF Sources
<1>4. b.signed = s.signatures
  BY DEF Sends
<1> HIDE DEF decoded, src
<1>7. Posts("responses", b, decoded, src, <<>>)
  BY <1>1, <1>2, <1>3, <1>4, PostedNone
<1> QED  BY <1>7 DEF decoded, src

LEMMA ResponsesDonePosts ==
  ASSUME NEW b, NEW d, NEW s, Sends("responses", b, d, s), s.phase = "ended"
  PROVE  Posts("responses", b, DecodeResponses(d, [type |-> "done", what |-> "done", role |-> FALSE, finish |-> FALSE, usage |-> FALSE]), [s EXCEPT !.phase = "done"], <<>>)
<1> DEFINE decoded == DecodeResponses(d, [type |-> "done", what |-> "done", role |-> FALSE, finish |-> FALSE, usage |-> FALSE])
           src == [s EXCEPT !.phase = "done"]
<1>1. Hears("responses", b, d, s) /\ s \in Sources /\ b \in Answers /\ Settled(b) /\ b.got = <<>>
  BY DEF Sends, Hears, Standing
<1>2. Heard("responses", b, decoded, src, <<>>)
  BY <1>1, ResponsesDone DEF Sends
<1>3. src.signatures = s.signatures
  BY <1>1 DEF Sources
<1>4. b.signed = s.signatures
  BY DEF Sends
<1> HIDE DEF decoded, src
<1>7. Posts("responses", b, decoded, src, <<>>)
  BY <1>1, <1>2, <1>3, <1>4, PostedNone
<1> QED  BY <1>7 DEF decoded, src

LEMMA ChatRolePosts ==
  ASSUME NEW b, NEW d, NEW s, Sends("chat", b, d, s), s.phase = "new"
  PROVE  Posts("chat", b, DecodeChat(d, [ChatChunk("none", 0) EXCEPT !.role = TRUE]), [s EXCEPT !.phase = "body"], <<>>)
<1> DEFINE decoded == DecodeChat(d, [ChatChunk("none", 0) EXCEPT !.role = TRUE])
           src == [s EXCEPT !.phase = "body"]
<1>1. Hears("chat", b, d, s) /\ s \in Sources /\ b \in Answers /\ Settled(b) /\ b.got = <<>>
  BY DEF Sends, Hears, Standing
<1>2. Heard("chat", b, decoded, src, <<>>) /\ Resuming(Took(b, decoded.events), "body", s.last, s.interleaved, s.calls)
  BY <1>1, ChatRole DEF Sends
<1>3. src.signatures = s.signatures /\ src.phase = "body" /\ src.last = s.last /\ src.interleaved = (s.interleaved) /\ src.calls = s.calls
  BY <1>1 DEF Sources
<1>4. b.signed = s.signatures
  BY DEF Sends
<1> HIDE DEF decoded, src
<1>6. Resuming(Took(b, decoded.events), src.phase, src.last, src.interleaved, src.calls)
  BY <1>2, <1>3
<1>7. Posts("chat", b, decoded, src, <<>>)
  BY <1>1, <1>2, <1>3, <1>4, <1>6, PostedNone
<1> QED  BY <1>7 DEF decoded, src

LEMMA ChatRoleTextPosts ==
  ASSUME NEW b, NEW d, NEW s, Sends("chat", b, d, s), s.phase = "new"
  PROVE  Posts("chat", b, DecodeChat(d, [ChatChunk("text", 0) EXCEPT !.role = TRUE]), [s EXCEPT !.phase = "body"], <<<<"text", 0>>>>)
<1> DEFINE decoded == DecodeChat(d, [ChatChunk("text", 0) EXCEPT !.role = TRUE])
           src == [s EXCEPT !.phase = "body"]
<1>1. Hears("chat", b, d, s) /\ s \in Sources /\ b \in Answers /\ Settled(b) /\ b.got = <<>>
  BY DEF Sends, Hears, Standing
<1>2. Heard("chat", b, decoded, src, <<<<"text", 0>>>>) /\ Resuming(Took(b, decoded.events), "body", <<"text", 0>>, s.interleaved, s.calls)
  BY <1>1, ChatRoleText DEF Sends
<1>3. src.signatures = s.signatures /\ src.phase = "body" /\ src.last = s.last /\ src.interleaved = (s.interleaved) /\ src.calls = s.calls
  BY <1>1 DEF Sources
<1>4. b.signed = s.signatures
  BY DEF Sends
<1>5. <<"text", 0>> \in Pairs
  BY <1>1 DEF Pairs, Words, Sources
<1> HIDE DEF decoded, src
<1>6. Resuming(Took(b, decoded.events), src.phase, <<"text", 0>>, src.interleaved, src.calls)
  BY <1>2, <1>3
<1>7. Posts("chat", b, decoded, src, <<<<"text", 0>>>>)
  BY <1>1, <1>2, <1>3, <1>4, <1>5, <1>6, PostedOne
<1> QED  BY <1>7 DEF decoded, src

LEMMA ChatTextPosts ==
  ASSUME NEW b, NEW d, NEW s, Sends("chat", b, d, s), s.phase = "body", NEW what \in {"text", "refusal", "thinking", "signature"}
  PROVE  Posts("chat", b, DecodeChat(d, ChatChunk(what, 0)), s, <<<<what, 0>>>>)
<1> DEFINE decoded == DecodeChat(d, ChatChunk(what, 0))
           src == s
<1>1. Hears("chat", b, d, s) /\ s \in Sources /\ b \in Answers /\ Settled(b) /\ b.got = <<>>
  BY DEF Sends, Hears, Standing
<1>2. Heard("chat", b, decoded, src, <<<<what, 0>>>>) /\ Resuming(Took(b, decoded.events), s.phase, <<what, 0>>, s.interleaved, s.calls)
  BY <1>1, ChatText DEF Sends
<1>3. src.signatures = s.signatures /\ src.phase = s.phase /\ src.last = s.last /\ src.interleaved = (s.interleaved) /\ src.calls = s.calls
  BY <1>1 DEF Sources
<1>4. b.signed = s.signatures
  BY DEF Sends
<1>5. <<what, 0>> \in Pairs
  BY <1>1 DEF Pairs, Words, Sources
<1> HIDE DEF decoded, src
<1>6. Resuming(Took(b, decoded.events), src.phase, <<what, 0>>, src.interleaved, src.calls)
  BY <1>2, <1>3
<1>7. Posts("chat", b, decoded, src, <<<<what, 0>>>>)
  BY <1>1, <1>2, <1>3, <1>4, <1>5, <1>6, PostedOne
<1> QED  BY <1>7 DEF decoded, src

LEMMA ChatCallPosts ==
  ASSUME NEW b, NEW d, NEW s, Sends("chat", b, d, s), s.phase = "body"
  PROVE  Posts("chat", b, DecodeChat(d, ChatChunk("toolstart", s.calls)), [s EXCEPT !.calls = s.calls + 1], <<<<"call", s.calls>>>>)
<1> DEFINE decoded == DecodeChat(d, ChatChunk("toolstart", s.calls))
           src == [s EXCEPT !.calls = s.calls + 1]
<1>1. Hears("chat", b, d, s) /\ s \in Sources /\ b \in Answers /\ Settled(b) /\ b.got = <<>>
  BY DEF Sends, Hears, Standing
<1>2. Heard("chat", b, decoded, src, <<<<"call", s.calls>>>>) /\ Resuming(Took(b, decoded.events), s.phase, <<"call", s.calls>>, s.interleaved, s.calls + 1)
  BY <1>1, ChatCall DEF Sends
<1>3. src.signatures = s.signatures /\ src.phase = s.phase /\ src.last = s.last /\ src.interleaved = (s.interleaved) /\ src.calls = s.calls + 1
  BY <1>1 DEF Sources
<1>4. b.signed = s.signatures
  BY DEF Sends
<1>5. <<"call", s.calls>> \in Pairs
  BY <1>1 DEF Pairs, Words, Sources
<1> HIDE DEF decoded, src
<1>6. Resuming(Took(b, decoded.events), src.phase, <<"call", s.calls>>, src.interleaved, src.calls)
  BY <1>2, <1>3
<1>7. Posts("chat", b, decoded, src, <<<<"call", s.calls>>>>)
  BY <1>1, <1>2, <1>3, <1>4, <1>5, <1>6, PostedOne
<1> QED  BY <1>7 DEF decoded, src

LEMMA ChatArgumentsPosts ==
  ASSUME NEW b, NEW d, NEW s, Sends("chat", b, d, s), s.phase = "body", NEW n \in 0..(s.calls - 1), NEW w, w = (s.interleaved \/ (s.last \notin {<<"call", n>>, <<"args", n>>}))
  PROVE  Posts("chat", b, DecodeChat(d, ChatChunk("toolargs", n)), [s EXCEPT !.interleaved = w], <<<<"args", n>>>>)
<1> DEFINE decoded == DecodeChat(d, ChatChunk("toolargs", n))
           src == [s EXCEPT !.interleaved = w]
<1>1. Hears("chat", b, d, s) /\ s \in Sources /\ b \in Answers /\ Settled(b) /\ b.got = <<>>
  BY DEF Sends, Hears, Standing
<1>2. Heard("chat", b, decoded, src, <<<<"args", n>>>>) /\ Resuming(Took(b, decoded.events), s.phase, <<"args", n>>, w, s.calls)
  BY <1>1, ChatArguments DEF Sends
<1>3. src.signatures = s.signatures /\ src.phase = s.phase /\ src.last = s.last /\ src.interleaved = (w) /\ src.calls = s.calls
  BY <1>1 DEF Sources
<1>4. b.signed = s.signatures
  BY DEF Sends
<1>5. <<"args", n>> \in Pairs
  BY <1>1 DEF Pairs, Words, Sources
<1> HIDE DEF decoded, src
<1>6. Resuming(Took(b, decoded.events), src.phase, <<"args", n>>, src.interleaved, src.calls)
  BY <1>2, <1>3
<1>7. Posts("chat", b, decoded, src, <<<<"args", n>>>>)
  BY <1>1, <1>2, <1>3, <1>4, <1>5, <1>6, PostedOne
<1> QED  BY <1>7 DEF decoded, src

LEMMA ChatFinishPosts ==
  ASSUME NEW b, NEW d, NEW s, Sends("chat", b, d, s), s.phase = "body", NEW usage \in BOOLEAN
  PROVE  Posts("chat", b, DecodeChat(d, [ChatChunk("none", 0) EXCEPT !.finish = TRUE, !.usage = usage]), [s EXCEPT !.phase = (IF usage THEN "ended" ELSE "finished"), !.usage = usage], <<>>)
<1> DEFINE decoded == DecodeChat(d, [ChatChunk("none", 0) EXCEPT !.finish = TRUE, !.usage = usage])
           src == [s EXCEPT !.phase = (IF usage THEN "ended" ELSE "finished"), !.usage = usage]
<1>1. Hears("chat", b, d, s) /\ s \in Sources /\ b \in Answers /\ Settled(b) /\ b.got = <<>>
  BY DEF Sends, Hears, Standing
<1>2. Heard("chat", b, decoded, src, <<>>)
  BY <1>1, ChatFinish DEF Sends
<1>3. src.signatures = s.signatures /\ src.phase \notin {"new", "body"}
  BY <1>1 DEF Sources
<1>4. b.signed = s.signatures
  BY DEF Sends
<1> HIDE DEF decoded, src
<1>6. Resuming(Took(b, decoded.events), src.phase, src.last, src.interleaved, src.calls)
  BY <1>2, <1>3, ResumesNot
<1>7. Posts("chat", b, decoded, src, <<>>)
  BY <1>1, <1>2, <1>3, <1>4, <1>6, PostedNone
<1> QED  BY <1>7 DEF decoded, src

LEMMA ChatUsagePosts ==
  ASSUME NEW b, NEW d, NEW s, Sends("chat", b, d, s), s.phase = "finished"
  PROVE  Posts("chat", b, DecodeChat(d, [ChatChunk("none", 0) EXCEPT !.usage = TRUE]), [s EXCEPT !.phase = "ended", !.usage = TRUE], <<>>)
<1> DEFINE decoded == DecodeChat(d, [ChatChunk("none", 0) EXCEPT !.usage = TRUE])
           src == [s EXCEPT !.phase = "ended", !.usage = TRUE]
<1>1. Hears("chat", b, d, s) /\ s \in Sources /\ b \in Answers /\ Settled(b) /\ b.got = <<>>
  BY DEF Sends, Hears, Standing
<1>2. Heard("chat", b, decoded, src, <<>>)
  BY <1>1, ChatUsage DEF Sends
<1>3. src.signatures = s.signatures /\ src.phase \notin {"new", "body"}
  BY <1>1 DEF Sources
<1>4. b.signed = s.signatures
  BY DEF Sends
<1> HIDE DEF decoded, src
<1>6. Resuming(Took(b, decoded.events), src.phase, src.last, src.interleaved, src.calls)
  BY <1>2, <1>3, ResumesNot
<1>7. Posts("chat", b, decoded, src, <<>>)
  BY <1>1, <1>2, <1>3, <1>4, <1>6, PostedNone
<1> QED  BY <1>7 DEF decoded, src

LEMMA ChatDonePosts ==
  ASSUME NEW b, NEW d, NEW s, Sends("chat", b, d, s), s.phase \in {"finished", "ended"}
  PROVE  Posts("chat", b, DecodeChat(d, [type |-> "done", what |-> "done", role |-> FALSE, finish |-> FALSE, usage |-> FALSE]), [s EXCEPT !.phase = "done"], <<>>)
<1> DEFINE decoded == DecodeChat(d, [type |-> "done", what |-> "done", role |-> FALSE, finish |-> FALSE, usage |-> FALSE])
           src == [s EXCEPT !.phase = "done"]
<1>1. Hears("chat", b, d, s) /\ s \in Sources /\ b \in Answers /\ Settled(b) /\ b.got = <<>>
  BY DEF Sends, Hears, Standing
<1>2. Heard("chat", b, decoded, src, <<>>)
  BY <1>1, ChatDone DEF Sends
<1>3. src.signatures = s.signatures /\ src.phase \notin {"new", "body"}
  BY <1>1 DEF Sources
<1>4. b.signed = s.signatures
  BY DEF Sends
<1> HIDE DEF decoded, src
<1>6. Resuming(Took(b, decoded.events), src.phase, src.last, src.interleaved, src.calls)
  BY <1>2, <1>3, ResumesNot
<1>7. Posts("chat", b, decoded, src, <<>>)
  BY <1>1, <1>2, <1>3, <1>4, <1>6, PostedNone
<1> QED  BY <1>7 DEF decoded, src

LEMMA GeminiPartedPosts ==
  ASSUME NEW b, NEW d, NEW s, Sends("gemini", b, d, s), s.phase \in {"new", "body"},
         NEW parts \in SeqOf(GeminiParts, 2), NEW finish \in BOOLEAN, NEW usage \in BOOLEAN, parts # <<>>,
         NEW sent, sent = FoldLeft(PieceOf, [calls |-> s.calls, pieces |-> <<>>], parts)
  PROVE  Posts("gemini", b, DecodeGemini(d, GeminiChunk(parts, finish, usage)),
               GeminiGoes(s, parts, finish, usage, sent.calls), sent.pieces)
<1> DEFINE decoded == DecodeGemini(d, GeminiChunk(parts, finish, usage))
           src == GeminiGoes(s, parts, finish, usage, sent.calls)
           pieces == sent.pieces
<1>1. Hears("gemini", b, d, s) /\ s \in Sources /\ b \in Answers /\ Settled(b) /\ b.got = <<>>
  BY DEF Sends, Hears, Standing
<1>2. Heard("gemini", b, decoded, src, pieces) /\ (~Doubled(parts) => Single(pieces))
  BY <1>1, GeminiParted
<1>3. src.signatures = s.signatures /\ (src.doubled <=> s.doubled \/ Doubled(parts))
  BY <1>1 DEF Sources, GeminiGoes
<1>4. b.signed = s.signatures
  BY DEF Sends
<1> HIDE DEF decoded, src, pieces
<1>5. Posts("gemini", b, decoded, src, pieces)
  BY <1>1, <1>2, <1>3, <1>4, PostedAgrees
<1> QED  BY <1>5 DEF decoded, src, pieces

LEMMA GeminiBarePosts ==
  ASSUME NEW b, NEW d, NEW s, Sends("gemini", b, d, s), s.phase \in {"new", "body"}, NEW usage \in BOOLEAN,
         NEW none, none = <<>>
  PROVE  Posts("gemini", b, DecodeGemini(d, GeminiChunk(none, TRUE, usage)), GeminiGoes(s, none, TRUE, usage, s.calls), none)
<1> DEFINE decoded == DecodeGemini(d, GeminiChunk(none, TRUE, usage))
           src == GeminiGoes(s, none, TRUE, usage, s.calls)
<1>1. Hears("gemini", b, d, s) /\ s \in Sources /\ b \in Answers /\ Settled(b) /\ b.got = <<>>
  BY DEF Sends, Hears, Standing
<1>2. Heard("gemini", b, decoded, src, none)
  BY <1>1, GeminiBare
<1>3. src.signatures = s.signatures
  BY <1>1 DEF Sources, GeminiGoes
<1>4. b.signed = s.signatures
  BY DEF Sends
<1> HIDE DEF decoded, src
<1>5. Posts("gemini", b, decoded, src, none)
  BY <1>1, <1>2, <1>3, <1>4, PostedNone
<1> QED  BY <1>5 DEF decoded, src

LEMMA GeminiUsagePosts ==
  ASSUME NEW b, NEW d, NEW s, Sends("gemini", b, d, s), s.phase = "finished", NEW none, none = <<>>
  PROVE  Posts("gemini", b, DecodeGemini(d, [parts |-> none, finish |-> FALSE, usage |-> TRUE, blocked |-> FALSE]),
               [s EXCEPT !.phase = "ended", !.usage = TRUE], none)
<1> DEFINE decoded == DecodeGemini(d, [parts |-> none, finish |-> FALSE, usage |-> TRUE, blocked |-> FALSE])
           src == [s EXCEPT !.phase = "ended", !.usage = TRUE]
<1>1. Hears("gemini", b, d, s) /\ s \in Sources /\ b \in Answers /\ Settled(b) /\ b.got = <<>>
  BY DEF Sends, Hears, Standing
<1>2. Heard("gemini", b, decoded, src, none)
  BY <1>1, GeminiUsage
<1>3. src.signatures = s.signatures
  BY <1>1 DEF Sources
<1>4. b.signed = s.signatures
  BY DEF Sends
<1> HIDE DEF decoded, src
<1>5. Posts("gemini", b, decoded, src, none)
  BY <1>1, <1>2, <1>3, <1>4, PostedNone
<1> QED  BY <1>5 DEF decoded, src

LEMMA GeminiBlockedPosts ==
  ASSUME NEW b, NEW d, NEW s, Sends("gemini", b, d, s), s.phase = "new", NEW none, none = <<>>
  PROVE  Posts("gemini", b, DecodeGemini(d, [parts |-> none, finish |-> FALSE, usage |-> TRUE, blocked |-> TRUE]),
               [s EXCEPT !.phase = "ended", !.usage = TRUE, !.blocked = TRUE], none)
<1> DEFINE decoded == DecodeGemini(d, [parts |-> none, finish |-> FALSE, usage |-> TRUE, blocked |-> TRUE])
           src == [s EXCEPT !.phase = "ended", !.usage = TRUE, !.blocked = TRUE]
<1>1. Hears("gemini", b, d, s) /\ s \in Sources /\ b \in Answers /\ Settled(b) /\ b.got = <<>>
  BY DEF Sends, Hears, Standing
<1>2. Heard("gemini", b, decoded, src, none)
  BY <1>1, GeminiBlocked
<1>3. src.signatures = s.signatures
  BY <1>1 DEF Sources
<1>4. b.signed = s.signatures
  BY DEF Sends
<1> HIDE DEF decoded, src
<1>5. Posts("gemini", b, decoded, src, none)
  BY <1>1, <1>2, <1>3, <1>4, PostedNone
<1> QED  BY <1>5 DEF decoded, src

LEMMA CallsOpen ==
  ASSUME NEW up \in {"anthropic", "responses"}, NEW b, NEW d, NEW s, Sends(up, b, d, s), s.phase = "body", s.open = "call"
  PROVE  s.calls > 0
<1>1. Standing(up, b, d, s) /\ ~b.failed
  BY DEF Sends, Hears
<1>2. Advancing(up, b, d, s) /\ b.told = s.calls
  BY <1>1 DEF Standing
<1>3. b.told > 0
  BY <1>2 DEF Advancing
<1> QED  BY <1>2, <1>3

(* ---- the invariant ---- *)

Translated(up, d, e) ==
  CASE up = "anthropic" -> DecodeAnthropic(d, e)
    [] up = "responses" -> DecodeResponses(d, e)
    [] up = "gemini" -> DecodeGemini(d, e)
    [] up = "chat" -> DecodeChat(d, e)
Blank(v) == [v EXCEPT !.got = <<>>]
Room(up, client) ==
  CASE client = "messages" -> MessagesKinds
    [] client = "responses" /\ up = "responses" -> {"text", "refusal", "thinking", "call"}
    [] OTHER -> {"text", "refusal", "thinking", "call", "args"}

\* The encoder and the client's view stand for the answer.
Tied(up, client, m, v, a) ==
  /\ client = "messages" => MessagesTied(m, v, a) /\ m.out = <<>>
  /\ client = "responses" => ResponsesTied(m, v, a, Room(up, client)) /\ m.out = <<>>
  /\ client = "chat" => ChatTied(v, a)

\* Between two events the client has the answer; with one on the wire, it has all but that.
Resting(up, client, d, s, m, v, sent, a) ==
  a \in Answers /\ Settled(a) /\ Agrees(up, a, d, s, sent) /\ Tied(up, client, m, v, a)
Waiting(up, client, e, d, s, m, v, sent, b) ==
  /\ b \in Answers /\ Settled(b) /\ b.got = <<>> /\ ~b.failed /\ b.legal
  /\ Tied(up, client, m, Blank(v), b)
  /\ Proper(up, Translated(up, d, e).events)
  /\ Agrees(up, Took(b, Translated(up, d, e).events), Translated(up, d, e).fields, s, sent)

\* The answer that the decoded events told is where the provider is, and the client has it:
\* all of it, or all but the event on the wire.
StreamInv ==
  /\ stUp \in {"anthropic", "responses", "gemini", "chat"} /\ stClient \in {"messages", "responses", "chat"}
  /\ stView \in Views
  /\ stWire = <<>> => \E a : Resting(stUp, stClient, stDecoder, stSource, stEncoder, stView, stSent, a)
  /\ stWire # <<>> => \E b : Waiting(stUp, stClient, stWire[1], stDecoder, stSource, stEncoder, stView, stSent, b)

LEMMA TiedFresh ==
  ASSUME NEW up, NEW client, NEW m, NEW v, NEW a \in Answers, Tied(up, client, m, v, a), NEW b, b = [a EXCEPT !.got = <<>>]
  PROVE  Tied(up, client, m, Blank(v), b)
<1>1. client = "messages" => MessagesTied(m, Blank(v), b)
  BY MessagesFresh DEF Tied, Blank
<1>2. client = "responses" => ResponsesTied(m, Blank(v), b, Room(up, client))
  BY ResponsesFresh DEF Tied, Blank
<1>3. client = "chat" => ChatTied(Blank(v), b)
  BY ChatFresh DEF Tied, Blank
<1> QED  BY <1>1, <1>2, <1>3 DEF Tied

LEMMA AgreesFresh ==
  ASSUME NEW up, NEW d, NEW s, NEW sent, NEW a \in Answers, Settled(a), Agrees(up, a, d, s, sent), s.phase # "failed",
         NEW b, b = [a EXCEPT !.got = <<>>]
  PROVE  Sends(up, b, d, s)
<1> DEFINE none == <<>>
<1>1. b \in Answers /\ b.got = <<>> /\ Settled(b) /\ b.failed = a.failed
  BY AnswerFresh
<1>2. b = [a EXCEPT !.got = none]
  OBVIOUS
<1> HIDE DEF none
<1>3. /\ b.told = a.told /\ b.hot = a.hot /\ b.begun = a.begun /\ b.finished = a.finished /\ b.usage = a.usage
      /\ b.failed = a.failed /\ b.strayed = a.strayed /\ b.bare = a.bare /\ b.legal = a.legal /\ b.signed = a.signed
  BY <1>2 DEF Answers
<1>4. Standing(up, a, d, s) /\ (up = "chat" => Resumes(a, s)) /\ a.signed = s.signatures
  BY DEF Agrees
<1>5. Advancing(up, a, d, s) => Advancing(up, b, d, s)
  BY <1>3 DEF Advancing
<1>6. Standing(up, b, d, s) /\ ~b.failed
  BY <1>3, <1>4, <1>5 DEF Standing
<1>7. Resumes(a, s) => Resumes(b, s)
  BY <1>3 DEF Resumes, Resuming
<1> QED  BY <1>1, <1>3, <1>4, <1>6, <1>7 DEF Sends, Hears

\* A provider sends its next event.
LEMMA SendStep ==
  ASSUME NEW e, NEW source, NEW pieces, Send(e, source, pieces), StreamInv, stSource.phase # "failed",
         \A b : Sends(stUp, b, stDecoder, stSource) => Posts(stUp, b, Translated(stUp, stDecoder, e), source, pieces)
  PROVE  StreamInv'
<1>1. /\ stWire = <<>> /\ stWire' # <<>> /\ stWire'[1] = e
      /\ stUp' = stUp /\ stClient' = stClient /\ stDecoder' = stDecoder /\ stEncoder' = stEncoder /\ stView' = stView
      /\ stSent' = pieces
  BY DEF Send
<1>2. stSource' = Posted(source, pieces)
  BY DEF Send, Posted, LastOf
<1>3. PICK a : Resting(stUp, stClient, stDecoder, stSource, stEncoder, stView, stSent, a)
  BY <1>1 DEF StreamInv
<1> DEFINE b == [a EXCEPT !.got = <<>>]
           decoded == Translated(stUp, stDecoder, e)
<1>4. a \in Answers /\ Settled(a) /\ Agrees(stUp, a, stDecoder, stSource, stSent) /\ Tied(stUp, stClient, stEncoder, stView, a)
  BY <1>3 DEF Resting
<1>5. Sends(stUp, b, stDecoder, stSource)
  BY <1>4, AgreesFresh
<1>6. Tied(stUp, stClient, stEncoder, Blank(stView), b)
  BY <1>4, TiedFresh
<1> HIDE DEF b
<1>7. Posts(stUp, b, decoded, source, pieces)
  BY <1>5
<1>8. b \in Answers /\ Settled(b) /\ b.got = <<>> /\ ~b.failed /\ b.legal
  BY <1>5 DEF Sends, Hears, Standing
<1>9. Waiting(stUp, stClient, e, stDecoder, Posted(source, pieces), stEncoder, stView, pieces, b)
  BY <1>6, <1>7, <1>8 DEF Waiting, Posts
<1>10. Waiting(stUp', stClient', stWire'[1], stDecoder', stSource', stEncoder', stView', stSent', b)
  BY <1>1, <1>2, <1>9
<1> QED  BY <1>1, <1>10 DEF StreamInv

LEMMA MessagesTaken ==
  ASSUME NEW up, NEW e, NEW d, NEW s, NEW m, NEW v, NEW sent, NEW b, Waiting(up, "messages", e, d, s, m, v, sent, b),
         NEW encoded, encoded = FoldLeft(EncodeMessages, m, Translated(up, d, e).events),
         NEW u, u = FoldLeft(ReadMessages, Blank(v), encoded.out)
  PROVE  /\ Resting(up, "messages", Translated(up, d, e).fields, s, [encoded EXCEPT !.out = <<>>], u, sent,
                    Took(b, Translated(up, d, e).events))
         /\ u \in Views
<1> DEFINE events == Translated(up, d, e).events
           a == Took(b, events)
           q == [encoded EXCEPT !.out = <<>>]
<1>1. b \in Answers /\ Settled(b) /\ MessagesTied(m, Blank(v), b) /\ events \in Seq(Occurrences)
  BY DEF Waiting, Tied, Proper
<1>2. Agrees(up, a, Translated(up, d, e).fields, s, sent)
  BY DEF Waiting
<1>3. a.legal
  BY <1>2 DEF Agrees, Standing
<1> HIDE DEF events
<1>4. MessagesTied(encoded, Blank(v), a) /\ a \in Answers /\ Settled(a)
  BY <1>1, <1>3, MessagesRun DEF events
<1>5. u = MessagesSeen(encoded, Blank(v))
  BY DEF MessagesSeen
<1> HIDE DEF a
<1>6. MessagesTied(q, u, a)
  BY <1>4, <1>5, MessagesRest
<1>7. u \in Views /\ encoded \in MessageEncoders
  BY <1>4, <1>5 DEF MessagesTied
<1>8. q.out = <<>>
  BY <1>7 DEF MessageEncoders
<1> HIDE DEF q
<1>9. Tied(up, "messages", q, u, a)
  BY <1>6, <1>8 DEF Tied
<1>10. Resting(up, "messages", Translated(up, d, e).fields, s, q, u, sent, a)
  BY <1>2, <1>4, <1>9 DEF Resting
<1> QED  BY <1>7, <1>10 DEF q, a, events

LEMMA ResponsesTaken ==
  ASSUME NEW up, NEW e, NEW d, NEW s, NEW m, NEW v, NEW sent, NEW b, Waiting(up, "responses", e, d, s, m, v, sent, b),
         NEW encoded, encoded = FoldLeft(EncodeResponses, m, Translated(up, d, e).events),
         NEW u, u = FoldLeft(ReadResponses, Blank(v), encoded.out)
  PROVE  /\ Resting(up, "responses", Translated(up, d, e).fields, s, [encoded EXCEPT !.out = <<>>], u, sent,
                    Took(b, Translated(up, d, e).events))
         /\ u \in Views
<1> DEFINE events == Translated(up, d, e).events
           a == Took(b, events)
           q == [encoded EXCEPT !.out = <<>>]
           k == Room(up, "responses")
<1>1. b \in Answers /\ Settled(b) /\ ResponsesTied(m, Blank(v), b, k) /\ events \in Seq(Occurrences)
  BY DEF Waiting, Tied, Proper
<1>2. Agrees(up, a, Translated(up, d, e).fields, s, sent)
  BY DEF Waiting
<1>3. a.legal
  BY <1>2 DEF Agrees, Standing
<1>4. \A i \in 1..Len(events) : Fit(up, events[i])
  BY DEF Waiting, Proper
<1>5. ResponsesKinds(k)
  BY DEF Room, ResponsesKinds
<1>6. \A x : Fit(up, x) => Suits(x, k)
  BY DEF Fit, Suits, Room
<1> HIDE DEF events, k
<1>7. \A i \in 1..Len(events) : Suits(events[i], k)
  BY <1>4, <1>6
<1>8. ResponsesTied(encoded, Blank(v), a, k) /\ a \in Answers /\ Settled(a)
  BY <1>1, <1>3, <1>5, <1>7, ResponsesRun DEF events
<1>9. u = ResponsesSeen(encoded, Blank(v))
  BY DEF ResponsesSeen
<1> HIDE DEF a
<1>10. ResponsesTied(q, u, a, k)
  BY <1>8, <1>9, ResponsesRest
<1>11. u \in Views /\ encoded \in ResponsesEncoders
  BY <1>8, <1>9 DEF ResponsesTied
<1>12. q.out = <<>>
  BY <1>11 DEF ResponsesEncoders
<1> HIDE DEF q
<1>13. Tied(up, "responses", q, u, a)
  BY <1>10, <1>12 DEF Tied, k
<1>14. Resting(up, "responses", Translated(up, d, e).fields, s, q, u, sent, a)
  BY <1>2, <1>8, <1>13 DEF Resting
<1> QED  BY <1>11, <1>14 DEF q, a, events

LEMMA ChatTaken ==
  ASSUME NEW up, NEW e, NEW d, NEW s, NEW m, NEW v \in Views, NEW sent, NEW b, Waiting(up, "chat", e, d, s, m, v, sent, b), NEW q,
         NEW u, u = FoldLeft(ReadChat, Blank(v), EncodeChat(Translated(up, d, e).events))
  PROVE  /\ Resting(up, "chat", Translated(up, d, e).fields, s, q, u, sent, Took(b, Translated(up, d, e).events))
         /\ u \in Views
<1> DEFINE events == Translated(up, d, e).events
           a == Took(b, events)
           blank == Blank(v)
<1>1. b \in Answers /\ Settled(b) /\ b.got = <<>> /\ ~b.failed /\ b.legal /\ ChatTied(blank, b)
  BY DEF Waiting, Tied
<1>2. Agrees(up, a, Translated(up, d, e).fields, s, sent)
  BY DEF Waiting
<1>3. a.legal
  BY <1>2 DEF Agrees, Standing
<1>4. blank \in Views /\ blank.got = <<>>
  <2> DEFINE none == <<>>
  <2>1. none \in Seq(Pairs) /\ blank = [v EXCEPT !.got = none]
    BY DEF Blank
  <2> HIDE DEF none, blank
  <2>2. blank \in Views /\ blank.got = none
    BY <2>1 DEF Views
  <2> QED  BY <2>2 DEF none
<1>5. /\ events \in Seq(Occurrences)
      /\ (\E i \in 1..Len(events) : events[i].kind = "done") => events = <<Event("done")>>
  BY DEF Waiting, Proper
<1>6. u = FoldLeft(ReadChat, blank, EncodeChat(events))
  OBVIOUS
<1> HIDE DEF events, blank
<1>7. ChatTied(u, a) /\ a \in Answers /\ Settled(a)
  BY <1>1, <1>3, <1>4, <1>5, <1>6, ChatRun
<1> HIDE DEF a
<1>8. u \in Views
  BY <1>7 DEF ChatTied
<1>9. Tied(up, "chat", q, u, a)
  BY <1>7 DEF Tied
<1>10. Resting(up, "chat", Translated(up, d, e).fields, s, q, u, sent, a)
  BY <1>2, <1>7, <1>9 DEF Resting
<1> QED  BY <1>8, <1>10 DEF a, events

LEMMA DeliverStep ==
  ASSUME StreamInv, stWire # <<>>, NEW fields, NEW encoded, NEW view, NEW a, view \in Views, Deliver(fields, encoded, view),
         Resting(stUp, stClient, fields, stSource, [encoded EXCEPT !.out = <<>>], view, stSent, a)
  PROVE  StreamInv'
<1>1. /\ stWire' = <<>> /\ stUp' = stUp /\ stClient' = stClient /\ stSource' = stSource /\ stSent' = stSent
      /\ stDecoder' = fields /\ stView' = view /\ stEncoder' = [encoded EXCEPT !.out = <<>>]
  BY DEF Deliver
<1>2. Resting(stUp', stClient', stDecoder', stSource', stEncoder', stView', stSent', a)
  BY <1>1
<1> QED  BY <1>1, <1>2 DEF StreamInv

\* The event on the wire is decoded and encoded, and the client reads what that writes.
LEMMA Delivers == ASSUME StreamInv, StToMessages \/ StToResponses \/ StToChat PROVE StreamInv'
<1> DEFINE e == stWire[1]
           decoded == Translated(stUp, stDecoder, e)
<1>1. stWire # <<>> /\ stView \in Views
  BY DEF StToMessages, StToResponses, StToChat, StreamInv
<1>2. Decode(e) = decoded /\ View = Blank(stView)
  BY DEF Decode, Translated, View, Blank
<1>3. PICK b : Waiting(stUp, stClient, e, stDecoder, stSource, stEncoder, stView, stSent, b)
  BY <1>1 DEF StreamInv
<1> DEFINE a == Took(b, decoded.events)
<1> HIDE DEF e
<1>4. CASE StToMessages
  <2> DEFINE encoded == FoldLeft(EncodeMessages, stEncoder, decoded.events)
             view == FoldLeft(ReadMessages, Blank(stView), encoded.out)
  <2>1. stClient = "messages" /\ Deliver(decoded.fields, encoded, view)
    BY <1>2, <1>4 DEF StToMessages, e
  <2>2. Waiting(stUp, "messages", e, stDecoder, stSource, stEncoder, stView, stSent, b)
    BY <1>3, <2>1
  <2>3. encoded = FoldLeft(EncodeMessages, stEncoder, Translated(stUp, stDecoder, e).events)
    OBVIOUS
  <2>4. view = FoldLeft(ReadMessages, Blank(stView), encoded.out)
    OBVIOUS
  <2> HIDE DEF encoded, view
  <2>5. Resting(stUp, "messages", decoded.fields, stSource, [encoded EXCEPT !.out = <<>>], view, stSent, a) /\ view \in Views
    BY <2>2, <2>3, <2>4, MessagesTaken
  <2> HIDE DEF a, decoded
  <2> QED  BY <1>1, <2>1, <2>5, DeliverStep
<1>5. CASE StToResponses
  <2> DEFINE encoded == FoldLeft(EncodeResponses, stEncoder, decoded.events)
             view == FoldLeft(ReadResponses, Blank(stView), encoded.out)
  <2>1. stClient = "responses" /\ Deliver(decoded.fields, encoded, view)
    BY <1>2, <1>5 DEF StToResponses, e
  <2>2. Waiting(stUp, "responses", e, stDecoder, stSource, stEncoder, stView, stSent, b)
    BY <1>3, <2>1
  <2>3. encoded = FoldLeft(EncodeResponses, stEncoder, Translated(stUp, stDecoder, e).events)
    OBVIOUS
  <2>4. view = FoldLeft(ReadResponses, Blank(stView), encoded.out)
    OBVIOUS
  <2> HIDE DEF encoded, view
  <2>5. Resting(stUp, "responses", decoded.fields, stSource, [encoded EXCEPT !.out = <<>>], view, stSent, a) /\ view \in Views
    BY <2>2, <2>3, <2>4, ResponsesTaken
  <2> HIDE DEF a, decoded
  <2> QED  BY <1>1, <2>1, <2>5, DeliverStep
<1>6. CASE StToChat
  <2> DEFINE encoded == stEncoder
             view == FoldLeft(ReadChat, Blank(stView), EncodeChat(decoded.events))
             q == [encoded EXCEPT !.out = <<>>]
  <2>1. stClient = "chat" /\ Deliver(decoded.fields, encoded, view)
    BY <1>2, <1>6 DEF StToChat, e
  <2>2. Waiting(stUp, "chat", e, stDecoder, stSource, stEncoder, stView, stSent, b)
    BY <1>3, <2>1
  <2>3. view = FoldLeft(ReadChat, Blank(stView), EncodeChat(Translated(stUp, stDecoder, e).events))
    OBVIOUS
  <2> HIDE DEF encoded, view, q
  <2>4. Resting(stUp, "chat", decoded.fields, stSource, q, view, stSent, a) /\ view \in Views
    BY <1>1, <2>2, <2>3, ChatTaken
  <2> HIDE DEF a, decoded
  <2>5. Resting(stUp, stClient, decoded.fields, stSource, [encoded EXCEPT !.out = <<>>], view, stSent, a)
    BY <2>1, <2>4 DEF q
  <2> QED  BY <1>1, <2>1, <2>4, <2>5, DeliverStep
<1> QED  BY <1>4, <1>5, <1>6

LEMMA AnthropicSteps == ASSUME StreamInv, StAnthropic PROVE StreamInv'
<1> DEFINE s == stSource
           d == stDecoder
<1>1. stUp = "anthropic" /\ \A e : Translated(stUp, d, e) = DecodeAnthropic(d, e)
  BY DEF StAnthropic, Translated
<1> DEFINE Accounts(e, source, pieces) == \A b : Sends("anthropic", b, d, s) => Posts("anthropic", b, DecodeAnthropic(d, e), source, pieces)
<1>2. ASSUME NEW e, NEW source, NEW pieces, Send(e, source, pieces), s.phase # "failed", Accounts(e, source, pieces) PROVE StreamInv'
  BY <1>1, <1>2, SendStep
<1>3. CASE s.phase = "new" /\ \E usage \in BOOLEAN :
             Send([type |-> "message_start", usage |-> usage], [s EXCEPT !.phase = "body", !.usage = usage], <<>>)
  <2>1. PICK usage \in BOOLEAN : Send([type |-> "message_start", usage |-> usage], [s EXCEPT !.phase = "body", !.usage = usage], <<>>)
    BY <1>3
  <2>2. Accounts([type |-> "message_start", usage |-> usage], [s EXCEPT !.phase = "body", !.usage = usage], <<>>)
    BY <1>3, AnthropicStartPosts
  <2> QED  BY <1>2, <1>3, <2>1, <2>2
<1>4. CASE s.phase = "body" /\ s.open = "none" /\ \E block \in {"text", "thinking", "redacted"} :
             Send([type |-> "block_start", block |-> block], [s EXCEPT !.open = block], If(block = "redacted", <<<<"redacted", 0>>>>))
  <2>1. PICK block \in {"text", "thinking", "redacted"} :
             Send([type |-> "block_start", block |-> block], [s EXCEPT !.open = block], If(block = "redacted", <<<<"redacted", 0>>>>))
    BY <1>4
  <2>2. CASE block = "redacted"
    <3>1. Send([type |-> "block_start", block |-> "redacted"], [s EXCEPT !.open = "redacted"], <<<<"redacted", 0>>>>)
      BY <2>1, <2>2 DEF If
    <3>2. Accounts([type |-> "block_start", block |-> "redacted"], [s EXCEPT !.open = "redacted"], <<<<"redacted", 0>>>>)
      BY <1>4, AnthropicRedactedPosts
    <3> QED  BY <1>2, <1>4, <3>1, <3>2
  <2>3. CASE block \in {"text", "thinking"}
    <3>1. Send([type |-> "block_start", block |-> block], [s EXCEPT !.open = block], <<>>)
      BY <2>1, <2>3 DEF If
    <3>2. Accounts([type |-> "block_start", block |-> block], [s EXCEPT !.open = block], <<>>)
      BY <1>4, <2>3, AnthropicBlockPosts
    <3> QED  BY <1>2, <1>4, <3>1, <3>2
  <2> QED  BY <2>2, <2>3
<1>5. CASE s.phase = "body" /\ s.open = "none" /\ s.calls < StTools
           /\ Send([type |-> "block_start", block |-> "call"], [s EXCEPT !.open = "call", !.calls = @ + 1], <<<<"call", s.calls>>>>)
  <2>1. Accounts([type |-> "block_start", block |-> "call"], [s EXCEPT !.open = "call", !.calls = @ + 1], <<<<"call", s.calls>>>>)
    BY <1>5, AnthropicCallPosts
  <2> QED  BY <1>2, <1>5, <2>1
<1>6. CASE s.phase = "body" /\ s.open \in {"text", "thinking", "call"} /\ \E what \in AnthropicDelta(s.open) :
             Send([type |-> "delta", block |-> what], s, <<IF what = "args" THEN <<"args", s.calls - 1>> ELSE <<what, 0>>>>)
  <2>1. PICK what \in AnthropicDelta(s.open) :
             Send([type |-> "delta", block |-> what], s, <<IF what = "args" THEN <<"args", s.calls - 1>> ELSE <<what, 0>>>>)
    BY <1>6
  <2>2. CASE s.open = "call"
    <3>1. what = "args"
      BY <2>2 DEF AnthropicDelta
    <3>2. Send([type |-> "delta", block |-> "args"], s, <<<<"args", s.calls - 1>>>>)
      BY <2>1, <3>1
    <3>3. \A b : Sends("anthropic", b, d, s) => s.calls > 0
      BY <1>6, <2>2, CallsOpen
    <3>4. Accounts([type |-> "delta", block |-> "args"], s, <<<<"args", s.calls - 1>>>>)
      BY <1>6, <2>2, <3>3, AnthropicArgumentsPosts
    <3> QED  BY <1>2, <1>6, <3>2, <3>4
  <2>3. CASE s.open # "call"
    <3>1. what \in {"text", "thinking", "signature"}
      BY <1>6, <2>3 DEF AnthropicDelta
    <3>2. Send([type |-> "delta", block |-> what], s, <<<<what, 0>>>>)
      BY <2>1, <3>1
    <3>3. Accounts([type |-> "delta", block |-> what], s, <<<<what, 0>>>>)
      BY <1>6, <2>3, <3>1, AnthropicSaysPosts
    <3> QED  BY <1>2, <1>6, <3>2, <3>3
  <2> QED  BY <2>2, <2>3
<1>7. CASE s.phase = "body" /\ s.open # "none" /\ Send([type |-> "block_stop"], [s EXCEPT !.open = "none"], <<>>)
  <2>1. Accounts([type |-> "block_stop"], [s EXCEPT !.open = "none"], <<>>)
    BY <1>7, AnthropicBlockStopPosts
  <2> QED  BY <1>2, <1>7, <2>1
<1>8. CASE s.phase = "body" /\ s.open = "none" /\ \E usage \in BOOLEAN :
             Send([type |-> "message_delta", usage |-> usage], [s EXCEPT !.phase = "finished", !.usage = @ \/ usage], <<>>)
  <2>1. PICK usage \in BOOLEAN : Send([type |-> "message_delta", usage |-> usage], [s EXCEPT !.phase = "finished", !.usage = @ \/ usage], <<>>)
    BY <1>8
  <2>2. Accounts([type |-> "message_delta", usage |-> usage], [s EXCEPT !.phase = "finished", !.usage = @ \/ usage], <<>>)
    BY <1>8, AnthropicFinishPosts
  <2> QED  BY <1>2, <1>8, <2>1, <2>2
<1>9. CASE s.phase = "finished" /\ Send([type |-> "message_stop"], [s EXCEPT !.phase = "ended"], <<>>)
  <2>1. Accounts([type |-> "message_stop"], [s EXCEPT !.phase = "ended"], <<>>)
    BY <1>9, AnthropicEndPosts
  <2> QED  BY <1>2, <1>9, <2>1
<1>10. CASE s.phase \in {"new", "body"} /\ Send([type |-> "error"], [s EXCEPT !.phase = "failed"], <<>>)
  <2>1. Accounts([type |-> "error"], [s EXCEPT !.phase = "failed"], <<>>)
    BY <1>10, AnthropicErrorPosts
  <2> QED  BY <1>2, <1>10, <2>1
<1> QED  BY <1>3, <1>4, <1>5, <1>6, <1>7, <1>8, <1>9, <1>10 DEF StAnthropic

LEMMA ResponsesSteps == ASSUME StreamInv, StResponses PROVE StreamInv'
<1> DEFINE s == stSource
           d == stDecoder
           tool == s.calls - 1
<1>1. stUp = "responses" /\ \A e : Translated(stUp, d, e) = DecodeResponses(d, e)
  BY DEF StResponses, Translated
<1> DEFINE Accounts(e, source, pieces) == \A b : Sends("responses", b, d, s) => Posts("responses", b, DecodeResponses(d, e), source, pieces)
<1>2. ASSUME NEW e, NEW source, NEW pieces, Send(e, source, pieces), s.phase # "failed", Accounts(e, source, pieces) PROVE StreamInv'
  BY <1>1, <1>2, SendStep
<1>3. CASE s.phase = "new" /\ Send([type |-> "created"], [s EXCEPT !.phase = "body"], <<>>)
  <2>1. Accounts([type |-> "created"], [s EXCEPT !.phase = "body"], <<>>)
    BY <1>3, ResponsesCreatedPosts
  <2> QED  BY <1>2, <1>3, <2>1
<1>4. CASE s.phase = "body" /\ s.open = "none" /\ \E item \in {"message", "reasoning"} :
             Send([type |-> "item_added", block |-> item], [s EXCEPT !.open = item], <<>>)
  <2>1. PICK item \in {"message", "reasoning"} : Send([type |-> "item_added", block |-> item], [s EXCEPT !.open = item], <<>>)
    BY <1>4
  <2>2. Accounts([type |-> "item_added", block |-> item], [s EXCEPT !.open = item], <<>>)
    BY <1>4, ResponsesItemPosts
  <2> QED  BY <1>2, <1>4, <2>1, <2>2
<1>5. CASE s.phase = "body" /\ s.open = "none" /\ s.calls < StTools
           /\ Send([type |-> "item_added", block |-> "call", tool |-> s.calls],
                   [s EXCEPT !.open = "call", !.calls = @ + 1], <<<<"call", s.calls>>>>)
  <2>1. Accounts([type |-> "item_added", block |-> "call", tool |-> s.calls],
                 [s EXCEPT !.open = "call", !.calls = @ + 1], <<<<"call", s.calls>>>>)
    BY <1>5, ResponsesCallPosts
  <2> QED  BY <1>2, <1>5, <2>1
<1>6. CASE s.phase = "body" /\ s.open # "none" /\ \E what \in ResponsesDelta(s.open) :
             Send([type |-> "delta", block |-> what, tool |-> tool], s,
                  <<IF what = "args" THEN <<what, tool>> ELSE <<what, 0>>>>)
  <2>1. PICK what \in ResponsesDelta(s.open) :
             Send([type |-> "delta", block |-> what, tool |-> tool], s, <<IF what = "args" THEN <<what, tool>> ELSE <<what, 0>>>>)
    BY <1>6
  <2>2. CASE s.open = "call"
    <3>1. what = "args"
      BY <2>2 DEF ResponsesDelta
    <3>2. Send([type |-> "delta", block |-> "args", tool |-> tool], s, <<<<"args", tool>>>>)
      BY <2>1, <3>1
    <3>3. \A b : Sends("responses", b, d, s) => s.calls > 0
      BY <1>6, <2>2, CallsOpen
    <3>4. Accounts([type |-> "delta", block |-> "args", tool |-> tool], s, <<<<"args", tool>>>>)
      BY <1>6, <2>2, <3>3, ResponsesArgumentsPosts
    <3> QED  BY <1>2, <1>6, <3>2, <3>4
  <2>3. CASE s.open \in {"message", "reasoning"}
    <3>1. what \in {"text", "refusal", "thinking"}
      BY <2>3 DEF ResponsesDelta
    <3>2. Send([type |-> "delta", block |-> what, tool |-> tool], s, <<<<what, 0>>>>)
      BY <2>1, <3>1
    <3>3. Accounts([type |-> "delta", block |-> what, tool |-> tool], s, <<<<what, 0>>>>)
      <4> DEFINE k == tool
      <4> HIDE DEF k
      <4>1. Accounts([type |-> "delta", block |-> what, tool |-> k], s, <<<<what, 0>>>>)
        BY <1>6, <2>3, <3>1, ResponsesSaysPosts
      <4> QED  BY <4>1 DEF k
    <3> QED  BY <1>2, <1>6, <3>2, <3>3
  <2>4. CASE s.open \notin {"message", "reasoning", "call"}
    <3>1. Accounts([type |-> "delta", block |-> what, tool |-> tool], s, <<IF what = "args" THEN <<what, tool>> ELSE <<what, 0>>>>)
      <4>1. \A b : ~Sends("responses", b, d, s)
        BY <1>6, <2>4 DEF Sends, Hears, Standing
      <4> QED  BY <4>1
    <3> QED  BY <1>2, <1>6, <2>1, <3>1
  <2> QED  BY <2>2, <2>3, <2>4
<1>7. CASE s.phase = "body" /\ s.open # "none" /\ Send([type |-> "item_done"], [s EXCEPT !.open = "none"], <<>>)
  <2>1. Accounts([type |-> "item_done"], [s EXCEPT !.open = "none"], <<>>)
    BY <1>7, ResponsesItemDonePosts
  <2> QED  BY <1>2, <1>7, <2>1
<1>8. CASE s.phase = "body" /\ s.open = "none" /\ \E usage \in BOOLEAN :
             Send([type |-> "completed", usage |-> usage], [s EXCEPT !.phase = "ended", !.usage = usage], <<>>)
  <2>1. PICK usage \in BOOLEAN : Send([type |-> "completed", usage |-> usage], [s EXCEPT !.phase = "ended", !.usage = usage], <<>>)
    BY <1>8
  <2>2. Accounts([type |-> "completed", usage |-> usage], [s EXCEPT !.phase = "ended", !.usage = usage], <<>>)
    BY <1>8, ResponsesCompletedPosts
  <2> QED  BY <1>2, <1>8, <2>1, <2>2
<1>9. CASE s.phase = "body" /\ s.open = "none"
           /\ Send([type |-> "incomplete"], [s EXCEPT !.phase = "ended", !.usage = TRUE, !.cut = TRUE], <<>>)
  <2>1. Accounts([type |-> "incomplete"], [s EXCEPT !.phase = "ended", !.usage = TRUE, !.cut = TRUE], <<>>)
    BY <1>9, ResponsesIncompletePosts
  <2> QED  BY <1>2, <1>9, <2>1
<1>10. CASE s.phase \in {"new", "body"} /\ Send([type |-> "failed"], [s EXCEPT !.phase = "failed"], <<>>)
  <2>1. Accounts([type |-> "failed"], [s EXCEPT !.phase = "failed"], <<>>)
    BY <1>10, ResponsesRefusedPosts
  <2> QED  BY <1>2, <1>10, <2>1
<1> QED  BY <1>3, <1>4, <1>5, <1>6, <1>7, <1>8, <1>9, <1>10 DEF StResponses

LEMMA NoPieces == ASSUME NEW n PROVE FoldLeft(PieceOf, [calls |-> n, pieces |-> <<>>], <<>>) = [calls |-> n, pieces |-> <<>>]
<1> DEFINE S == {}
           none == <<>>
           base == [calls |-> n, pieces |-> <<>>]
<1>1. none \in Seq(S)
  OBVIOUS
<1> HIDE DEF S, base, none
<1>2. FoldLeft(PieceOf, base, none) = Folded(By("piece"), base, none)
  BY <1>1, FoldPieceOf
<1>3. Folded(By("piece"), base, none) = base
  BY FoldedEmpty DEF none
<1> QED  BY <1>2, <1>3 DEF base, none

LEMMA GeminiSteps == ASSUME StreamInv, StGemini PROVE StreamInv'
<1> DEFINE s == stSource
           d == stDecoder
           none == <<>>
<1>1. stUp = "gemini" /\ \A e : Translated(stUp, d, e) = DecodeGemini(d, e)
  BY DEF StGemini, Translated
<1> DEFINE Accounts(e, source, pieces) == \A b : Sends("gemini", b, d, s) => Posts("gemini", b, DecodeGemini(d, e), source, pieces)
<1>2. ASSUME NEW e, NEW source, NEW pieces, Send(e, source, pieces), s.phase # "failed", Accounts(e, source, pieces) PROVE StreamInv'
  BY <1>1, <1>2, SendStep
<1>3. ASSUME s.phase \in {"new", "body"}, NEW parts \in SeqOf(GeminiParts, 2), NEW finish \in BOOLEAN, NEW usage \in BOOLEAN,
             parts # <<>> \/ finish, NEW sent, sent = FoldLeft(PieceOf, [calls |-> s.calls, pieces |-> <<>>], parts),
             Send(GeminiChunk(parts, finish, usage), GeminiGoes(s, parts, finish, usage, sent.calls), sent.pieces)
      PROVE  StreamInv'
  <2>1. CASE parts # <<>>
    <3>1. Accounts(GeminiChunk(parts, finish, usage), GeminiGoes(s, parts, finish, usage, sent.calls), sent.pieces)
      BY <1>3, <2>1, GeminiPartedPosts
    <3> QED  BY <1>2, <1>3, <3>1
  <2>2. CASE parts = <<>>
    <3>1. finish = TRUE /\ parts = none
      BY <1>3, <2>2
    <3>2. sent = [calls |-> s.calls, pieces |-> none]
      BY <1>3, <2>2, NoPieces
    <3>3. sent.calls = s.calls /\ sent.pieces = none
      BY <3>2
    <3>4. none = <<>>
      OBVIOUS
    <3> HIDE DEF none
    <3>5. Send(GeminiChunk(none, TRUE, usage), GeminiGoes(s, none, TRUE, usage, s.calls), none)
      BY <1>3, <3>1, <3>3
    <3>6. Accounts(GeminiChunk(none, TRUE, usage), GeminiGoes(s, none, TRUE, usage, s.calls), none)
      BY <1>3, <3>4, GeminiBarePosts
    <3> QED  BY <1>2, <1>3, <3>5, <3>6
  <2> QED  BY <2>1, <2>2
<1>4. CASE s.phase \in {"new", "body"} /\ \E parts \in SeqOf(GeminiParts, 2), finish, usage \in BOOLEAN :
             LET sent == FoldLeft(PieceOf, [calls |-> s.calls, pieces |-> <<>>], parts)
             IN /\ parts # <<>> \/ finish
                /\ Send(GeminiChunk(parts, finish, usage), GeminiGoes(s, parts, finish, usage, sent.calls), sent.pieces)
  <2>1. PICK parts \in SeqOf(GeminiParts, 2), finish \in BOOLEAN, usage \in BOOLEAN :
             LET sent == FoldLeft(PieceOf, [calls |-> s.calls, pieces |-> <<>>], parts)
             IN /\ parts # <<>> \/ finish
                /\ Send(GeminiChunk(parts, finish, usage), GeminiGoes(s, parts, finish, usage, sent.calls), sent.pieces)
    BY <1>4
  <2> DEFINE sent == FoldLeft(PieceOf, [calls |-> s.calls, pieces |-> <<>>], parts)
  <2>2. /\ parts # <<>> \/ finish
        /\ Send(GeminiChunk(parts, finish, usage), GeminiGoes(s, parts, finish, usage, sent.calls), sent.pieces)
    BY <2>1
  <2>3. sent = FoldLeft(PieceOf, [calls |-> s.calls, pieces |-> <<>>], parts)
    OBVIOUS
  <2> HIDE DEF sent
  <2> QED  BY <1>3, <1>4, <2>2, <2>3
<1>5. CASE s.phase = "finished" /\ Send([parts |-> none, finish |-> FALSE, usage |-> TRUE, blocked |-> FALSE],
                                        [s EXCEPT !.phase = "ended", !.usage = TRUE], none)
  <2>1. none = <<>>
    OBVIOUS
  <2> HIDE DEF none
  <2>2. Accounts([parts |-> none, finish |-> FALSE, usage |-> TRUE, blocked |-> FALSE], [s EXCEPT !.phase = "ended", !.usage = TRUE], none)
    BY <1>5, <2>1, GeminiUsagePosts
  <2> QED  BY <1>2, <1>5, <2>2
<1>6. CASE s.phase = "new" /\ Send([parts |-> none, finish |-> FALSE, usage |-> TRUE, blocked |-> TRUE],
                                   [s EXCEPT !.phase = "ended", !.usage = TRUE, !.blocked = TRUE], none)
  <2>1. none = <<>>
    OBVIOUS
  <2> HIDE DEF none
  <2>2. Accounts([parts |-> none, finish |-> FALSE, usage |-> TRUE, blocked |-> TRUE], [s EXCEPT !.phase = "ended", !.usage = TRUE, !.blocked = TRUE], none)
    BY <1>6, <2>1, GeminiBlockedPosts
  <2> QED  BY <1>2, <1>6, <2>2
<1> HIDE DEF Accounts
<1> QED  BY ZenonT(60), <1>4, <1>5, <1>6 DEF StGemini, GeminiChunk, GeminiGoes

LEMMA ChatSteps == ASSUME StreamInv, StChat PROVE StreamInv'
<1> DEFINE s == stSource
           d == stDecoder
<1>1. stUp = "chat" /\ \A e : Translated(stUp, d, e) = DecodeChat(d, e)
  BY DEF StChat, Translated
<1> DEFINE Accounts(e, source, pieces) == \A b : Sends("chat", b, d, s) => Posts("chat", b, DecodeChat(d, e), source, pieces)
<1>2. ASSUME NEW e, NEW source, NEW pieces, Send(e, source, pieces), s.phase # "failed", Accounts(e, source, pieces) PROVE StreamInv'
  BY <1>1, <1>2, SendStep
<1>3. CASE s.phase = "new" /\ \E what \in {"none", "text"} :
             Send([ChatChunk(what, 0) EXCEPT !.role = TRUE], [s EXCEPT !.phase = "body"], If(what = "text", <<<<"text", 0>>>>))
  <2>1. PICK what \in {"none", "text"} :
             Send([ChatChunk(what, 0) EXCEPT !.role = TRUE], [s EXCEPT !.phase = "body"], If(what = "text", <<<<"text", 0>>>>))
    BY <1>3
  <2>2. CASE what = "none"
    <3>1. Send([ChatChunk("none", 0) EXCEPT !.role = TRUE], [s EXCEPT !.phase = "body"], <<>>)
      BY <2>1, <2>2 DEF If
    <3>2. Accounts([ChatChunk("none", 0) EXCEPT !.role = TRUE], [s EXCEPT !.phase = "body"], <<>>)
      BY <1>3, ChatRolePosts
    <3> QED  BY <1>2, <1>3, <3>1, <3>2
  <2>3. CASE what = "text"
    <3>1. Send([ChatChunk("text", 0) EXCEPT !.role = TRUE], [s EXCEPT !.phase = "body"], <<<<"text", 0>>>>)
      BY <2>1, <2>3 DEF If
    <3>2. Accounts([ChatChunk("text", 0) EXCEPT !.role = TRUE], [s EXCEPT !.phase = "body"], <<<<"text", 0>>>>)
      BY <1>3, ChatRoleTextPosts
    <3> QED  BY <1>2, <1>3, <3>1, <3>2
  <2> QED  BY <2>2, <2>3
<1>4. CASE s.phase = "body" /\ \E what \in {"text", "refusal", "thinking", "signature"} : Send(ChatChunk(what, 0), s, <<<<what, 0>>>>)
  <2>1. PICK what \in {"text", "refusal", "thinking", "signature"} : Send(ChatChunk(what, 0), s, <<<<what, 0>>>>)
    BY <1>4
  <2>2. Accounts(ChatChunk(what, 0), s, <<<<what, 0>>>>)
    BY <1>4, ChatTextPosts
  <2> QED  BY <1>2, <1>4, <2>1, <2>2
<1>5. CASE s.phase = "body" /\ Send(ChatChunk("toolstart", s.calls), [s EXCEPT !.calls = @ + 1], <<<<"call", s.calls>>>>)
  <2>1. Accounts(ChatChunk("toolstart", s.calls), [s EXCEPT !.calls = @ + 1], <<<<"call", s.calls>>>>)
    BY <1>5, ChatCallPosts
  <2> QED  BY <1>2, <1>5, <2>1
<1>6. CASE s.phase = "body" /\ \E n \in 0 .. s.calls - 1 :
             Send(ChatChunk("toolargs", n), [s EXCEPT !.interleaved = @ \/ s.last \notin {<<"call", n>>, <<"args", n>>}], <<<<"args", n>>>>)
  <2>1. PICK n \in 0 .. s.calls - 1 :
             Send(ChatChunk("toolargs", n), [s EXCEPT !.interleaved = @ \/ s.last \notin {<<"call", n>>, <<"args", n>>}], <<<<"args", n>>>>)
    BY <1>6
  <2> DEFINE w == (s.interleaved \/ (s.last \notin {<<"call", n>>, <<"args", n>>}))
  <2>2. Send(ChatChunk("toolargs", n), [s EXCEPT !.interleaved = w], <<<<"args", n>>>>)
    BY <2>1
  <2>3. w = (s.interleaved \/ (s.last \notin {<<"call", n>>, <<"args", n>>}))
    OBVIOUS
  <2> HIDE DEF w
  <2>4. Accounts(ChatChunk("toolargs", n), [s EXCEPT !.interleaved = w], <<<<"args", n>>>>)
    BY <1>6, <2>3, ChatArgumentsPosts
  <2> QED  BY <1>2, <1>6, <2>2, <2>4
<1>7. CASE s.phase = "body" /\ \E usage \in BOOLEAN :
             Send([ChatChunk("none", 0) EXCEPT !.finish = TRUE, !.usage = usage],
                  [s EXCEPT !.phase = IF usage THEN "ended" ELSE "finished", !.usage = usage], <<>>)
  <2>1. PICK usage \in BOOLEAN :
             Send([ChatChunk("none", 0) EXCEPT !.finish = TRUE, !.usage = usage],
                  [s EXCEPT !.phase = IF usage THEN "ended" ELSE "finished", !.usage = usage], <<>>)
    BY <1>7
  <2>2. Accounts([ChatChunk("none", 0) EXCEPT !.finish = TRUE, !.usage = usage],
                  [s EXCEPT !.phase = IF usage THEN "ended" ELSE "finished", !.usage = usage], <<>>)
    BY <1>7, ChatFinishPosts
  <2> QED  BY <1>2, <1>7, <2>1, <2>2
<1>8. CASE s.phase = "finished" /\ Send([ChatChunk("none", 0) EXCEPT !.usage = TRUE], [s EXCEPT !.phase = "ended", !.usage = TRUE], <<>>)
  <2>1. Accounts([ChatChunk("none", 0) EXCEPT !.usage = TRUE], [s EXCEPT !.phase = "ended", !.usage = TRUE], <<>>)
    BY <1>8, ChatUsagePosts
  <2> QED  BY <1>2, <1>8, <2>1
<1> HIDE DEF Accounts
<1> QED  BY <1>3, <1>4, <1>5, <1>6, <1>7, <1>8 DEF StChat

LEMMA DoneStep == ASSUME StreamInv, StDone PROVE StreamInv'
<1> DEFINE s == stSource
           d == stDecoder
           e == [type |-> "done", what |-> "done", role |-> FALSE, finish |-> FALSE, usage |-> FALSE]
           source == [s EXCEPT !.phase = "done"]
<1>1. /\ stUp \in {"anthropic", "responses", "chat"} /\ s.phase \in {"finished", "ended"} /\ s.phase # "failed"
      /\ stUp = "chat" \/ s.phase = "ended"
      /\ Send(e, source, <<>>)
  BY DEF StDone, StreamInv
<1>2. CASE stUp = "anthropic"
  <2>1. \A b : Sends("anthropic", b, d, s) => Posts("anthropic", b, DecodeAnthropic(d, e), source, <<>>)
    BY <1>1, <1>2, AnthropicDonePosts
  <2>2. Translated(stUp, d, e) = DecodeAnthropic(d, e)
    BY <1>2 DEF Translated
  <2> HIDE DEF e, source
  <2> QED  BY <1>1, <1>2, <2>1, <2>2, SendStep
<1>3. CASE stUp = "responses"
  <2>1. \A b : Sends("responses", b, d, s) => Posts("responses", b, DecodeResponses(d, e), source, <<>>)
    BY <1>1, <1>3, ResponsesDonePosts
  <2>2. Translated(stUp, d, e) = DecodeResponses(d, e)
    BY <1>3 DEF Translated
  <2> HIDE DEF e, source
  <2> QED  BY <1>1, <1>3, <2>1, <2>2, SendStep
<1>4. CASE stUp = "chat"
  <2>1. \A b : Sends("chat", b, d, s) => Posts("chat", b, DecodeChat(d, e), source, <<>>)
    BY <1>1, <1>4, ChatDonePosts
  <2>2. Translated(stUp, d, e) = DecodeChat(d, e)
    BY <1>4 DEF Translated
  <2> HIDE DEF e, source
  <2> QED  BY <1>1, <1>4, <2>1, <2>2, SendStep
<1> QED  BY <1>1, <1>2, <1>3, <1>4

LEMMA InitialView ==
  ASSUME NEW none, none = <<>>
  PROVE  /\ ViewInit \in Views /\ ViewInit.phase = "new" /\ ViewInit.next = 0 /\ ViewInit.open = NoPiece /\ ViewInit.items = none
         /\ ViewInit.done = none /\ ViewInit.signatures = 0 /\ ~ViewInit.late /\ ViewInit.got = none /\ ViewInit.ok
<1>1. NoPiece \in Pairs
  BY NonePair
<1>2. none \in Seq(Items) /\ none \in Seq(Nat) /\ none \in Seq(Pairs)
  OBVIOUS
<1> DEFINE nothing == NoPiece
<1>3. ViewInit = [phase |-> "new", next |-> 0, open |-> nothing, items |-> none,
                  done |-> none, signatures |-> 0, late |-> FALSE, got |-> none, ok |-> TRUE]
  BY DEF ViewInit
<1>4. nothing \in Pairs
  BY <1>1
<1> HIDE DEF nothing
<1>5. ViewInit \in Views
  BY <1>2, <1>3, <1>4 DEF Views
<1> QED  BY <1>3, <1>5 DEF nothing

LEMMA InitialAnswer ==
  ASSUME NEW none, none = <<>>
  PROVE  /\ NewAnswer \in Answers /\ Settled(NewAnswer) /\ NewAnswer.got = none /\ NewAnswer.told = 0 /\ NewAnswer.signed = 0
         /\ ~NewAnswer.begun /\ ~NewAnswer.hot /\ ~NewAnswer.finished /\ ~NewAnswer.usage /\ ~NewAnswer.done /\ ~NewAnswer.failed
         /\ ~NewAnswer.strayed /\ ~NewAnswer.bare /\ NewAnswer.legal
<1>1. none \in Seq(Pairs)
  OBVIOUS
<1>2. NewAnswer = [told |-> 0, signed |-> 0, got |-> none, begun |-> FALSE, hot |-> FALSE,
                   finished |-> FALSE, usage |-> FALSE, done |-> FALSE, failed |-> FALSE,
                   strayed |-> FALSE, bare |-> FALSE, legal |-> TRUE]
  BY DEF NewAnswer
<1>3. NewAnswer \in Answers
  BY <1>1, <1>2 DEF Answers
<1> QED  BY <1>2, <1>3 DEF Settled

LEMMA InitialAgrees ==
  ASSUME NEW up
  PROVE  Agrees(up, NewAnswer, DecoderInit, SourceInit, <<>>)
<1> DEFINE none == <<>>
           a == NewAnswer
           d == DecoderInit
           s == SourceInit
<1>1. /\ a \in Answers /\ Settled(a) /\ a.got = none /\ a.told = 0 /\ a.signed = 0
      /\ ~a.begun /\ ~a.hot /\ ~a.finished /\ ~a.usage /\ ~a.done /\ ~a.failed /\ ~a.strayed /\ ~a.bare /\ a.legal
  BY InitialAnswer
<1>2. /\ s.phase = "new" /\ s.open = "none" /\ s.calls = 0 /\ s.usage = FALSE /\ s.last[1] = "none"
      /\ s.signatures = 0 /\ s.cut = FALSE /\ s.blocked = FALSE /\ s.bare = FALSE /\ s.interleaved = FALSE
  BY DEF SourceInit, NoPiece
<1>3. s \in Sources
  BY NonePair DEF SourceInit, Sources, Phases, Opened
<1>4. d \in Decoders /\ d.tool + 1 = 0 /\ d.usage = FALSE
  BY DEF DecoderInit, Decoders
<1>5. Single(none)
  BY SingleNone
<1> HIDE DEF none, a, d, s
<1>6. Advancing(up, a, d, s)
  BY <1>1, <1>2, <1>4 DEF Advancing
<1>7. Standing(up, a, d, s)
  BY <1>1, <1>2, <1>3, <1>4, <1>6 DEF Standing
<1>8. Resumes(a, s)
  BY <1>2 DEF Resumes, Resuming
<1>9. Agrees(up, a, d, s, none)
  BY <1>1, <1>2, <1>5, <1>7, <1>8 DEF Agrees
<1> QED  BY <1>9 DEF none, a, d, s

LEMMA InitialMessages == MessagesTied(MessagesInit, ViewInit, NewAnswer) /\ MessagesInit.out = <<>>
<1> DEFINE none == <<>>
           m == MessagesInit
           v == ViewInit
           a == NewAnswer
           nobody == {}
<1>1. none \in Seq(MessageWires) /\ nobody \in SUBSET Nat
  OBVIOUS
<1>2. m = [started |-> FALSE, index |-> 0, open |-> "none", tools |-> nobody, finished |-> FALSE, stopped |-> FALSE, out |-> none]
  BY DEF MessagesInit
<1>3. /\ v \in Views /\ v.phase = "new" /\ v.next = 0 /\ v.open = NoPiece /\ ~v.late /\ v.got = none /\ v.ok
  BY InitialView
<1>4. /\ a.got = none /\ a.told = 0 /\ ~a.hot /\ ~a.finished /\ ~a.failed
  BY InitialAnswer
<1>5. Pieces(none, MessagesKinds) = none /\ FoldLeft(ReadMessages, v, none) = v
  BY PiecesNone, SeenNothing
<1>6. \A n \in nobody : FALSE
  OBVIOUS
<1>7. none = <<>>
  OBVIOUS
<1> HIDE DEF none, m, v, a, nobody
<1>8. m \in MessageEncoders /\ m.out = none
  BY <1>1, <1>2 DEF MessageEncoders
<1>9. MessagesSeen(m, v) = v
  BY <1>5, <1>8 DEF MessagesSeen
<1>10. MessagesShape(m, v, a)
  BY <1>2, <1>3, <1>4, <1>6 DEF MessagesShape, Opens
<1>11. MessagesShown(m, v, a)
  BY <1>3, <1>4, <1>5 DEF MessagesShown
<1>12. MessagesTied(m, v, a)
  BY <1>3, <1>4, <1>8, <1>9, <1>10, <1>11 DEF MessagesTied, MessagesCoupled
<1> QED  BY <1>7, <1>8, <1>12 DEF m, v, a

LEMMA InitialResponses == ASSUME NEW k PROVE ResponsesTied(ResponsesInit, ViewInit, NewAnswer, k) /\ ResponsesInit.out = <<>>
<1> DEFINE none == <<>>
           r == ResponsesInit
           v == ViewInit
           a == NewAnswer
<1>1. none \in Seq(ItemWires) /\ none \in Seq(Calls) /\ none \in Seq(Nat) /\ none \in Seq({"text", "refusal"}) /\ Len(none) = 0
  OBVIOUS
<1>2. r = [created |-> FALSE, message |-> FALSE, reasoning |-> FALSE, part |-> "none", finished |-> FALSE, completed |-> FALSE,
           why |-> "none", item |-> 0, content |-> 0, order |-> none, text |-> 0, refusal |-> 0, thinking |-> 0,
           signatures |-> 0, calls |-> none, echo |-> none, out |-> none]
  BY DEF ResponsesInit
<1>3. /\ v \in Views /\ v.phase = "new" /\ v.items = none /\ v.done = none /\ v.signatures = 0 /\ ~v.late /\ v.got = none /\ v.ok
  BY InitialView
<1>4. /\ a.got = none /\ a.told = 0 /\ a.signed = 0 /\ ~a.begun /\ ~a.hot /\ ~a.finished /\ ~a.usage /\ ~a.failed
      /\ a \in Answers
  BY InitialAnswer
<1>5. Pieces(none, k) = none /\ FoldLeft(ReadResponses, v, none) = v
  BY PiecesNone, SeenNothing
<1>6. none = <<>>
  OBVIOUS
<1> HIDE DEF none, r, v, a
<1>7. r \in ResponsesEncoders
  BY <1>1, <1>2 DEF ResponsesEncoders
<1>8. ResponsesSeen(r, v) = v
  BY <1>2, <1>5 DEF ResponsesSeen
<1>9. \A i \in 1..0 : FALSE
  OBVIOUS
<1>10. Layout(r, v)
  <2>1. Past(r.item, r.calls, v.items) /\ CallsFit(r.item, r.calls, v.items)
    BY <1>1, <1>2, <1>9 DEF Past, CallsFit
  <2>2. MessageFits(r, v.items) /\ ReasoningFits(r, v.items)
    BY <1>2, <1>6 DEF MessageFits, ReasoningFits
  <2> QED  BY <1>1, <1>2, <1>3, <2>1, <2>2 DEF Layout
<1>11. ResponsesMarks(r, v, a, k)
  <2>1. NoneOpen(r.calls)
    BY <1>1, <1>2, <1>9 DEF NoneOpen
  <2>2. a.begun = FALSE /\ a.finished = FALSE /\ a.usage = FALSE
    BY <1>4 DEF Answers
  <2>3. /\ r.created = FALSE /\ r.finished = FALSE /\ r.completed = FALSE /\ r.reasoning = FALSE /\ r.message = FALSE
        /\ r.signatures = 0 /\ Len(r.calls) = 0
    BY <1>1, <1>2
  <2>4. v.signatures + r.signatures = a.signed
    BY <1>3, <1>4, <2>3
  <2>5. v.got = Pieces(a.got, k)
    BY <1>3, <1>4, <1>5
  <2> HIDE DEF r
  <2> QED  BY <1>3, <1>4, <2>1, <2>2, <2>3, <2>4, <2>5 DEF ResponsesMarks
<1>12. ResponsesTied(r, v, a, k)
  BY <1>3, <1>4, <1>7, <1>8, <1>10, <1>11 DEF ResponsesTied, ResponsesCoupled
<1> QED  BY <1>2, <1>6, <1>12 DEF r, v, a

LEMMA InitialChat == ChatTied(ViewInit, NewAnswer)
<1> DEFINE none == <<>>
<1>1. none = <<>>
  OBVIOUS
<1> HIDE DEF none
<1>2. /\ ViewInit \in Views /\ ViewInit.phase = "new" /\ ViewInit.next = 0 /\ ~ViewInit.late /\ ViewInit.got = none /\ ViewInit.ok
  BY <1>1, InitialView
<1>3. NewAnswer.got = none /\ NewAnswer.told = 0 /\ ~NewAnswer.finished /\ ~NewAnswer.failed
  BY <1>1, InitialAnswer
<1> QED  BY <1>2, <1>3 DEF ChatTied, ChatPhase, ShowsAll

\* At the start nothing was said, sent, written or read.
LEMMA StreamStarts == ASSUME StreamInit PROVE StreamInv
<1>1. /\ stUp \in {"anthropic", "responses", "gemini", "chat"} /\ stClient \in {"messages", "responses", "chat"}
  BY StreamAssumption DEF StreamInit
<1>2. stWire = <<>> /\ stDecoder = DecoderInit /\ stSource = SourceInit /\ stView = ViewInit /\ stSent = <<>>
  BY DEF StreamInit
<1>3. stClient = "messages" => stEncoder = MessagesInit
  BY DEF StreamInit
<1>4. stClient = "responses" => stEncoder = ResponsesInit
  BY <1>1 DEF StreamInit
<1>5. Tied(stUp, stClient, stEncoder, stView, NewAnswer)
  BY <1>1, <1>2, <1>3, <1>4, InitialMessages, InitialResponses, InitialChat DEF Tied
<1>6. NewAnswer \in Answers /\ Settled(NewAnswer) /\ ViewInit \in Views
  BY InitialAnswer, InitialView
<1>7. Agrees(stUp, NewAnswer, stDecoder, stSource, stSent)
  BY <1>2, InitialAgrees
<1>8. Resting(stUp, stClient, stDecoder, stSource, stEncoder, stView, stSent, NewAnswer)
  BY <1>5, <1>6, <1>7 DEF Resting
<1> QED  BY <1>1, <1>2, <1>6, <1>8 DEF StreamInv

\* The decoder's state, the encoder's state, what the provider sent and what the client has
\* read always belong to one and the same answer, whatever the provider does and for every
\* pair of protocols (StreamInit, TransformStream and the encoders of transformer/).
THEOREM StreamInductive == StreamSpec => []StreamInv
<1>1. StreamInit => StreamInv
  BY StreamStarts
<1>2. ASSUME StreamInv, [StreamNext]_streamVars PROVE StreamInv'
  <2>1. CASE StAnthropic  BY <1>2, <2>1, AnthropicSteps
  <2>2. CASE StResponses  BY <1>2, <2>2, ResponsesSteps
  <2>3. CASE StGemini     BY <1>2, <2>3, GeminiSteps
  <2>4. CASE StChat       BY <1>2, <2>4, ChatSteps
  <2>5. CASE StDone       BY <1>2, <2>5, DoneStep
  <2>6. CASE StToMessages \/ StToResponses \/ StToChat  BY <1>2, <2>6, Delivers
  <2>7. CASE UNCHANGED streamVars
    <3>1. /\ stUp' = stUp /\ stClient' = stClient /\ stWire' = stWire /\ stSource' = stSource /\ stDecoder' = stDecoder
          /\ stEncoder' = stEncoder /\ stView' = stView /\ stSent' = stSent
      BY <2>7 DEF streamVars
    <3> QED  BY <1>2, <3>1 DEF StreamInv
  <2> QED  BY <1>2, <2>1, <2>2, <2>3, <2>4, <2>5, <2>6, <2>7 DEF StreamNext
<1> QED  BY <1>1, <1>2, PTL DEF StreamSpec

LEMMA TiedWell ==
  ASSUME NEW up, NEW client \in {"messages", "responses", "chat"}, NEW m, NEW v, NEW a, Tied(up, client, m, v, a)
  PROVE  /\ v.ok \/ (client = "messages" /\ a.strayed) \/ (client = "responses" /\ a.bare)
         /\ v.late => a.strayed
<1>1. CASE client = "messages"
  <2>1. MessagesTied(m, v, a) /\ m.out = <<>>
    BY <1>1 DEF Tied
  <2>2. MessagesSeen(m, v) = v
    BY <2>1, SeenNothing DEF MessagesSeen
  <2>3. MessagesCoupled(m, v, a)
    BY <2>1, <2>2 DEF MessagesTied
  <2>4. ~v.late /\ (v.ok \/ a.strayed)
    BY <2>3 DEF MessagesCoupled, MessagesShown
  <2> QED  BY <1>1, <2>4
<1>2. CASE client = "responses"
  <2>1. ResponsesTied(m, v, a, Room(up, client)) /\ m.out = <<>>
    BY <1>2 DEF Tied
  <2>2. ResponsesSeen(m, v) = v
    BY <2>1, SeenNothing DEF ResponsesSeen
  <2>3. ResponsesCoupled(m, v, a, Room(up, client))
    BY <2>1, <2>2 DEF ResponsesTied
  <2>4. (v.ok \/ a.bare) /\ (v.late => a.strayed)
    BY <2>3 DEF ResponsesCoupled, ResponsesMarks
  <2> QED  BY <1>2, <2>4
<1>3. CASE client = "chat"
  BY <1>3 DEF Tied, ChatTied
<1> QED  BY <1>1, <1>2, <1>3

\* An encoder tied to an answer has written what its protocol allows.
LEMMA WellFormed == ASSUME StreamInv PROVE StreamWellFormed
<1>1. stClient \in {"messages", "responses", "chat"} /\ stView \in Views
  BY DEF StreamInv
<1>2. CASE stWire = <<>>
  <2>1. PICK a : Resting(stUp, stClient, stDecoder, stSource, stEncoder, stView, stSent, a)
    BY <1>2 DEF StreamInv
  <2>2. Tied(stUp, stClient, stEncoder, stView, a)
    BY <2>1 DEF Resting
  <2>3. (a.strayed => stSource.interleaved) /\ (a.bare => stSource.bare)
    BY <2>1 DEF Resting, Agrees, Standing
  <2>4. /\ stView.ok \/ (stClient = "messages" /\ a.strayed) \/ (stClient = "responses" /\ a.bare)
        /\ stView.late => a.strayed
    BY <1>1, <2>2, TiedWell
  <2> QED  BY <2>3, <2>4 DEF StreamWellFormed
<1>3. CASE stWire # <<>>
  <2> DEFINE decoded == Translated(stUp, stDecoder, stWire[1])
             events == decoded.events
             v == Blank(stView)
  <2>1. PICK b : Waiting(stUp, stClient, stWire[1], stDecoder, stSource, stEncoder, stView, stSent, b)
    BY <1>3 DEF StreamInv
  <2> DEFINE a == Took(b, events)
  <2>2. Tied(stUp, stClient, stEncoder, v, b) /\ b \in Answers /\ Settled(b) /\ events \in Seq(Occurrences)
    BY <2>1 DEF Waiting, Proper
  <2>3. a.legal /\ (a.strayed => stSource.interleaved) /\ (a.bare => stSource.bare)
    BY <2>1 DEF Waiting, Agrees, Standing
  <2>4. v.ok = stView.ok /\ v.late = stView.late
    BY <1>1 DEF Blank, Views
  <2> HIDE DEF events, v
  <2>5. (b.strayed => a.strayed) /\ (b.bare => a.bare)
    BY <2>2, <2>3, TookKeeps
  <2> HIDE DEF a
  <2>6. /\ v.ok \/ (stClient = "messages" /\ b.strayed) \/ (stClient = "responses" /\ b.bare)
        /\ v.late => b.strayed
    BY <1>1, <2>2, TiedWell
  <2> QED  BY <2>3, <2>4, <2>5, <2>6 DEF StreamWellFormed
<1> QED  BY <1>2, <1>3

\* No client is ever written a frame its protocol does not allow there: a delta outside its
\* block or item, an index out of turn, a block left open or anything behind the end, for
\* any provider, any number of calls and any interleaving of their arguments, but for the
\* two kinds of streams StreamWellFormed excepts (transformer/inbound).
THEOREM StreamRules == StreamSpec => []StreamWellFormed
  BY StreamInductive, WellFormed, PTL

\* A client tied to an answer that agrees with the provider has what was sent.
LEMMA Faithful == ASSUME StreamInv PROVE StreamFaithful
<1>1. stClient \in {"messages", "responses", "chat"} /\ stView \in Views
  BY DEF StreamInv
<1>2. CASE stWire # <<>>
  BY <1>2 DEF StreamFaithful, StreamDelivered, StreamConcluded
<1>3. CASE stWire = <<>>
  <2>1. PICK a : Resting(stUp, stClient, stDecoder, stSource, stEncoder, stView, stSent, a)
    BY <1>3 DEF StreamInv
  <2>2. Tied(stUp, stClient, stEncoder, stView, a) /\ a \in Answers /\ Settled(a)
    BY <2>1 DEF Resting
  <2>3. Agrees(stUp, a, stDecoder, stSource, stSent)
    BY <2>1 DEF Resting
  <2>4. /\ a.got = stSent /\ a.signed = stSource.signatures /\ (a.strayed => stSource.interleaved)
        /\ ~stSource.doubled => Single(a.got)
        /\ a.failed <=> stSource.phase = "failed"
        /\ a.failed \/ Advancing(stUp, a, stDecoder, stSource)
        /\ stSource \in Sources
    BY <2>3 DEF Agrees, Standing
  <2> DEFINE Ends == stSource.phase \in {"ended", "done"} /\ stSource.usage /\ ~stSource.cut /\ ~stSource.blocked
  <2>5. Ends => ~a.failed /\ a.finished /\ a.usage
    BY <2>4 DEF Advancing
  <2> HIDE DEF Ends
  <2>6. CASE stClient = "messages"
    <3>1. MessagesTied(stEncoder, stView, a) /\ stEncoder.out = <<>>
      BY <2>2, <2>6 DEF Tied
    <3>2. MessagesSeen(stEncoder, stView) = stView
      BY <3>1, SeenNothing DEF MessagesSeen
    <3>3. MessagesCoupled(stEncoder, stView, a)
      BY <3>1, <3>2 DEF MessagesTied
    <3>4. stView.phase = "failed" \/ stSource.interleaved \/ stView.got = Pieces(stSent, MessagesKinds)
      BY <2>4, <3>3 DEF MessagesCoupled, MessagesShown
    <3>5. Deliverable = MessagesKinds
      BY <2>6 DEF Deliverable, MessagesKinds
    <3>6. StreamDelivered
      BY <2>6, <3>4, <3>5 DEF StreamDelivered
    <3>7. Ends => stView.phase = "ended"
      BY <2>5, <3>3 DEF MessagesCoupled, MessagesShape
    <3>8. StreamConcluded
      BY <2>6, <3>7 DEF StreamConcluded, Ends
    <3> QED  BY <3>6, <3>8 DEF StreamFaithful
  <2>7. CASE stClient = "responses"
    <3> DEFINE k == Room(stUp, stClient)
    <3>1. ResponsesTied(stEncoder, stView, a, k) /\ stEncoder.out = <<>>
      BY <2>2, <2>7 DEF Tied
    <3>2. ResponsesSeen(stEncoder, stView) = stView
      BY <3>1, SeenNothing DEF ResponsesSeen
    <3>3. ResponsesCoupled(stEncoder, stView, a, k) /\ stEncoder \in ResponsesEncoders
      BY <3>1, <3>2 DEF ResponsesTied
    <3>4. Deliverable = k
      BY <2>7 DEF Deliverable, Room
    <3> HIDE DEF k
    <3>5. stView.phase = "failed" \/ stView.got = Pieces(stSent, k)
      BY <2>4, <3>3 DEF ResponsesCoupled, ResponsesMarks
    <3>6. StreamDelivered
      BY <2>7, <3>4, <3>5 DEF StreamDelivered
    <3>7. Ends => ResponsesMarks(stEncoder, stView, a, k)
      BY <2>5, <3>3 DEF ResponsesCoupled
    <3>8. stView.signatures \in Nat /\ stEncoder.signatures \in Nat
      BY <1>1, <3>3 DEF Views, ResponsesEncoders
    <3>9. Ends => /\ stView.phase = "ended" /\ stView.signatures + stEncoder.signatures = a.signed
                  /\ stEncoder.signatures = 0
      BY <2>5, <3>7 DEF ResponsesMarks
    <3>10. Ends => stView.phase = "ended" /\ stView.signatures = stSource.signatures
      BY <2>4, <3>8, <3>9
    <3>11. StreamConcluded
      BY <2>7, <3>10 DEF StreamConcluded, Ends
    <3> QED  BY <3>6, <3>11 DEF StreamFaithful
  <2>8. CASE stClient = "chat"
    <3>1. ChatTied(stView, a)
      BY <2>2, <2>8 DEF Tied
    <3>2. stSource.doubled \/ ShowsAll(stView.got, stSent)
      BY <2>4, <3>1 DEF ChatTied
    <3>3. StreamDelivered
      BY <2>8, <3>2 DEF StreamDelivered, ShowsAll
    <3>4. Ends => stView.phase \in {"finished", "ended"}
      BY <2>5, <3>1 DEF ChatTied, ChatPhase
    <3>5. StreamConcluded
      BY <2>8, <3>4 DEF StreamConcluded, Ends
    <3> QED  BY <3>3, <3>5 DEF StreamFaithful
  <2> QED  BY <1>1, <2>6, <2>7, <2>8
<1> QED  BY <1>2, <1>3

\* When everything the provider sent was delivered, the client has every piece it has a
\* place for, in order, none twice or lost, and has learnt the end if the provider has
\* ended, for every pair of protocols, in the streams StreamFaithful is about
\* (transformer/outbound and inbound).
THEOREM StreamKeepsFaith == StreamSpec => []StreamFaithful
  BY StreamInductive, Faithful, PTL
===============================================================================
