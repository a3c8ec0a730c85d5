------------------------- MODULE StreamEncode_proofs --------------------------
(***************************************************************************)
(* Streamed answers on the client's side: the three encoders of            *)
(* transformer/inbound keep their client, who reads the frames by the      *)
(* rules of its protocol, at the answer that the events they are given     *)
(* tell.                                                                   *)
(*                                                                         *)
(* The answer is the ghost of these proofs: Took(a, events) is what lawful *)
(* events make of it, Allowed says which event may come next, and an event *)
(* that may not come makes it nonsense. It knows no provider and no        *)
(* client; the decoders must tell a legal one (StreamTranslate_proofs),    *)
(* and an encoder must show it. MessagesTied, ResponsesTied and ChatTied   *)
(* couple the fields of an encoder, the client's view once it has read     *)
(* what is being written, and the answer; MessagesRun, ResponsesRun and    *)
(* ChatRun prove that all the events of one provider event preserve them,  *)
(* however many there are. Once an answer has failed, or arguments strayed *)
(* to an older call, less is coupled: the client takes no more notice, or  *)
(* its complaint is excused.                                               *)
(*                                                                         *)
(* What is folded over a sequence is taken as a walk: FoldedGoes gives the *)
(* value at every beginning of the sequence, and Upward, which is that the *)
(* naturals are well-founded, carries a property along it.                 *)
(***************************************************************************)
EXTENDS StreamTranslate, WellFoundedInduction, TLAPS

\* The kinds of the internal events (transformer/model) and of the pieces they carry.
Kinds == {"start", "text", "refusal", "thinking", "signature", "redacted", "toolstart", "toolargs",
          "tooldelta", "toolstop", "blockstart", "blockstop", "stop", "usage", "done", "error"}
Words == {"none", "text", "refusal", "thinking", "signature", "redacted", "call", "args", "message", "reasoning",
          "response.completed", "response.incomplete", "response.failed"}
Pairs == Words \X Nat
Occurrences == [kind : Kinds, tool : Nat, why : {"none", "stop", "length", "safety"}]
\* An answer: its pieces, the calls told, whether the last one may still get arguments; how
\* far it is; whether arguments strayed to an older call, and whether it stopped without
\* having begun.
Answers == [told : Nat, signed : Nat, got : Seq(Pairs), begun : BOOLEAN, hot : BOOLEAN,
            finished : BOOLEAN, usage : BOOLEAN, done : BOOLEAN, failed : BOOLEAN,
            strayed : BOOLEAN, bare : BOOLEAN, legal : BOOLEAN]

NewAnswer == [told |-> 0, signed |-> 0, got |-> <<>>, begun |-> FALSE, hot |-> FALSE,
              finished |-> FALSE, usage |-> FALSE, done |-> FALSE, failed |-> FALSE,
              strayed |-> FALSE, bare |-> FALSE, legal |-> TRUE]

Contents == {"text", "refusal", "thinking", "signature", "redacted"}

\* May the event come next?
Allowed(a, e) ==
  CASE e.kind \in Contents -> a.begun /\ ~a.finished /\ ~a.failed
    [] e.kind = "toolstart" -> /\ a.begun /\ ~a.finished /\ ~a.failed
                               /\ e.tool = a.told \/ (e.tool + 1 = a.told /\ a.hot)
    [] e.kind \in {"toolargs", "tooldelta"} -> a.begun /\ ~a.finished /\ ~a.failed /\ e.tool \in 0..(a.told - 1)
    [] e.kind \in {"start", "error"} -> ~a.finished /\ ~a.failed
    [] e.kind \in {"blockstart", "blockstop", "toolstop", "usage"} -> ~a.failed
    [] e.kind = "done" -> a.finished /\ ~a.failed
    [] e.kind = "stop" -> a.failed \/ ~a.finished
    [] OTHER -> FALSE

\* What the event makes of the answer.
After(a, e) ==
  CASE e.kind \in Contents ->
         [a EXCEPT !.got = Append(@, <<e.kind, 0>>), !.hot = FALSE,
                   !.signed = IF e.kind = "signature" THEN @ + 1 ELSE @]
    [] e.kind = "toolstart" ->
         IF e.tool = a.told
         THEN [a EXCEPT !.got = Append(@, <<"call", e.tool>>), !.told = @ + 1, !.hot = TRUE]
         ELSE a
    [] e.kind \in {"toolargs", "tooldelta"} ->
         [a EXCEPT !.got = Append(@, <<"args", e.tool>>),
                   !.strayed = @ \/ ~(a.hot /\ e.tool + 1 = a.told)]
    [] e.kind = "start" -> [a EXCEPT !.begun = TRUE]
    [] e.kind \in {"toolstop", "blockstop"} -> [a EXCEPT !.hot = FALSE]
    [] e.kind = "stop" -> [a EXCEPT !.finished = TRUE, !.hot = FALSE, !.bare = @ \/ ~(a.begun \/ a.failed)]
    [] e.kind = "usage" -> [a EXCEPT !.usage = @ \/ a.finished]
    [] e.kind = "done" -> [a EXCEPT !.done = TRUE]
    [] e.kind = "error" -> [a EXCEPT !.failed = TRUE, !.hot = FALSE]
    [] OTHER -> a

Nonsense == [NewAnswer EXCEPT !.legal = FALSE]
Take(a, e) == IF a.legal /\ Allowed(a, e) THEN After(a, e) ELSE Nonsense

(* ---- folds over sequences, place by place ---- *)

\* Everything that StreamTranslate folds over a sequence: how one step goes.
StepOf(how, x, y) ==
  CASE how.op = "messages" -> EncodeMessages(x, y)
    [] how.op = "responses" -> EncodeResponses(x, y)
    [] how.op = "chunk" -> ChunkWith(x, y)
    [] how.op = "readMessages" -> ReadMessages(x, y)
    [] how.op = "readResponses" -> ReadResponses(x, y)
    [] how.op = "readChat" -> ReadChat(x, y)
    [] how.op = "readCall" -> ReadCall(x, y)
    [] how.op = "close" -> CloseCall(x, y)
    [] how.op = "part" -> DecodePart(x, y)
    [] how.op = "piece" -> PieceOf(x, y)
    [] how.op = "signed" -> Signed(x, y)
    [] how.op = "take" -> Take(x, y)
    [] how.op = "keep" -> IF y[1] \in how.kinds THEN Append(x, y) ELSE x

By(op) == [op |-> op]
Folded(how, base, s) == FoldLeft(LAMBDA x, y : StepOf(how, x, y), base, s)

\* The library's definition, in these words: it folds each set of places from its greatest.
Top(t) == CHOOSE x \in t : \A y \in t : x >= y
Runs(it, how, base, s) ==
  it = [t \in SUBSET DOMAIN s |->
          IF t = {} THEN base ELSE StepOf(how, it[t \ {Top(t)}], s[Top(t)])]

\* The library's fold is a choice among the functions that satisfy its equation.
LEMMA FoldedRuns ==
  ASSUME NEW how, NEW base, NEW s
  PROVE  Folded(how, base, s) = (CHOOSE it : Runs(it, how, base, s))[DOMAIN s]
  BY DEF Folded, Runs, FoldLeft, MapThenFoldSet, Top, Max

\* Induction: a set that has zero, and with each number the next, has all.
LEMMA Upward ==
  ASSUME NEW G, 0 \in G, \A n \in Nat : n \in G => n + 1 \in G
  PROVE  \A n \in Nat : n \in G
<1> DEFINE Missing == Nat \ G
<1> SUFFICES ASSUME Missing # {} PROVE FALSE
  OBVIOUS
<1>1. PICK n \in Missing : \A m \in Missing : ~(<<m, n>> \in OpToRel(<, Nat))
  BY NatLessThanWellFounded, WFMin
<1>2. n \in Nat \ {0}
  BY <1>1
<1>3. n - 1 \in Nat /\ n - 1 < n
  BY <1>2
<1>4. <<n - 1, n>> \in OpToRel(<, Nat)
  BY <1>2, <1>3 DEF OpToRel
<1>5. n - 1 \in G
  BY <1>1, <1>3, <1>4
<1> QED  BY <1>2, <1>3, <1>5

\* Such a fold exists: it is extended from the first n places to n + 1.
LEMMA RunsExist ==
  ASSUME NEW how, NEW base, NEW S, NEW s \in Seq(S)
  PROVE  \E it : Runs(it, how, base, s)
<1> DEFINE Val(it, t) == IF t = {} THEN base ELSE StepOf(how, it[t \ {Top(t)}], s[Top(t)])
           RunsTo(it, n) == it = [t \in SUBSET (1..n) |-> Val(it, t)]
           G == {n \in Nat : \E it : RunsTo(it, n)}
<1>1. 0 \in G
  <2> DEFINE it == [t \in SUBSET (1..0) |-> base]
  <2>1. \A t \in SUBSET (1..0) : t = {}
    OBVIOUS
  <2>2. RunsTo(it, 0)
    BY <2>1
  <2> QED  BY <2>2
<1>2. ASSUME NEW n \in Nat, n \in G PROVE n + 1 \in G
  <2>1. PICK it : RunsTo(it, n)
    BY <1>2
  <2> DEFINE ju == [t \in SUBSET (1..(n + 1)) |-> Val(it, t)]
  <2>2. \A t \in SUBSET (1..n) : ju[t] = it[t]
    <3>1. SUBSET (1..n) \subseteq SUBSET (1..(n + 1))
      OBVIOUS
    <3> QED  BY <2>1, <3>1
  <2>3. \A t \in SUBSET (1..(n + 1)) : t # {} => t \ {Top(t)} \in SUBSET (1..n)
    <3> SUFFICES ASSUME NEW t \in SUBSET (1..(n + 1)), t # {}
                 PROVE  \A i \in t \ {Top(t)} : i \in 1..n
      OBVIOUS
    <3>1. ASSUME n + 1 \in t PROVE Top(t) = n + 1
      <4>1. \A y \in t : n + 1 >= y
        OBVIOUS
      <4>2. \A x \in t : (\A y \in t : x >= y) => x = n + 1
        BY <3>1
      <4> QED  BY <3>1, <4>1, <4>2 DEF Top
    <3> QED  BY <3>1
  <2>4. \A t \in SUBSET (1..(n + 1)) : Val(it, t) = Val(ju, t)
    <3> HIDE DEF ju
    <3> QED  BY <2>2, <2>3
  <2>5. RunsTo(ju, n + 1)
    BY <2>4
  <2> HIDE DEF RunsTo, ju
  <2> QED  BY <2>5
<1>3. Len(s) \in G
  <2> HIDE DEF G
  <2> QED  BY <1>1, <1>2, Upward
<1>4. DOMAIN s = 1..Len(s)
  OBVIOUS
<1> QED  BY <1>3, <1>4 DEF Runs

LEMMA TopOf == ASSUME NEW k \in Nat \ {0} PROVE Top(1..k) = k /\ (1..k) \ {k} = 1..(k - 1) /\ 1..k # {}
<1>1. k \in 1..k /\ \A y \in 1..k : k >= y
  OBVIOUS
<1>2. \A x \in 1..k : (\A y \in 1..k : x >= y) => x = k
  OBVIOUS
<1> QED  BY <1>1, <1>2 DEF Top

\* From place to place.
LEMMA RunsGo ==
  ASSUME NEW how, NEW base, NEW S, NEW s \in Seq(S), NEW it, Runs(it, how, base, s)
  PROVE  /\ it[1..0] = base
         /\ \A k \in 1..Len(s) : it[1..k] = StepOf(how, it[1..(k - 1)], s[k])
<1>1. DOMAIN s = 1..Len(s) /\ Len(s) \in Nat
  OBVIOUS
<1>2. 1..0 = {}
  OBVIOUS
<1>3. ASSUME NEW k \in 1..Len(s) PROVE it[1..k] = StepOf(how, it[1..(k - 1)], s[k])
  <2>1. 1..k \in SUBSET DOMAIN s
    BY <1>1
  <2>2. Top(1..k) = k /\ (1..k) \ {k} = 1..(k - 1) /\ 1..k # {}
    BY TopOf
  <2>3. it[1..k] = StepOf(how, it[(1..k) \ {Top(1..k)}], s[Top(1..k)])
    BY <2>1, <2>2 DEF Runs
  <2> QED  BY <2>2, <2>3
<1> QED  BY <1>1, <1>2, <1>3 DEF Runs

\* Two folds that agree on a beginning of their sequences agree there.
LEMMA RunsAgree ==
  ASSUME NEW how, NEW base, NEW S, NEW s \in Seq(S), NEW t \in Seq(S),
         NEW it, NEW ju, Runs(it, how, base, s), Runs(ju, how, base, t)
  PROVE  \A n \in Nat : n <= Len(s) /\ n <= Len(t) /\ (\A k \in 1..n : s[k] = t[k])
                        => it[1..n] = ju[1..n]
<1> SUFFICES ASSUME NEW n \in Nat, n <= Len(s), n <= Len(t), \A k \in 1..n : s[k] = t[k]
             PROVE  it[1..n] = ju[1..n]
  OBVIOUS
<1> DEFINE G == {k \in Nat : k <= n => it[1..k] = ju[1..k]}
<1>1. 0 \in G
  BY RunsGo
<1>2. ASSUME NEW k \in Nat, k \in G PROVE k + 1 \in G
  <2> SUFFICES ASSUME k + 1 <= n PROVE it[1..(k + 1)] = ju[1..(k + 1)]
    OBVIOUS
  <2>1. it[1..k] = ju[1..k]
    BY <1>2
  <2>2. k + 1 \in 1..n /\ k + 1 \in 1..Len(s) /\ k + 1 \in 1..Len(t) /\ (k + 1) - 1 = k
    OBVIOUS
  <2>3. it[1..(k + 1)] = StepOf(how, it[1..k], s[k + 1])
    BY <2>2, RunsGo
  <2>4. ju[1..(k + 1)] = StepOf(how, ju[1..k], t[k + 1])
    BY <2>2, RunsGo
  <2> QED  BY <2>1, <2>2, <2>3, <2>4
<1> HIDE DEF G
<1>3. n \in G
  BY <1>1, <1>2, Upward
<1> QED  BY <1>3 DEF G

\* The equation has one solution where it matters, so that the choice does not.
LEMMA FoldedIs ==
  ASSUME NEW how, NEW base, NEW S, NEW s \in Seq(S), NEW it, Runs(it, how, base, s)
  PROVE  Folded(how, base, s) = it[1..Len(s)]
<1> DEFINE ju == CHOOSE ju : Runs(ju, how, base, s)
           t == s
           n == Len(s)
<1>1. Runs(ju, how, base, s)
  BY RunsExist
<1>2. Folded(how, base, s) = ju[1..Len(s)]
  BY FoldedRuns
<1>3. /\ t \in Seq(S) /\ Runs(ju, how, base, t)
      /\ n \in Nat /\ n <= Len(s) /\ n <= Len(t) /\ \A k \in 1..n : s[k] = t[k]
  BY <1>1
<1> HIDE DEF ju, t, n
<1>4. it[1..n] = ju[1..n]
  BY <1>3, RunsAgree
<1> QED  BY <1>2, <1>4 DEF n

\* What a fold goes through: one value for each beginning of the sequence.
LEMMA FoldedGoes ==
  ASSUME NEW how, NEW base, NEW S, NEW s \in Seq(S)
  PROVE  \E run : /\ run[0] = base /\ run[Len(s)] = Folded(how, base, s)
                  /\ \A k \in 1..Len(s) : run[k] = StepOf(how, run[k - 1], s[k])
<1>1. PICK it : Runs(it, how, base, s)
  BY RunsExist
<1> DEFINE run == [k \in 0..Len(s) |-> it[1..k]]
<1>2. run[0] = base
  BY <1>1, RunsGo
<1>3. run[Len(s)] = Folded(how, base, s)
  BY <1>1, FoldedIs
<1>4. \A k \in 1..Len(s) : run[k] = StepOf(how, run[k - 1], s[k])
  BY <1>1, RunsGo
<1> QED  BY <1>2, <1>3, <1>4

LEMMA FoldedNone ==
  ASSUME NEW how, NEW base, NEW S, NEW s \in Seq(S), Len(s) = 0
  PROVE  Folded(how, base, s) = base
<1>1. PICK it : Runs(it, how, base, s)
  BY RunsExist
<1>2. Folded(how, base, s) = it[1..Len(s)]
  BY <1>1, FoldedIs
<1>3. it[{}] = base
  BY <1>1 DEF Runs
<1>4. 1..Len(s) = {}
  OBVIOUS
<1> QED  BY <1>2, <1>3, <1>4

LEMMA FoldedEmpty == ASSUME NEW how, NEW base PROVE Folded(how, base, <<>>) = base
<1> DEFINE s == <<>>
           S == {}
<1>1. s \in Seq(S) /\ Len(s) = 0
  OBVIOUS
<1> HIDE DEF s, S
<1>2. Folded(how, base, s) = base
  BY <1>1, FoldedNone
<1> QED  BY <1>2 DEF s

\* One element more, one step more.
LEMMA FoldedAppend ==
  ASSUME NEW how, NEW base, NEW S, NEW s \in Seq(S), NEW x \in S
  PROVE  Folded(how, base, Append(s, x)) = StepOf(how, Folded(how, base, s), x)
<1> DEFINE t == Append(s, x)
<1>1. t \in Seq(S) /\ Len(t) = Len(s) + 1 /\ t[Len(s) + 1] = x /\ \A k \in 1..Len(s) : s[k] = t[k]
  OBVIOUS
<1>2. PICK it : Runs(it, how, base, s)
  BY RunsExist
<1> HIDE DEF t
<1>3. PICK ju : Runs(ju, how, base, t)
  BY <1>1, RunsExist
<1>4. it[1..Len(s)] = ju[1..Len(s)]
  BY <1>1, <1>2, <1>3, RunsAgree
<1>5. ju[1..(Len(s) + 1)] = StepOf(how, ju[1..Len(s)], x)
  <2>1. Len(s) + 1 \in 1..Len(t) /\ (Len(s) + 1) - 1 = Len(s)
    BY <1>1
  <2> QED  BY <1>1, <1>3, <2>1, RunsGo
<1>6. Folded(how, base, t) = ju[1..(Len(s) + 1)] /\ Folded(how, base, s) = it[1..Len(s)]
  BY <1>1, <1>2, <1>3, FoldedIs
<1> QED  BY <1>4, <1>5, <1>6 DEF t

LEMMA FoldedOne ==
  ASSUME NEW how, NEW base, NEW x
  PROVE  Folded(how, base, <<x>>) = StepOf(how, base, x)
<1> DEFINE none == <<>>
           one == {x}
<1>1. <<x>> = Append(none, x) /\ none \in Seq(one) /\ x \in one
  OBVIOUS
<1>2. Folded(how, base, none) = base
  BY FoldedEmpty
<1> HIDE DEF none, one
<1>3. Folded(how, base, Append(none, x)) = StepOf(how, Folded(how, base, none), x)
  BY <1>1, FoldedAppend
<1> QED  BY <1>1, <1>2, <1>3

\* One sequence after the other.
LEMMA FoldedOn ==
  ASSUME NEW how, NEW base, NEW S, NEW s \in Seq(S), NEW t \in Seq(S)
  PROVE  Folded(how, base, s \o t) = Folded(how, Folded(how, base, s), t)
<1> DEFINE st == s \o t
           mid == Folded(how, base, s)
<1>1. /\ st \in Seq(S) /\ Len(st) = Len(s) + Len(t) /\ Len(s) \in Nat /\ Len(t) \in Nat
      /\ \A k \in 1..Len(s) : st[k] = s[k]
      /\ \A k \in 1..Len(t) : st[Len(s) + k] = t[k]
  OBVIOUS
<1> HIDE DEF st
<1>2. PICK it : Runs(it, how, base, s)
  BY RunsExist
<1>3. PICK iu : Runs(iu, how, base, st)
  BY <1>1, RunsExist
<1>4. mid = it[1..Len(s)] /\ Folded(how, base, st) = iu[1..Len(st)]
  BY <1>1, <1>2, <1>3, FoldedIs
<1> HIDE DEF mid
<1>5. PICK ju : Runs(ju, how, mid, t)
  BY RunsExist
<1>6. Folded(how, mid, t) = ju[1..Len(t)]
  BY <1>5, FoldedIs
<1>7. it[1..Len(s)] = iu[1..Len(s)]
  <2> DEFINE n == Len(s)
  <2>1. n \in Nat /\ n <= Len(s) /\ n <= Len(st) /\ \A k \in 1..n : s[k] = st[k]
    BY <1>1
  <2> HIDE DEF n
  <2>2. it[1..n] = iu[1..n]
    BY <1>1, <1>2, <1>3, <2>1, RunsAgree
  <2> QED  BY <2>2 DEF n
<1> DEFINE G == {k \in Nat : k <= Len(t) => ju[1..k] = iu[1..(Len(s) + k)]}
<1>8. 0 \in G
  BY <1>1, <1>4, <1>5, <1>7, RunsGo
<1>9. ASSUME NEW k \in Nat, k \in G PROVE k + 1 \in G
  <2> SUFFICES ASSUME k + 1 <= Len(t) PROVE ju[1..(k + 1)] = iu[1..(Len(s) + (k + 1))]
    OBVIOUS
  <2>1. ju[1..k] = iu[1..(Len(s) + k)]
    BY <1>1, <1>9
  <2> DEFINE m == Len(s) + (k + 1)
  <2>2. k + 1 \in 1..Len(t) /\ (k + 1) - 1 = k /\ m \in 1..Len(st) /\ m - 1 = Len(s) + k /\ st[m] = t[k + 1]
    BY <1>1
  <2> HIDE DEF m
  <2>3. ju[1..(k + 1)] = StepOf(how, ju[1..k], t[k + 1])
    BY <1>5, <2>2, RunsGo
  <2>4. iu[1..m] = StepOf(how, iu[1..(m - 1)], st[m])
    <3>1. \A i \in 1..Len(st) : iu[1..i] = StepOf(how, iu[1..(i - 1)], st[i])
      BY <1>1, <1>3, RunsGo
    <3> QED  BY <2>2, <3>1
  <2> QED  BY <2>1, <2>2, <2>3, <2>4 DEF m
<1> HIDE DEF G
<1>10. Len(t) \in G
  BY <1>1, <1>8, <1>9, Upward
<1> QED  BY <1>1, <1>4, <1>6, <1>10 DEF G, st, mid

\* The folds of the model are these.
LEMMA FoldEncodeMessages ==
  ASSUME NEW base, NEW S, NEW s \in Seq(S)
  PROVE  FoldLeft(EncodeMessages, base, s) = Folded(By("messages"), base, s)
<1> DEFINE how == By("messages")
           Run(it) == it = [t \in SUBSET DOMAIN s |->
                              IF t = {} THEN base ELSE EncodeMessages(it[t \ {Top(t)}], s[Top(t)])]
<1>1. FoldLeft(EncodeMessages, base, s) = (CHOOSE it : Run(it))[DOMAIN s]
  BY DEF FoldLeft, MapThenFoldSet, Top, Max
<1>2. \A x, y : StepOf(how, x, y) = EncodeMessages(x, y)
  BY DEF StepOf, By
<1>3. \A it : Run(it) <=> Runs(it, how, base, s)
  BY <1>2 DEF Runs
<1> HIDE DEF how, Run
<1>4. \E it : Run(it)
  BY <1>3, RunsExist
<1>5. Runs(CHOOSE it : Run(it), how, base, s)
  BY <1>3, <1>4
<1> QED  BY <1>1, <1>5, FoldedIs DEF how

LEMMA FoldEncodeResponses ==
  ASSUME NEW base, NEW S, NEW s \in Seq(S)
  PROVE  FoldLeft(EncodeResponses, base, s) = Folded(By("responses"), base, s)
<1> DEFINE how == By("responses")
           Run(it) == it = [t \in SUBSET DOMAIN s |->
                              IF t = {} THEN base ELSE EncodeResponses(it[t \ {Top(t)}], s[Top(t)])]
<1>1. FoldLeft(EncodeResponses, base, s) = (CHOOSE it : Run(it))[DOMAIN s]
  BY DEF FoldLeft, MapThenFoldSet, Top, Max
<1>2. \A x, y : StepOf(how, x, y) = EncodeResponses(x, y)
  BY DEF StepOf, By
<1>3. \A it : Run(it) <=> Runs(it, how, base, s)
  BY <1>2 DEF Runs
<1> HIDE DEF how, Run
<1>4. \E it : Run(it)
  BY <1>3, RunsExist
<1>5. Runs(CHOOSE it : Run(it), how, base, s)
  BY <1>3, <1>4
<1> QED  BY <1>1, <1>5, FoldedIs DEF how

LEMMA FoldChunkWith ==
  ASSUME NEW base, NEW S, NEW s \in Seq(S)
  PROVE  FoldLeft(ChunkWith, base, s) = Folded(By("chunk"), base, s)
<1> DEFINE how == By("chunk")
           Run(it) == it = [t \in SUBSET DOMAIN s |->
                              IF t = {} THEN base ELSE ChunkWith(it[t \ {Top(t)}], s[Top(t)])]
<1>1. FoldLeft(ChunkWith, base, s) = (CHOOSE it : Run(it))[DOMAIN s]
  BY DEF FoldLeft, MapThenFoldSet, Top, Max
<1>2. \A x, y : StepOf(how, x, y) = ChunkWith(x, y)
  BY DEF StepOf, By
<1>3. \A it : Run(it) <=> Runs(it, how, base, s)
  BY <1>2 DEF Runs
<1> HIDE DEF how, Run
<1>4. \E it : Run(it)
  BY <1>3, RunsExist
<1>5. Runs(CHOOSE it : Run(it), how, base, s)
  BY <1>3, <1>4
<1> QED  BY <1>1, <1>5, FoldedIs DEF how

LEMMA FoldReadMessages ==
  ASSUME NEW base, NEW S, NEW s \in Seq(S)
  PROVE  FoldLeft(ReadMessages, base, s) = Folded(By("readMessages"), base, s)
<1> DEFINE how == By("readMessages")
           Run(it) == it = [t \in SUBSET DOMAIN s |->
                              IF t = {} THEN base ELSE ReadMessages(it[t \ {Top(t)}], s[Top(t)])]
<1>1. FoldLeft(ReadMessages, base, s) = (CHOOSE it : Run(it))[DOMAIN s]
  BY DEF FoldLeft, MapThenFoldSet, Top, Max
<1>2. \A x, y : StepOf(how, x, y) = ReadMessages(x, y)
  BY DEF StepOf, By
<1>3. \A it : Run(it) <=> Runs(it, how, base, s)
  BY <1>2 DEF Runs
<1> HIDE DEF how, Run
<1>4. \E it : Run(it)
  BY <1>3, RunsExist
<1>5. Runs(CHOOSE it : Run(it), how, base, s)
  BY <1>3, <1>4
<1> QED  BY <1>1, <1>5, FoldedIs DEF how

LEMMA FoldReadResponses ==
  ASSUME NEW base, NEW S, NEW s \in Seq(S)
  PROVE  FoldLeft(ReadResponses, base, s) = Folded(By("readResponses"), base, s)
<1> DEFINE how == By("readResponses")
           Run(it) == it = [t \in SUBSET DOMAIN s |->
                              IF t = {} THEN base ELSE ReadResponses(it[t \ {Top(t)}], s[Top(t)])]
<1>1. FoldLeft(ReadResponses, base, s) = (CHOOSE it : Run(it))[DOMAIN s]
  BY DEF FoldLeft, MapThenFoldSet, Top, Max
<1>2. \A x, y : StepOf(how, x, y) = ReadResponses(x, y)
  BY DEF StepOf, By
<1>3. \A it : Run(it) <=> Runs(it, how, base, s)
  BY <1>2 DEF Runs
<1> HIDE DEF how, Run
<1>4. \E it : Run(it)
  BY <1>3, RunsExist
<1>5. Runs(CHOOSE it : Run(it), how, base, s)
  BY <1>3, <1>4
<1> QED  BY <1>1, <1>5, FoldedIs DEF how

LEMMA FoldReadChat ==
  ASSUME NEW base, NEW S, NEW s \in Seq(S)
  PROVE  FoldLeft(ReadChat, base, s) = Folded(By("readChat"), base, s)
<1> DEFINE how == By("readChat")
           Run(it) == it = [t \in SUBSET DOMAIN s |->
                              IF t = {} THEN base ELSE ReadChat(it[t \ {Top(t)}], s[Top(t)])]
<1>1. FoldLeft(ReadChat, base, s) = (CHOOSE it : Run(it))[DOMAIN s]
  BY DEF FoldLeft, MapThenFoldSet, Top, Max
<1>2. \A x, y : StepOf(how, x, y) = ReadChat(x, y)
  BY DEF StepOf, By
<1>3. \A it : Run(it) <=> Runs(it, how, base, s)
  BY <1>2 DEF Runs
<1> HIDE DEF how, Run
<1>4. \E it : Run(it)
  BY <1>3, RunsExist
<1>5. Runs(CHOOSE it : Run(it), how, base, s)
  BY <1>3, <1>4
<1> QED  BY <1>1, <1>5, FoldedIs DEF how

LEMMA FoldReadCall ==
  ASSUME NEW base, NEW S, NEW s \in Seq(S)
  PROVE  FoldLeft(ReadCall, base, s) = Folded(By("readCall"), base, s)
<1> DEFINE how == By("readCall")
           Run(it) == it = [t \in SUBSET DOMAIN s |->
                              IF t = {} THEN base ELSE ReadCall(it[t \ {Top(t)}], s[Top(t)])]
<1>1. FoldLeft(ReadCall, base, s) = (CHOOSE it : Run(it))[DOMAIN s]
  BY DEF FoldLeft, MapThenFoldSet, Top, Max
<1>2. \A x, y : StepOf(how, x, y) = ReadCall(x, y)
  BY DEF StepOf, By
<1>3. \A it : Run(it) <=> Runs(it, how, base, s)
  BY <1>2 DEF Runs
<1> HIDE DEF how, Run
<1>4. \E it : Run(it)
  BY <1>3, RunsExist
<1>5. Runs(CHOOSE it : Run(it), how, base, s)
  BY <1>3, <1>4
<1> QED  BY <1>1, <1>5, FoldedIs DEF how

LEMMA FoldCloseCall ==
  ASSUME NEW base, NEW S, NEW s \in Seq(S)
  PROVE  FoldLeft(CloseCall, base, s) = Folded(By("close"), base, s)
<1> DEFINE how == By("close")
           Run(it) == it = [t \in SUBSET DOMAIN s |->
                              IF t = {} THEN base ELSE CloseCall(it[t \ {Top(t)}], s[Top(t)])]
<1>1. FoldLeft(CloseCall, base, s) = (CHOOSE it : Run(it))[DOMAIN s]
  BY DEF FoldLeft, MapThenFoldSet, Top, Max
<1>2. \A x, y : StepOf(how, x, y) = CloseCall(x, y)
  BY DEF StepOf, By
<1>3. \A it : Run(it) <=> Runs(it, how, base, s)
  BY <1>2 DEF Runs
<1> HIDE DEF how, Run
<1>4. \E it : Run(it)
  BY <1>3, RunsExist
<1>5. Runs(CHOOSE it : Run(it), how, base, s)
  BY <1>3, <1>4
<1> QED  BY <1>1, <1>5, FoldedIs DEF how

LEMMA FoldDecodePart ==
  ASSUME NEW base, NEW S, NEW s \in Seq(S)
  PROVE  FoldLeft(DecodePart, base, s) = Folded(By("part"), base, s)
<1> DEFINE how == By("part")
           Run(it) == it = [t \in SUBSET DOMAIN s |->
                              IF t = {} THEN base ELSE DecodePart(it[t \ {Top(t)}], s[Top(t)])]
<1>1. FoldLeft(DecodePart, base, s) = (CHOOSE it : Run(it))[DOMAIN s]
  BY DEF FoldLeft, MapThenFoldSet, Top, Max
<1>2. \A x, y : StepOf(how, x, y) = DecodePart(x, y)
  BY DEF StepOf, By
<1>3. \A it : Run(it) <=> Runs(it, how, base, s)
  BY <1>2 DEF Runs
<1> HIDE DEF how, Run
<1>4. \E it : Run(it)
  BY <1>3, RunsExist
<1>5. Runs(CHOOSE it : Run(it), how, base, s)
  BY <1>3, <1>4
<1> QED  BY <1>1, <1>5, FoldedIs DEF how

LEMMA FoldPieceOf ==
  ASSUME NEW base, NEW S, NEW s \in Seq(S)
  PROVE  FoldLeft(PieceOf, base, s) = Folded(By("piece"), base, s)
<1> DEFINE how == By("piece")
           Run(it) == it = [t \in SUBSET DOMAIN s |->
                              IF t = {} THEN base ELSE PieceOf(it[t \ {Top(t)}], s[Top(t)])]
<1>1. FoldLeft(PieceOf, base, s) = (CHOOSE it : Run(it))[DOMAIN s]
  BY DEF FoldLeft, MapThenFoldSet, Top, Max
<1>2. \A x, y : StepOf(how, x, y) = PieceOf(x, y)
  BY DEF StepOf, By
<1>3. \A it : Run(it) <=> Runs(it, how, base, s)
  BY <1>2 DEF Runs
<1> HIDE DEF how, Run
<1>4. \E it : Run(it)
  BY <1>3, RunsExist
<1>5. Runs(CHOOSE it : Run(it), how, base, s)
  BY <1>3, <1>4
<1> QED  BY <1>1, <1>5, FoldedIs DEF how

LEMMA FoldSigned ==
  ASSUME NEW base, NEW S, NEW s \in Seq(S)
  PROVE  FoldLeft(Signed, base, s) = Folded(By("signed"), base, s)
<1> DEFINE how == By("signed")
           Run(it) == it = [t \in SUBSET DOMAIN s |->
                              IF t = {} THEN base ELSE Signed(it[t \ {Top(t)}], s[Top(t)])]
<1>1. FoldLeft(Signed, base, s) = (CHOOSE it : Run(it))[DOMAIN s]
  BY DEF FoldLeft, MapThenFoldSet, Top, Max
<1>2. \A x, y : StepOf(how, x, y) = Signed(x, y)
  BY DEF StepOf, By
<1>3. \A it : Run(it) <=> Runs(it, how, base, s)
  BY <1>2 DEF Runs
<1> HIDE DEF how, Run
<1>4. \E it : Run(it)
  BY <1>3, RunsExist
<1>5. Runs(CHOOSE it : Run(it), how, base, s)
  BY <1>3, <1>4
<1> QED  BY <1>1, <1>5, FoldedIs DEF how

LEMMA FoldPieces ==
  ASSUME NEW S, NEW s \in Seq(S), NEW kinds
  PROVE  Pieces(s, kinds) = Folded([op |-> "keep", kinds |-> kinds], <<>>, s)
<1> DEFINE how == [op |-> "keep", kinds |-> kinds]
           Run(it) == it = [t \in SUBSET DOMAIN s |->
                              IF t = {} THEN <<>>
                              ELSE IF s[Top(t)][1] \in kinds THEN Append(it[t \ {Top(t)}], s[Top(t)])
                              ELSE it[t \ {Top(t)}]]
<1>1. Pieces(s, kinds) = (CHOOSE it : Run(it))[DOMAIN s]
  BY DEF Pieces, FoldLeft, MapThenFoldSet, Top, Max
<1>2. \A x, y : StepOf(how, x, y) = IF y[1] \in kinds THEN Append(x, y) ELSE x
  BY DEF StepOf
<1>3. \A it : Run(it) <=> Runs(it, how, <<>>, s)
  BY <1>2 DEF Runs
<1> HIDE DEF how, Run
<1>4. \E it : Run(it)
  BY <1>3, RunsExist
<1>5. Runs(CHOOSE it : Run(it), how, <<>>, s)
  BY <1>3, <1>4
<1> QED  BY <1>1, <1>5, FoldedIs DEF how

Took(a, s) == Folded(By("take"), a, s)

\* What lawful events make of an answer, kind by kind.
LEMMA TakeLawful ==
  ASSUME NEW a \in Answers, NEW e \in Occurrences, Allowed(a, e), a.legal
  PROVE  Take(a, e) = After(a, e) /\ After(a, e) \in Answers /\ After(a, e).legal
<1>1. CASE e.kind \in Contents
  <2>1. <<e.kind, 0>> \in Pairs
    BY <1>1 DEF Contents, Pairs, Words
  <2>2. After(a, e) = [a EXCEPT !.got = Append(@, <<e.kind, 0>>), !.hot = FALSE,
                   !.signed = IF e.kind = "signature" THEN @ + 1 ELSE @]
    BY <1>1 DEF After, Contents
  <2>3. After(a, e) \in Answers /\ After(a, e).legal
    <3> DEFINE g == Append(a.got, <<e.kind, 0>>)
               n == IF e.kind = "signature" THEN a.signed + 1 ELSE a.signed
    <3>1. g \in Seq(Pairs) /\ n \in Nat
      BY <2>1 DEF Answers
    <3>2. After(a, e) = [a EXCEPT !.got = g, !.hot = FALSE, !.signed = n]
      BY <2>2
    <3> HIDE DEF g, n
    <3> QED  BY <3>1, <3>2 DEF Answers
  <2> QED  BY <2>3 DEF Take
<1>2. CASE e.kind = "toolstart"
  <2>1. e.tool = a.told => <<"call", e.tool>> \in Pairs
    BY DEF Answers, Pairs, Words
  <2>2. After(a, e) = IF e.tool = a.told
         THEN [a EXCEPT !.got = Append(@, <<"call", e.tool>>), !.told = @ + 1, !.hot = TRUE]
         ELSE a
    BY <1>2 DEF After, Contents
  <2>3. After(a, e) \in Answers /\ After(a, e).legal
    <3> DEFINE g == Append(a.got, <<"call", e.tool>>)
               n == a.told + 1
    <3>1. n \in Nat /\ (e.tool = a.told => g \in Seq(Pairs))
      BY <2>1 DEF Answers
    <3>2. After(a, e) = IF e.tool = a.told THEN [a EXCEPT !.got = g, !.told = n, !.hot = TRUE] ELSE a
      BY <2>2
    <3> HIDE DEF g, n
    <3>3. CASE e.tool = a.told
      <4>1. After(a, e) = [a EXCEPT !.got = g, !.told = n, !.hot = TRUE]
        BY <3>2, <3>3
      <4>2. g \in Seq(Pairs)
        BY <3>1, <3>3
      <4> QED  BY <3>1, <4>1, <4>2 DEF Answers
    <3>4. CASE e.tool # a.told
      <4>1. After(a, e) = a
        BY <3>2, <3>4
      <4> QED  BY <4>1
    <3> QED  BY <3>3, <3>4
  <2> QED  BY <2>3 DEF Take
<1>3. CASE e.kind \in {"toolargs", "tooldelta"}
  <2>1. <<"args", e.tool>> \in Pairs
    BY DEF Occurrences, Pairs, Words
  <2>2. After(a, e) = [a EXCEPT !.got = Append(@, <<"args", e.tool>>),
                   !.strayed = @ \/ ~(a.hot /\ e.tool + 1 = a.told)]
    BY <1>3 DEF After, Contents
  <2>3. After(a, e) \in Answers /\ After(a, e).legal
    <3> DEFINE g == Append(a.got, <<"args", e.tool>>)
               z == a.strayed \/ ~(a.hot /\ e.tool + 1 = a.told)
    <3>1. g \in Seq(Pairs) /\ z \in BOOLEAN
      BY <2>1 DEF Answers
    <3>2. After(a, e) = [a EXCEPT !.got = g, !.strayed = z]
      BY <2>2
    <3> HIDE DEF g, z
    <3> QED  BY <3>1, <3>2 DEF Answers
  <2> QED  BY <2>3 DEF Take
<1>4. CASE e.kind \notin Contents \union {"toolstart", "toolargs", "tooldelta"}
  <2>1. After(a, e) \in Answers /\ After(a, e).legal
    BY ZenonT(60), <1>4 DEF After, Contents, Answers, Allowed
  <2> QED  BY <2>1 DEF Take
<1> QED  BY <1>1, <1>2, <1>3, <1>4

LEMMA TookNone == ASSUME NEW a PROVE Took(a, <<>>) = a
  BY FoldedEmpty DEF Took

LEMMA TookOne == ASSUME NEW a, NEW e PROVE Took(a, <<e>>) = Take(a, e)
<1>1. \A x, y : StepOf(By("take"), x, y) = Take(x, y)
  BY DEF StepOf, By
<1> QED  BY <1>1, FoldedOne DEF Took

LEMMA TookAppend ==
  ASSUME NEW a, NEW S, NEW s \in Seq(S), NEW e \in S
  PROVE  Took(a, Append(s, e)) = Take(Took(a, s), e)
<1>1. \A x, y : StepOf(By("take"), x, y) = Take(x, y)
  BY DEF StepOf, By
<1> QED  BY <1>1, FoldedAppend DEF Took

LEMMA TookOn ==
  ASSUME NEW a, NEW S, NEW s \in Seq(S), NEW t \in Seq(S)
  PROVE  Took(a, s \o t) = Took(Took(a, s), t)
  BY FoldedOn DEF Took

(* ---- the pieces of some kinds among others ---- *)

LEMMA PiecesNone == ASSUME NEW kinds PROVE Pieces(<<>>, kinds) = <<>>
<1> DEFINE none == <<>>
           S == {}
           how == [op |-> "keep", kinds |-> kinds]
<1>1. none \in Seq(S)
  OBVIOUS
<1>2. Folded(how, none, none) = none
  BY FoldedEmpty
<1> HIDE DEF none, S
<1>3. Pieces(none, kinds) = Folded(how, <<>>, none)
  BY <1>1, FoldPieces
<1> QED  BY <1>2, <1>3 DEF none

LEMMA PiecesAppend ==
  ASSUME NEW S, NEW s \in Seq(S), NEW p \in S, NEW kinds
  PROVE  Pieces(Append(s, p), kinds) = IF p[1] \in kinds THEN Append(Pieces(s, kinds), p) ELSE Pieces(s, kinds)
<1> DEFINE how == [op |-> "keep", kinds |-> kinds]
           t == Append(s, p)
<1>1. t \in Seq(S)
  OBVIOUS
<1>2. \A x, y : StepOf(how, x, y) = IF y[1] \in kinds THEN Append(x, y) ELSE x
  BY DEF StepOf
<1>3. Folded(how, <<>>, t) = StepOf(how, Folded(how, <<>>, s), p)
  BY FoldedAppend
<1>4. Pieces(s, kinds) = Folded(how, <<>>, s)
  BY FoldPieces
<1> HIDE DEF t
<1>5. Pieces(t, kinds) = Folded(how, <<>>, t)
  BY <1>1, FoldPieces
<1> QED  BY <1>2, <1>3, <1>4, <1>5 DEF t

LEMMA SplitLast ==
  ASSUME NEW S
  PROVE  \A s \in Seq(S) : Len(s) > 0 => \E f \in Seq(S), x \in S : s = Append(f, x) /\ Len(s) = Len(f) + 1
<1> TAKE s \in Seq(S)
<1> HAVE Len(s) > 0
<1> DEFINE f == [i \in 1..(Len(s) - 1) |-> s[i]]
<1>1. f \in Seq(S) /\ Len(f) = Len(s) - 1 /\ s[Len(s)] \in S
  OBVIOUS
<1>2. s = Append(f, s[Len(s)])
  OBVIOUS
<1> HIDE DEF f
<1> QED  BY <1>1, <1>2

LEMMA PiecesSeq ==
  ASSUME NEW S, NEW kinds
  PROVE  \A s \in Seq(S) : Pieces(s, kinds) \in Seq(S)
<1> DEFINE G == {n \in Nat : \A s \in Seq(S) : Len(s) = n => Pieces(s, kinds) \in Seq(S)}
<1>1. 0 \in G
  <2>1. \A s \in Seq(S) : Len(s) = 0 => s = <<>>
    OBVIOUS
  <2> QED  BY <2>1, PiecesNone
<1>2. ASSUME NEW n \in Nat, n \in G PROVE n + 1 \in G
  <2> SUFFICES ASSUME NEW s \in Seq(S), Len(s) = n + 1 PROVE Pieces(s, kinds) \in Seq(S)
    OBVIOUS
  <2>1. PICK f \in Seq(S), x \in S : s = Append(f, x) /\ Len(s) = Len(f) + 1
    BY SplitLast
  <2>2. Len(f) = n
    BY <2>1
  <2>3. Pieces(f, kinds) \in Seq(S)
    BY <1>2, <2>2
  <2>4. Pieces(Append(f, x), kinds) = IF x[1] \in kinds THEN Append(Pieces(f, kinds), x) ELSE Pieces(f, kinds)
    BY PiecesAppend
  <2> QED  BY <2>1, <2>3, <2>4
<1> HIDE DEF G
<1>3. \A n \in Nat : n \in G
  BY <1>1, <1>2, Upward
<1> QED  BY <1>3 DEF G

\* The pieces of one sequence after another's.
LEMMA PiecesOn ==
  ASSUME NEW S, NEW kinds, NEW r \in Seq(S)
  PROVE  \A s \in Seq(S) : Pieces(r \o s, kinds) = Pieces(r, kinds) \o Pieces(s, kinds)
<1> DEFINE G == {n \in Nat : \A s \in Seq(S) : Len(s) = n => Pieces(r \o s, kinds) = Pieces(r, kinds) \o Pieces(s, kinds)}
<1>0. \A s \in Seq(S) : Pieces(s, kinds) \in Seq(S)
  BY PiecesSeq
<1>1. 0 \in G
  <2>1. \A s \in Seq(S) : Len(s) = 0 => s = <<>> /\ r \o s = r
    OBVIOUS
  <2>2. Pieces(r, kinds) \o <<>> = Pieces(r, kinds)
    BY <1>0
  <2> QED  BY <2>1, <2>2, PiecesNone
<1>2. ASSUME NEW n \in Nat, n \in G PROVE n + 1 \in G
  <2> SUFFICES ASSUME NEW s \in Seq(S), Len(s) = n + 1
               PROVE  Pieces(r \o s, kinds) = Pieces(r, kinds) \o Pieces(s, kinds)
    OBVIOUS
  <2>1. PICK f \in Seq(S), x \in S : s = Append(f, x) /\ Len(s) = Len(f) + 1
    <3>1. Len(s) > 0
      OBVIOUS
    <3> QED  BY <3>1, SplitLast
  <2>2. Len(f) = n
    BY <2>1
  <2>3. Pieces(r \o f, kinds) = Pieces(r, kinds) \o Pieces(f, kinds)
    BY <1>2, <2>2
  <2>4. Pieces(Append(f, x), kinds) = IF x[1] \in kinds THEN Append(Pieces(f, kinds), x) ELSE Pieces(f, kinds)
    BY PiecesAppend
  <2> DEFINE rf == r \o f
  <2>5. r \o s = Append(rf, x) /\ rf \in Seq(S)
    BY <2>1
  <2> HIDE DEF rf
  <2>6. Pieces(Append(rf, x), kinds) = IF x[1] \in kinds THEN Append(Pieces(rf, kinds), x) ELSE Pieces(rf, kinds)
    BY <2>5, PiecesAppend
  <2>7. \A y \in Seq(S), z \in Seq(S) : y \o Append(z, x) = Append(y \o z, x)
    OBVIOUS
  <2>8. Pieces(f, kinds) \in Seq(S) /\ Pieces(r, kinds) \in Seq(S)
    BY <1>0
  <2> QED  BY ZenonT(60), <2>1, <2>3, <2>4, <2>5, <2>6, <2>7, <2>8 DEF rf
<1> HIDE DEF G
<1>3. \A n \in Nat : n \in G
  BY <1>1, <1>2, Upward
<1> QED  BY <1>3 DEF G

LEMMA PiecesOf ==
  ASSUME NEW S, NEW kinds, NEW some, NEW both, \A k : k \in both <=> k \in kinds /\ k \in some
  PROVE  \A s \in Seq(S) : Pieces(Pieces(s, kinds), some) = Pieces(s, both)
<1> DEFINE G == {n \in Nat : \A s \in Seq(S) : Len(s) = n => Pieces(Pieces(s, kinds), some) = Pieces(s, both)}
<1>1. 0 \in G
  <2>1. \A s \in Seq(S) : Len(s) = 0 => s = <<>>
    OBVIOUS
  <2> QED  BY <2>1, PiecesNone
<1>2. ASSUME NEW n \in Nat, n \in G PROVE n + 1 \in G
  <2> SUFFICES ASSUME NEW s \in Seq(S), Len(s) = n + 1
               PROVE  Pieces(Pieces(s, kinds), some) = Pieces(s, both)
    OBVIOUS
  <2>1. PICK f \in Seq(S), x \in S : s = Append(f, x) /\ Len(s) = Len(f) + 1
    BY SplitLast
  <2>2. Len(f) = n
    BY <2>1
  <2>3. Pieces(Pieces(f, kinds), some) = Pieces(f, both)
    BY <1>2, <2>2
  <2> DEFINE kf == Pieces(f, kinds)
  <2>4. Pieces(Append(f, x), kinds) = IF x[1] \in kinds THEN Append(kf, x) ELSE kf
    BY PiecesAppend
  <2>5. kf \in Seq(S)
    BY PiecesSeq
  <2>6. x[1] \in both <=> x[1] \in kinds /\ x[1] \in some
    OBVIOUS
  <2> HIDE DEF kf
  <2>7. Pieces(Append(kf, x), some) = IF x[1] \in some THEN Append(Pieces(kf, some), x) ELSE Pieces(kf, some)
    BY <2>5, PiecesAppend
  <2>8. Pieces(Append(f, x), both) = IF x[1] \in both THEN Append(Pieces(f, both), x) ELSE Pieces(f, both)
    BY PiecesAppend
  <2> QED  BY <2>1, <2>3, <2>4, <2>6, <2>7, <2>8 DEF kf
<1> HIDE DEF G
<1>3. \A n \in Nat : n \in G
  BY <1>1, <1>2, Upward
<1> QED  BY <1>3 DEF G

Items == [what : Pairs, open : BOOLEAN, part : {"none", "text", "refusal"}, parts : Seq(Pairs)]
Views == [phase : {"new", "open", "stopping", "finished", "ended", "failed"}, next : Nat, open : Pairs,
          items : Seq(Items), done : Seq(Nat), signatures : Nat, late : BOOLEAN, got : Seq(Pairs), ok : BOOLEAN]
MessageWires == [type : {"message_start", "block_start", "block_delta", "block_stop", "message_delta",
                         "message_stop", "error"}, at : Nat, piece : Pairs]
MessageEncoders ==
  [started : BOOLEAN, index : Nat, open : {"none", "text", "thinking", "redacted", "call"}, tools : SUBSET Nat,
   finished : BOOLEAN, stopped : BOOLEAN, out : Seq(MessageWires)]

MessagesSeen(m, v) == FoldLeft(ReadMessages, v, m.out)

\* What the client has read after one frame more.
LEMMA MessagesEmit ==
  ASSUME NEW m \in MessageEncoders, NEW w \in MessageWires, NEW v
  PROVE  /\ Emit(m, w) = [m EXCEPT !.out = Append(m.out, w)]
         /\ Emit(m, w) \in MessageEncoders
         /\ MessagesSeen(Emit(m, w), v) = ReadMessages(MessagesSeen(m, v), w)
<1> DEFINE o == Append(m.out, w)
<1>1. m.out \in Seq(MessageWires) /\ o \in Seq(MessageWires)
  BY DEF MessageEncoders
<1>2. Emit(m, w) = [m EXCEPT !.out = o]
  BY DEF Emit
<1> HIDE DEF o
<1>3. Emit(m, w) \in MessageEncoders /\ Emit(m, w).out = o
  BY <1>1, <1>2 DEF MessageEncoders
<1>4. FoldLeft(ReadMessages, v, o) = Folded(By("readMessages"), v, o)
  BY <1>1, FoldReadMessages
<1>5. FoldLeft(ReadMessages, v, m.out) = Folded(By("readMessages"), v, m.out)
  BY <1>1, FoldReadMessages
<1>6. \A x, y : StepOf(By("readMessages"), x, y) = ReadMessages(x, y)
  BY DEF StepOf, By
<1>7. Folded(By("readMessages"), v, o) = StepOf(By("readMessages"), Folded(By("readMessages"), v, m.out), w)
  BY <1>1, FoldedAppend DEF o
<1> QED  BY <1>2, <1>3, <1>4, <1>5, <1>6, <1>7 DEF MessagesSeen, o

LEMMA StillOk == ASSUME NEW v \in Views PROVE [v EXCEPT !.ok = v.ok] = v
  BY DEF Views

LEMMA ReadsStart ==
  ASSUME NEW v \in Views, v.phase = "new"
  PROVE  ReadMessages(v, Wire("message_start", 0, NoPiece)) = [v EXCEPT !.phase = "open"]
<1>1. Must(v, v.phase = "new") = v
  BY StillOk DEF Must, Views
<1> QED  BY <1>1 DEF ReadMessages, Wire

LEMMA ReadsBlockStart ==
  ASSUME NEW v \in Views, v.phase = "open", v.open = NoPiece, NEW p \in Pairs
  PROVE  ReadMessages(v, Wire("block_start", v.next, p))
         = [v EXCEPT !.open = p, !.got = v.got \o If(p[1] \in {"call", "redacted"}, <<p>>)]
<1>1. Must(v, v.phase = "open" /\ v.open = NoPiece /\ v.next = v.next) = v
  BY StillOk DEF Must, Views
<1> QED  BY <1>1 DEF ReadMessages, Wire

LEMMA ReadsBlockDelta ==
  ASSUME NEW v \in Views, v.phase = "open", NEW p \in Pairs
  PROVE  ReadMessages(v, Wire("block_delta", v.next, p))
         = [v EXCEPT !.ok = v.ok /\ Fits(v.open, p), !.got = Append(v.got, p)]
<1>1. Must(v, v.phase = "open" /\ v.next = v.next /\ Fits(v.open, p)) = [v EXCEPT !.ok = v.ok /\ Fits(v.open, p)]
  BY DEF Must, Views
<1> QED  BY <1>1 DEF ReadMessages, Wire, Got, Views

LEMMA ReadsBlockStop ==
  ASSUME NEW v \in Views, v.phase # "failed", v.open # NoPiece
  PROVE  ReadMessages(v, Wire("block_stop", v.next, NoPiece)) = [v EXCEPT !.open = NoPiece, !.next = v.next + 1]
<1>1. Must(v, v.open # NoPiece /\ v.next = v.next) = v
  BY StillOk DEF Must, Views
<1> QED  BY <1>1 DEF ReadMessages, Wire

LEMMA ReadsMessageDelta ==
  ASSUME NEW v \in Views, v.phase = "open", v.open = NoPiece
  PROVE  ReadMessages(v, Wire("message_delta", 0, NoPiece)) = [v EXCEPT !.phase = "stopping"]
<1>1. Must(v, v.phase = "open" /\ v.open = NoPiece) = v
  BY StillOk DEF Must, Views
<1> QED  BY <1>1 DEF ReadMessages, Wire

LEMMA ReadsMessageStop ==
  ASSUME NEW v \in Views, v.phase = "stopping"
  PROVE  ReadMessages(v, Wire("message_stop", 0, NoPiece)) = [v EXCEPT !.phase = "ended"]
<1>1. Must(v, v.phase = "stopping") = v
  BY StillOk DEF Must, Views
<1> QED  BY <1>1 DEF ReadMessages, Wire

LEMMA ReadsError ==
  ASSUME NEW v \in Views, v.phase \notin {"ended", "failed"}
  PROVE  ReadMessages(v, Wire("error", 0, NoPiece)) = [v EXCEPT !.phase = "failed"]
<1>1. Must(v, v.phase # "ended") = v
  BY StillOk DEF Must, Views
<1> QED  BY <1>1 DEF ReadMessages, Wire

LEMMA ReadsNoMore ==
  ASSUME NEW v \in Views, v.phase = "failed", NEW w, w.type # "message_stop"
  PROVE  ReadMessages(v, w) = v
  BY StillOk DEF Must, Views, ReadMessages

MessagesKinds == {"text", "thinking", "signature", "redacted", "call", "args"}
WithBlock(got, what, n) == IF what \in {"call", "redacted"} THEN Append(got, <<what, n>>) ELSE got
Opens(m, v) == IF m.open = "none" THEN v.open = NoPiece ELSE v.open[1] = m.open

LEMMA NonePair == NoPiece \in Pairs
  BY DEF NoPiece, Pairs, Words

Starts(m, v, u, q) ==
  /\ q \in MessageEncoders /\ q = [m EXCEPT !.started = TRUE, !.out = q.out]
  /\ MessagesSeen(q, v) = [u EXCEPT !.phase = "open"]

LEMMA StartedSeen ==
  ASSUME NEW m \in MessageEncoders, NEW v, NEW u \in Views, u = MessagesSeen(m, v),
         u.phase = IF m.started THEN "open" ELSE "new"
  PROVE  Starts(m, v, u, EnsureStarted(m))
<1>1. CASE m.started
  <2>1. EnsureStarted(m) = m
    BY <1>1 DEF EnsureStarted
  <2>2. m = [m EXCEPT !.started = TRUE, !.out = m.out]
    BY <1>1 DEF MessageEncoders
  <2>3. u = [u EXCEPT !.phase = "open"]
    BY <1>1 DEF Views
  <2> QED  BY <2>1, <2>2, <2>3 DEF Starts
<1>2. CASE ~m.started
  <2> DEFINE n == [m EXCEPT !.started = TRUE]
             w == Wire("message_start", 0, NoPiece)
             q == Emit(n, w)
  <2>1. EnsureStarted(m) = q
    BY <1>2 DEF EnsureStarted
  <2>2. n \in MessageEncoders /\ n.out = m.out /\ w \in MessageWires
    BY NonePair DEF MessageEncoders, Wire, MessageWires
  <2>3. MessagesSeen(n, v) = u
    BY <2>2 DEF MessagesSeen
  <2>4. u.phase = "new"
    BY <1>2
  <2>5. ReadMessages(u, w) = [u EXCEPT !.phase = "open"]
    BY <2>4, ReadsStart
  <2> HIDE DEF n, w
  <2>6. q = [n EXCEPT !.out = Append(n.out, w)] /\ q \in MessageEncoders /\ MessagesSeen(q, v) = ReadMessages(u, w)
    BY <2>2, <2>3, MessagesEmit
  <2>7. q = [m EXCEPT !.started = TRUE, !.out = q.out]
    BY <2>6 DEF n, MessageEncoders
  <2> HIDE DEF q
  <2> QED  BY <2>1, <2>5, <2>6, <2>7 DEF Starts
<1> QED  BY <1>1, <1>2 DEF Starts

Closes(m, v, u, q) ==
  /\ q \in MessageEncoders /\ q = [m EXCEPT !.open = "none", !.index = q.index, !.out = q.out]
  /\ MessagesSeen(q, v) = [u EXCEPT !.open = NoPiece, !.next = q.index]

LEMMA ClosedSeen ==
  ASSUME NEW m \in MessageEncoders, NEW v, NEW u \in Views, u = MessagesSeen(m, v),
         u.phase # "failed", u.next = m.index, Opens(m, u)
  PROVE  Closes(m, v, u, CloseOpenBlock(m))
<1>1. CASE m.open = "none"
  <2>1. CloseOpenBlock(m) = m
    BY <1>1 DEF CloseOpenBlock
  <2>2. m = [m EXCEPT !.open = "none", !.index = m.index, !.out = m.out]
    BY <1>1 DEF MessageEncoders
  <2>3. u = [u EXCEPT !.open = NoPiece, !.next = m.index]
    BY <1>1 DEF Views, Opens
  <2> QED  BY <2>1, <2>2, <2>3 DEF Closes
<1>2. CASE m.open # "none"
  <2> DEFINE w == Wire("block_stop", m.index, NoPiece)
             n == Emit(m, w)
             q == [n EXCEPT !.open = "none", !.index = @ + 1]
  <2>1. CloseOpenBlock(m) = q
    BY <1>2 DEF CloseOpenBlock
  <2>2. w \in MessageWires
    BY NonePair DEF Wire, MessageWires, MessageEncoders
  <2>3. u.open # NoPiece
    BY <1>2 DEF Opens, NoPiece
  <2>4. ReadMessages(u, w) = [u EXCEPT !.open = NoPiece, !.next = m.index + 1]
    BY <2>3, ReadsBlockStop
  <2> HIDE DEF w
  <2>5. n = [m EXCEPT !.out = Append(m.out, w)] /\ n \in MessageEncoders /\ MessagesSeen(n, v) = ReadMessages(u, w)
    BY <2>2, MessagesEmit
  <2> HIDE DEF n
  <2>9. n.index = m.index /\ m.index + 1 \in Nat
    BY <2>5 DEF MessageEncoders
  <2>6. q \in MessageEncoders /\ q.out = n.out /\ q.index = m.index + 1
    <3> DEFINE i == m.index + 1
    <3>1. q = [n EXCEPT !.open = "none", !.index = i] /\ i \in Nat
      BY <2>9
    <3> HIDE DEF i, q
    <3>2. q \in MessageEncoders /\ q.out = n.out /\ q.index = i
      BY <2>5, <3>1 DEF MessageEncoders
    <3> QED  BY <3>2 DEF i
  <2>7. q = [m EXCEPT !.open = "none", !.index = q.index, !.out = q.out]
    BY <2>5 DEF MessageEncoders
  <2>8. MessagesSeen(q, v) = MessagesSeen(n, v)
    BY <2>6 DEF MessagesSeen
  <2> HIDE DEF q
  <2> QED  BY <2>1, <2>4, <2>5, <2>6, <2>7, <2>8 DEF Closes
<1> QED  BY <1>1, <1>2 DEF Closes

Begins(m, v, u, what, n, q) ==
  /\ q \in MessageEncoders /\ q = [m EXCEPT !.open = what, !.out = q.out]
  /\ MessagesSeen(q, v) = [u EXCEPT !.open = <<what, n>>, !.got = WithBlock(u.got, what, n)]

LEMMA BlockStartSeen ==
  ASSUME NEW m \in MessageEncoders, NEW v, NEW u \in Views, u = MessagesSeen(m, v),
         u.phase = "open", u.next = m.index, u.open = NoPiece,
         NEW what \in {"text", "thinking", "redacted", "call"}, NEW n \in Nat
  PROVE  Begins(m, v, u, what, n, BlockStart(m, what, n))
<1> DEFINE p == <<what, n>>
           w == Wire("block_start", m.index, p)
           k == [m EXCEPT !.open = what]
           q == Emit(k, w)
           g == u.got \o If(p[1] \in {"call", "redacted"}, <<p>>)
<1>1. BlockStart(m, what, n) = q
  BY DEF BlockStart
<1>2. p \in Pairs /\ p[1] = what
  BY DEF Pairs, Words
<1>8. g = WithBlock(u.got, what, n)
  <2>1. u.got \in Seq(Pairs)
    BY DEF Views
  <2>2. CASE what \in {"call", "redacted"}
    <3>1. g = u.got \o <<p>>
      BY <1>2, <2>2 DEF If
    <3>2. WithBlock(u.got, what, n) = Append(u.got, p)
      BY <2>2 DEF WithBlock
    <3> HIDE DEF p, g
    <3> QED  BY <2>1, <3>1, <3>2, <1>2
  <2>3. CASE what \notin {"call", "redacted"}
    <3>1. g = u.got \o <<>>
      BY <1>2, <2>3 DEF If
    <3> HIDE DEF g
    <3> QED  BY <2>1, <2>3, <3>1 DEF WithBlock
  <2> QED  BY <2>2, <2>3
<1> HIDE DEF p
<1>3. w \in MessageWires /\ k \in MessageEncoders /\ k.out = m.out
  BY <1>2 DEF MessageEncoders, MessageWires, Wire
<1>4. ReadMessages(u, w) = [u EXCEPT !.open = p, !.got = g]
  BY <1>2, ReadsBlockStart
<1>5. MessagesSeen(k, v) = u
  BY <1>3 DEF MessagesSeen
<1> HIDE DEF w, k, g
<1>6. q = [k EXCEPT !.out = Append(k.out, w)] /\ q \in MessageEncoders /\ MessagesSeen(q, v) = ReadMessages(u, w)
  BY <1>3, <1>5, MessagesEmit
<1>7. q = [m EXCEPT !.open = what, !.out = q.out]
  BY <1>6 DEF k, MessageEncoders
<1> HIDE DEF q
<1> QED  BY <1>1, <1>4, <1>6, <1>7, <1>8 DEF p, Begins

Grows(m, v, u, p, q) ==
  /\ q \in MessageEncoders /\ q = [m EXCEPT !.out = q.out]
  /\ MessagesSeen(q, v) = [u EXCEPT !.ok = u.ok /\ Fits(u.open, p), !.got = Append(u.got, p)]

LEMMA BlockDeltaSeen ==
  ASSUME NEW m \in MessageEncoders, NEW v, NEW u \in Views, u = MessagesSeen(m, v),
         u.phase = "open", u.next = m.index, NEW p \in Pairs
  PROVE  Grows(m, v, u, p, BlockDelta(m, p))
<1> DEFINE w == Wire("block_delta", m.index, p)
           q == Emit(m, w)
<1>1. BlockDelta(m, p) = q
  BY DEF BlockDelta
<1>2. w \in MessageWires
  BY DEF MessageEncoders, MessageWires, Wire
<1>3. ReadMessages(u, w) = [u EXCEPT !.ok = u.ok /\ Fits(u.open, p), !.got = Append(u.got, p)]
  BY ReadsBlockDelta
<1> HIDE DEF w
<1>4. q = [m EXCEPT !.out = Append(m.out, w)] /\ q \in MessageEncoders /\ MessagesSeen(q, v) = ReadMessages(u, w)
  BY <1>2, MessagesEmit
<1>5. q = [m EXCEPT !.out = q.out]
  BY <1>4 DEF MessageEncoders
<1> HIDE DEF q
<1> QED  BY <1>1, <1>3, <1>4, <1>5 DEF Grows

Finalizes(m, v, u, q) ==
  /\ q \in MessageEncoders /\ q = [m EXCEPT !.stopped = TRUE, !.out = q.out]
  /\ MessagesSeen(q, v) = [u EXCEPT !.phase = "ended"]

LEMMA FinalizedSeen ==
  ASSUME NEW m \in MessageEncoders, NEW v, NEW u \in Views, u = MessagesSeen(m, v),
         u.phase = "open", u.open = NoPiece
  PROVE  Finalizes(m, v, u, FinalizeMessage(m))
<1> DEFINE w == Wire("message_delta", 0, NoPiece)
           x == Wire("message_stop", 0, NoPiece)
           k == [m EXCEPT !.stopped = TRUE]
           l == Emit(k, w)
           q == Emit(l, x)
           t == [u EXCEPT !.phase = "stopping"]
<1>1. FinalizeMessage(m) = q
  BY DEF FinalizeMessage
<1>2. w \in MessageWires /\ x \in MessageWires /\ k \in MessageEncoders /\ k.out = m.out
  BY NonePair DEF MessageEncoders, MessageWires, Wire
<1>3. MessagesSeen(k, v) = u
  BY <1>2 DEF MessagesSeen
<1>4. ReadMessages(u, w) = t
  BY ReadsMessageDelta
<1>5. t \in Views /\ t.phase = "stopping"
  BY DEF Views
<1>6. [t EXCEPT !.phase = "ended"] = [u EXCEPT !.phase = "ended"]
  BY DEF Views
<1> HIDE DEF t
<1>7. ReadMessages(t, x) = [t EXCEPT !.phase = "ended"]
  BY <1>5, ReadsMessageStop
<1> HIDE DEF w, k, x
<1>8. l = [k EXCEPT !.out = Append(k.out, w)] /\ l \in MessageEncoders /\ MessagesSeen(l, v) = t
  BY <1>2, <1>3, <1>4, MessagesEmit
<1> HIDE DEF l
<1>9. q = [l EXCEPT !.out = Append(l.out, x)] /\ q \in MessageEncoders /\ MessagesSeen(q, v) = [u EXCEPT !.phase = "ended"]
  BY ZenonT(60), <1>2, <1>6, <1>7, <1>8, MessagesEmit
<1>10. q = [m EXCEPT !.stopped = TRUE, !.out = q.out]
  BY <1>8, <1>9 DEF k, MessageEncoders
<1> HIDE DEF q
<1> QED  BY <1>1, <1>9, <1>10 DEF Finalizes

\* What the encoder's fields and the client have in common while it writes.
InStep(m, v, u) ==
  /\ m \in MessageEncoders /\ u \in Views /\ u = MessagesSeen(m, v)
  /\ u.phase = IF m.started THEN "open" ELSE "new"
  /\ u.next = m.index /\ Opens(m, u)

OpensBlock(m, v, u, what, n, q) ==
  /\ q \in MessageEncoders
  /\ q = [m EXCEPT !.started = TRUE, !.open = what, !.index = q.index, !.out = q.out]
  /\ MessagesSeen(q, v) = [u EXCEPT !.phase = "open", !.open = <<what, n>>, !.next = q.index,
                                 !.got = WithBlock(u.got, what, n)]

LEMMA OpenBlockSeen ==
  ASSUME NEW m, NEW v, NEW u, InStep(m, v, u),
         NEW what \in {"text", "thinking", "redacted", "call"}, NEW n \in Nat
  PROVE  OpensBlock(m, v, u, what, n, OpenBlock(EnsureStarted(m), what, n))
<1> DEFINE k == EnsureStarted(m)
           l == CloseOpenBlock(k)
           q == BlockStart(l, what, n)
           p == <<what, n>>
           g == WithBlock(u.got, what, n)
           uk == [u EXCEPT !.phase = "open"]
           ul == [uk EXCEPT !.open = NoPiece, !.next = l.index]
<1>1. q = OpenBlock(EnsureStarted(m), what, n)
  BY DEF OpenBlock
<1>2. m \in MessageEncoders /\ u \in Views
  BY DEF InStep
<1>3. /\ k \in MessageEncoders /\ k = [m EXCEPT !.started = TRUE, !.out = k.out]
      /\ MessagesSeen(k, v) = uk
  <2>1. Starts(m, v, u, EnsureStarted(m))
    BY StartedSeen DEF InStep
  <2> QED  BY <2>1 DEF Starts
<1> HIDE DEF k, ul
<1>4. k \in MessageEncoders /\ k.open = m.open /\ k.index = m.index
  BY <1>2, <1>3 DEF MessageEncoders
<1>5. /\ uk \in Views /\ uk.phase = "open" /\ uk.next = k.index /\ Opens(k, uk)
      /\ uk.got = u.got
  BY <1>2, <1>4 DEF InStep, Opens, Views
<1> HIDE DEF uk
<1>6. uk = MessagesSeen(k, v) /\ uk.phase # "failed"
  BY <1>3, <1>5
<1>7. /\ l \in MessageEncoders /\ l = [k EXCEPT !.open = "none", !.index = l.index, !.out = l.out]
      /\ MessagesSeen(l, v) = ul
  <2>1. Closes(k, v, uk, CloseOpenBlock(k))
    BY <1>4, <1>5, <1>6, ClosedSeen
  <2> QED  BY <2>1 DEF Closes, ul
<1> HIDE DEF l
<1>8. l \in MessageEncoders /\ ul = MessagesSeen(l, v)
  BY <1>7
<1>9. ul \in Views /\ ul.phase = "open" /\ ul.next = l.index /\ ul.open = NoPiece /\ ul.got = u.got
  <2>1. l.index \in Nat
    BY <1>8 DEF MessageEncoders
  <2> QED  BY <1>5, <2>1, NonePair DEF Views, ul
<1>10. /\ q \in MessageEncoders /\ q = [l EXCEPT !.open = what, !.out = q.out]
       /\ MessagesSeen(q, v) = [ul EXCEPT !.open = p, !.got = WithBlock(ul.got, what, n)]
  <2>1. Begins(l, v, ul, what, n, BlockStart(l, what, n))
    BY <1>8, <1>9, BlockStartSeen
  <2> QED  BY <2>1 DEF Begins
<1> HIDE DEF q, g
<1>11. q.index = l.index
  BY <1>8, <1>10 DEF MessageEncoders
<1>12. q = [m EXCEPT !.started = TRUE, !.open = what, !.index = q.index, !.out = q.out]
  <2>1. l = [m EXCEPT !.started = TRUE, !.open = "none", !.index = l.index, !.out = l.out]
    BY <1>2, <1>3, <1>7 DEF MessageEncoders
  <2> QED  BY <1>2, <1>10, <1>11, <2>1 DEF MessageEncoders
<1>13. [ul EXCEPT !.open = p, !.got = g]
       = [u EXCEPT !.phase = "open", !.open = p, !.next = q.index, !.got = g]
  BY <1>2, <1>11 DEF ul, uk, Views
<1>14. WithBlock(ul.got, what, n) = g
  BY <1>9 DEF g
<1> HIDE DEF p
<1> QED  BY <1>1, <1>10, <1>12, <1>13, <1>14 DEF g, p, OpensBlock

StartsBlock(m, v, u, what, q) ==
  /\ q \in MessageEncoders
  /\ q = [m EXCEPT !.started = TRUE, !.open = what, !.index = q.index, !.out = q.out]
  /\ \E block \in Pairs :
       /\ block[1] = what
       /\ MessagesSeen(q, v) = [u EXCEPT !.phase = "open", !.open = block, !.next = q.index]

LEMMA StartBlockSeen ==
  ASSUME NEW m, NEW v, NEW u, InStep(m, v, u), NEW what \in {"text", "thinking"}
  PROVE  StartsBlock(m, v, u, what, StartBlock(EnsureStarted(m), what))
<1> DEFINE k == EnsureStarted(m)
           q == StartBlock(k, what)
<1>1. m \in MessageEncoders /\ u \in Views
  BY DEF InStep
<1>2. /\ k \in MessageEncoders /\ k = [m EXCEPT !.started = TRUE, !.out = k.out]
      /\ MessagesSeen(k, v) = [u EXCEPT !.phase = "open"]
  <2>1. Starts(m, v, u, EnsureStarted(m))
    BY StartedSeen DEF InStep
  <2> QED  BY <2>1 DEF Starts
<1>3. CASE m.open = what
  <2> HIDE DEF k
  <2>1. q = k
    BY <1>1, <1>2, <1>3 DEF StartBlock, MessageEncoders
  <2>2. u.open \in Pairs /\ u.open[1] = what /\ k.index = u.next
    BY <1>1, <1>2, <1>3 DEF InStep, Opens, Views, MessageEncoders
  <2>3. [u EXCEPT !.phase = "open"] = [u EXCEPT !.phase = "open", !.open = u.open, !.next = k.index]
    BY <1>1, <2>2 DEF Views
  <2>4. k = [m EXCEPT !.started = TRUE, !.open = what, !.index = k.index, !.out = k.out]
    BY <1>1, <1>2, <1>3 DEF MessageEncoders
  <2> QED  BY ZenonT(60), <1>2, <2>1, <2>2, <2>3, <2>4 DEF k, StartsBlock
<1>4. CASE m.open # what
  <2>1. k.open = m.open
    BY <1>1, <1>2 DEF MessageEncoders
  <2> DEFINE l == OpenBlock(EnsureStarted(m), what, 0)
             i == WithBlock(u.got, what, 0)
             p == <<what, 0>>
  <2>2. q = l
    BY <1>4, <2>1 DEF StartBlock
  <2>3. p \in Pairs /\ p[1] = what
    BY DEF Pairs, Words
  <2>4. i = u.got
    BY DEF WithBlock
  <2>5. /\ l \in MessageEncoders
        /\ l = [m EXCEPT !.started = TRUE, !.open = what, !.index = l.index, !.out = l.out]
        /\ MessagesSeen(l, v) = [u EXCEPT !.phase = "open", !.open = p, !.next = l.index, !.got = i]
    <3>1. OpensBlock(m, v, u, what, 0, l)
      BY OpenBlockSeen
    <3> QED  BY <3>1 DEF OpensBlock
  <2> HIDE DEF l, i, p
  <2>7. [u EXCEPT !.phase = "open", !.open = p, !.next = l.index, !.got = i]
        = [u EXCEPT !.phase = "open", !.open = p, !.next = l.index]
    BY <1>1, <2>4 DEF Views
  <2> QED  BY <2>2, <2>3, <2>5, <2>7 DEF StartsBlock
<1> QED  BY <1>3, <1>4 DEF StartsBlock

StartsTool(m, v, u, n, q) ==
  /\ q \in MessageEncoders
  /\ q = [m EXCEPT !.started = TRUE, !.open = "call", !.index = q.index, !.out = q.out,
                   !.tools = @ \union {n}]
  /\ IF n \in m.tools /\ m.open = "call"
     THEN MessagesSeen(q, v) = [u EXCEPT !.phase = "open", !.next = q.index]
     ELSE MessagesSeen(q, v) = [u EXCEPT !.phase = "open", !.open = <<"call", n>>, !.next = q.index,
                                     !.got = Append(u.got, <<"call", n>>)]

LEMMA StartToolSeen ==
  ASSUME NEW m, NEW v, NEW u, InStep(m, v, u), NEW n \in Nat
  PROVE  StartsTool(m, v, u, n, StartTool(EnsureStarted(m), n))
<1> DEFINE k == EnsureStarted(m)
           q == StartTool(k, n)
<1>1. m \in MessageEncoders /\ u \in Views
  BY DEF InStep
<1>2. /\ k \in MessageEncoders /\ k = [m EXCEPT !.started = TRUE, !.out = k.out]
      /\ MessagesSeen(k, v) = [u EXCEPT !.phase = "open"]
  <2>1. Starts(m, v, u, EnsureStarted(m))
    BY StartedSeen DEF InStep
  <2> QED  BY <2>1 DEF Starts
<1>3. k.tools = m.tools /\ k.open = m.open /\ k.index = m.index
  BY <1>1, <1>2 DEF MessageEncoders
<1>4. CASE n \in m.tools /\ m.open = "call"
  <2> HIDE DEF k
  <2>1. q = k
    BY <1>3, <1>4 DEF StartTool
  <2>2. k.index = u.next
    BY <1>3 DEF InStep
  <2>3. [u EXCEPT !.phase = "open"] = [u EXCEPT !.phase = "open", !.next = k.index]
    BY <1>1, <2>2 DEF Views
  <2>4. m.tools = m.tools \union {n}
    BY <1>4
  <2>5. k = [m EXCEPT !.started = TRUE, !.open = "call", !.index = k.index, !.out = k.out, !.tools = @ \union {n}]
    BY <1>1, <1>2, <1>3, <1>4, <2>4 DEF MessageEncoders
  <2> QED  BY <1>2, <1>4, <2>1, <2>3, <2>5 DEF k, StartsTool
<1>5. CASE ~(n \in m.tools /\ m.open = "call")
  <2> DEFINE what == "call"
             l == OpenBlock(EnsureStarted(m), what, n)
             i == WithBlock(u.got, what, n)
             p == <<what, n>>
             ts == m.tools \union {n}
  <2>1. q = [l EXCEPT !.tools = @ \union {n}]
    BY <1>3, <1>5 DEF StartTool
  <2>2. what \in {"text", "thinking", "redacted", "call"}
    OBVIOUS
  <2>3. i = Append(u.got, p)
    BY DEF WithBlock
  <2>4. ts \in SUBSET Nat
    BY <1>1 DEF MessageEncoders
  <2> HIDE DEF what
  <2>5. /\ l \in MessageEncoders
        /\ l = [m EXCEPT !.started = TRUE, !.open = what, !.index = l.index, !.out = l.out]
        /\ MessagesSeen(l, v) = [u EXCEPT !.phase = "open", !.open = p, !.next = l.index, !.got = i]
    <3>1. OpensBlock(m, v, u, what, n, l)
      BY <2>2, OpenBlockSeen
    <3> QED  BY <3>1 DEF OpensBlock
  <2> HIDE DEF l, i, p, ts
  <2>7. q = [l EXCEPT !.tools = ts]
    BY <1>1, <2>1, <2>5 DEF ts, MessageEncoders
  <2> HIDE DEF q
  <2>8. q \in MessageEncoders /\ q.index = l.index /\ q.out = l.out
    BY <2>4, <2>5, <2>7 DEF MessageEncoders
  <2>9. q = [m EXCEPT !.started = TRUE, !.open = what, !.index = q.index, !.out = q.out, !.tools = ts]
    BY <1>1, <2>5, <2>7, <2>8 DEF MessageEncoders
  <2>10. MessagesSeen(q, v) = MessagesSeen(l, v)
    BY <2>8 DEF MessagesSeen
  <2> QED  BY <1>5, <2>3, <2>5, <2>8, <2>9, <2>10 DEF q, p, ts, what, StartsTool
<1> QED  BY <1>4, <1>5 DEF StartsTool

Settled(a) == (a.usage \/ a.done \/ a.bare => a.finished) /\ (a.hot => a.told > 0)

LEMMA SettledAfter ==
  ASSUME NEW a \in Answers, NEW e \in Occurrences, Allowed(a, e), a.legal, Settled(a)
  PROVE  Settled(After(a, e))
<1>1. After(a, e) \in Answers
  BY TakeLawful
<1>2. CASE e.kind \in Contents
  BY <1>2 DEF After, Contents, Answers, Settled
<1>3. CASE e.kind = "toolstart"
  BY <1>3 DEF After, Contents, Answers, Settled
<1>4. CASE e.kind \in {"toolargs", "tooldelta"}
  BY <1>4 DEF After, Contents, Answers, Settled
<1>5. CASE e.kind \notin Contents \union {"toolstart", "toolargs", "tooldelta"}
  BY <1>5 DEF After, Contents, Answers, Settled, Allowed
<1> QED  BY <1>2, <1>3, <1>4, <1>5

\* Where the message is, as its fields and the client tell it.
MessagesShape(m, u, a) ==
  /\ m.finished <=> a.finished
  /\ m.stopped <=> a.finished /\ (a.usage \/ a.done)
  /\ u.phase = IF m.stopped THEN "ended" ELSE IF m.started THEN "open" ELSE "new"
  /\ m.finished => m.started
  /\ u.next = m.index /\ Opens(m, u)
  /\ m.open # "none" => m.started /\ ~m.finished
  /\ \A n \in m.tools : n < a.told
\* What the client has: the pieces of the answer, in order; and the block of the last call
\* is open.
MessagesShown(m, u, a) ==
  \/ a.strayed
  \/ /\ u.ok /\ u.got = Pieces(a.got, MessagesKinds)
     /\ a.hot => m.open = "call" /\ u.open = <<"call", a.told - 1>> /\ a.told - 1 \in m.tools
MessagesCoupled(m, u, a) ==
  /\ ~u.late
  /\ IF a.failed THEN m.stopped /\ u.phase = "failed" /\ (u.ok \/ a.strayed)
     ELSE MessagesShape(m, u, a) /\ MessagesShown(m, u, a)
\* A Messages encoder, the client and the answer (inbound/anthropic).
MessagesTied(m, v, a) ==
  m \in MessageEncoders /\ MessagesSeen(m, v) \in Views /\ MessagesCoupled(m, MessagesSeen(m, v), a)

LEMMA TiedInStep ==
  ASSUME NEW m, NEW v, NEW a \in Answers, MessagesTied(m, v, a), ~a.failed, ~a.finished
  PROVE  InStep(m, v, MessagesSeen(m, v))
  BY DEF MessagesTied, MessagesCoupled, MessagesShape, InStep

LEMMA MessagesFailed ==
  ASSUME NEW m, NEW v, NEW a \in Answers, MessagesTied(m, v, a), Settled(a),
         NEW e \in Occurrences, Allowed(a, e), a.failed
  PROVE  MessagesTied(EncodeMessages(m, e), v, After(a, e))
<1> DEFINE u == MessagesSeen(m, v)
           b == After(a, e)
<1>1. m \in MessageEncoders /\ u \in Views /\ u.phase = "failed" /\ m.stopped /\ ~u.late /\ (u.ok \/ a.strayed)
  BY DEF MessagesTied, MessagesCoupled
<1>2. e.kind = "stop"
  BY DEF Allowed, Contents, Occurrences, Kinds
<1>3. b = [a EXCEPT !.finished = TRUE, !.hot = FALSE, !.bare = @ \/ ~(a.begun \/ a.failed)]
  BY <1>2 DEF After, Contents
<1>4. b.failed /\ (b.strayed <=> a.strayed)
  BY <1>3 DEF Answers
<1> HIDE DEF b
<1> DEFINE k == EnsureStarted(m)
           l == CloseOpenBlock(k)
           q == [l EXCEPT !.finished = TRUE]
<1>5. k \in MessageEncoders /\ k.stopped /\ MessagesSeen(k, v) = u
  <2>1. CASE m.started
    BY <1>1, <2>1 DEF EnsureStarted
  <2>2. CASE ~m.started
    <3> DEFINE n == [m EXCEPT !.started = TRUE]
               w == Wire("message_start", 0, NoPiece)
    <3>1. k = Emit(n, w)
      BY <2>2 DEF EnsureStarted
    <3>2. n \in MessageEncoders /\ n.out = m.out /\ n.stopped /\ w \in MessageWires /\ w.type # "message_stop"
      BY <1>1, NonePair DEF MessageEncoders, Wire, MessageWires
    <3>3. MessagesSeen(n, v) = u
      BY <3>2 DEF MessagesSeen
    <3> HIDE DEF n, w, u, k
    <3>4. Emit(n, w) = [n EXCEPT !.out = Append(n.out, w)] /\ Emit(n, w) \in MessageEncoders
          /\ MessagesSeen(Emit(n, w), v) = ReadMessages(u, w)
      BY <3>2, <3>3, MessagesEmit
    <3>5. ReadMessages(u, w) = u
      BY <1>1, <3>2, ReadsNoMore
    <3>6. k.stopped
      BY <3>1, <3>2, <3>4 DEF MessageEncoders
    <3> QED  BY <3>1, <3>4, <3>5, <3>6
  <2> QED  BY <2>1, <2>2
<1> HIDE DEF k, u
<1>6. l \in MessageEncoders /\ l.stopped /\ MessagesSeen(l, v) = u
  <2>1. CASE k.open = "none"
    BY <1>5, <2>1 DEF CloseOpenBlock
  <2>2. CASE k.open # "none"
    <3> DEFINE w == Wire("block_stop", k.index, NoPiece)
               n == Emit(k, w)
    <3>1. l = [n EXCEPT !.open = "none", !.index = @ + 1]
      BY <2>2 DEF CloseOpenBlock
    <3>2. w \in MessageWires /\ w.type # "message_stop"
      BY <1>5, NonePair DEF MessageEncoders, Wire, MessageWires
    <3> HIDE DEF w
    <3>3. n = [k EXCEPT !.out = Append(k.out, w)] /\ n \in MessageEncoders /\ MessagesSeen(n, v) = ReadMessages(u, w)
      BY <1>5, <3>2, MessagesEmit
    <3>4. ReadMessages(u, w) = u
      BY <1>1, <3>2, ReadsNoMore
    <3> HIDE DEF n, l
    <3>5. n.stopped /\ n.index + 1 \in Nat
      BY <1>5, <3>3 DEF MessageEncoders
    <3>6. l \in MessageEncoders /\ l.stopped /\ l.out = n.out
      <4> DEFINE i == n.index + 1
      <4>1. l = [n EXCEPT !.open = "none", !.index = i] /\ i \in Nat
        BY <3>1, <3>5
      <4> HIDE DEF i
      <4> QED  BY <3>3, <3>5, <4>1 DEF MessageEncoders
    <3>7. MessagesSeen(l, v) = MessagesSeen(n, v)
      BY <3>6 DEF MessagesSeen
    <3> QED  BY <3>3, <3>4, <3>6, <3>7
  <2> QED  BY <2>1, <2>2
<1>7. EncodeMessages(m, e) = q
  BY <1>2 DEF EncodeMessages, k
<1> HIDE DEF l
<1>8. q \in MessageEncoders /\ q.stopped /\ q.out = l.out
  BY <1>6 DEF MessageEncoders
<1>9. MessagesSeen(q, v) = u
  BY <1>6, <1>8 DEF MessagesSeen
<1> HIDE DEF q
<1>10. MessagesTied(q, v, b)
  BY <1>1, <1>4, <1>8, <1>9 DEF MessagesTied, MessagesCoupled
<1> QED  BY <1>7, <1>10 DEF b

\* The pieces of an answer that are for a Messages client.
LEMMA MessagesPieces ==
  ASSUME NEW a \in Answers, NEW p \in Pairs
  PROVE  /\ Pieces(Append(a.got, p), MessagesKinds)
            = IF p[1] \in MessagesKinds THEN Append(Pieces(a.got, MessagesKinds), p) ELSE Pieces(a.got, MessagesKinds)
         /\ Pieces(a.got, MessagesKinds) \in Seq(Pairs)
<1>1. a.got \in Seq(Pairs)
  BY DEF Answers
<1> QED  BY ZenonT(60), <1>1, PiecesAppend, PiecesSeq

LEMMA MessagesQuiet ==
  ASSUME NEW m, NEW v, NEW a \in Answers, MessagesTied(m, v, a), Settled(a), a.legal,
         NEW e \in Occurrences, Allowed(a, e), ~a.failed, e.kind \in {"start", "blockstart", "refusal"}
  PROVE  MessagesTied(EncodeMessages(m, e), v, After(a, e))
<1> DEFINE u == MessagesSeen(m, v)
           b == After(a, e)
           q == EnsureStarted(m)
           t == MessagesSeen(q, v)
<1>1. m \in MessageEncoders /\ u \in Views /\ ~u.late /\ MessagesShape(m, u, a) /\ MessagesShown(m, u, a)
  BY DEF MessagesTied, MessagesCoupled
<1>2. EncodeMessages(m, e) = q
  BY DEF EncodeMessages
<1>3. /\ b \in Answers /\ ~b.failed /\ b.told = a.told /\ b.usage = a.usage /\ b.done = a.done
      /\ b.finished = a.finished /\ b.strayed = a.strayed
      /\ b.hot => a.hot
      /\ b.got = IF e.kind = "refusal" THEN Append(a.got, <<"refusal", 0>>) ELSE a.got
  <2>1. b \in Answers
    BY TakeLawful
  <2> QED  BY <2>1 DEF After, Contents, Answers
<1>4. Pieces(b.got, MessagesKinds) = Pieces(a.got, MessagesKinds)
  <2>1. <<"refusal", 0>> \in Pairs
    BY DEF Pairs, Words
  <2> QED  BY <1>3, <2>1, MessagesPieces DEF MessagesKinds
<1> HIDE DEF b
<1>5. /\ q \in MessageEncoders /\ t \in Views /\ q = [m EXCEPT !.started = q.started, !.out = q.out]
      /\ t = [u EXCEPT !.phase = t.phase]
      /\ t.phase = (IF q.stopped THEN "ended" ELSE IF q.started THEN "open" ELSE "new")
      /\ q.started
  <2>1. CASE m.started
    <3>1. q = m
      BY <2>1 DEF EnsureStarted
    <3> QED  BY <1>1, <2>1, <3>1 DEF MessagesShape, Views, MessageEncoders
  <2>2. CASE ~m.started
    <3>1. u.phase = "new" /\ ~m.stopped
      BY <1>1, <2>2 DEF MessagesShape
    <3> HIDE DEF q, u
    <3>2. Starts(m, v, u, EnsureStarted(m))
      BY <1>1, <2>2, <3>1, StartedSeen DEF u
    <3> QED  BY <1>1, <2>2, <3>1, <3>2 DEF Starts, MessageEncoders, Views, q
  <2> QED  BY <2>1, <2>2
<1> HIDE DEF q, t, u
<1>6. /\ q.finished = m.finished /\ q.stopped = m.stopped /\ q.index = m.index /\ q.open = m.open /\ q.tools = m.tools
      /\ t.next = u.next /\ t.open = u.open /\ t.got = u.got /\ t.ok = u.ok /\ t.late = u.late
  BY <1>1, <1>5 DEF MessageEncoders, Views
<1>7. MessagesShape(q, t, b)
  BY <1>1, <1>3, <1>5, <1>6 DEF MessagesShape, Opens
<1>8. MessagesShown(q, t, b)
  BY <1>1, <1>3, <1>4, <1>6 DEF MessagesShown
<1> QED  BY <1>1, <1>2, <1>3, <1>5, <1>6, <1>7, <1>8 DEF MessagesTied, MessagesCoupled, b, t

\* A piece for the open block.
LEMMA MessagesContent ==
  ASSUME NEW m, NEW v, NEW a \in Answers, MessagesTied(m, v, a), Settled(a), a.legal,
         NEW e \in Occurrences, Allowed(a, e), ~a.failed, e.kind \in {"text", "thinking", "signature"}
  PROVE  MessagesTied(EncodeMessages(m, e), v, After(a, e))
<1> DEFINE u == MessagesSeen(m, v)
           b == After(a, e)
           what == IF e.kind = "text" THEN "text" ELSE "thinking"
           k == StartBlock(EnsureStarted(m), what)
           uk == MessagesSeen(k, v)
           p == <<e.kind, 0>>
           q == BlockDelta(k, p)
           t == MessagesSeen(q, v)
<1>1. /\ m \in MessageEncoders /\ u \in Views /\ ~u.late /\ MessagesShape(m, u, a) /\ MessagesShown(m, u, a)
      /\ ~a.finished
  BY DEF MessagesTied, MessagesCoupled, Allowed, Contents
<1>2. EncodeMessages(m, e) = q
  BY DEF EncodeMessages
<1>3. p \in Pairs /\ p[1] \in MessagesKinds /\ what \in {"text", "thinking"}
  BY DEF Pairs, Words, MessagesKinds
<1>4. /\ b \in Answers /\ ~b.failed /\ b.told = a.told /\ b.usage = a.usage /\ b.done = a.done
      /\ b.finished = a.finished /\ b.strayed = a.strayed /\ ~b.hot /\ b.got = Append(a.got, p)
  <2>1. b \in Answers
    BY TakeLawful
  <2> QED  BY <2>1 DEF After, Contents, Answers
<1>5. \A x : x[1] = what => Fits(x, p)
  BY DEF Fits
<1> HIDE DEF b, p, what
<1>6. Pieces(b.got, MessagesKinds) = Append(Pieces(a.got, MessagesKinds), p)
  BY <1>3, <1>4, MessagesPieces
<1>7. InStep(m, v, u)
  BY <1>1, TiedInStep
<1> HIDE DEF u
<1>8. StartsBlock(m, v, u, what, k)
  BY <1>3, <1>7, StartBlockSeen
<1> HIDE DEF k
<1>9. PICK block \in Pairs :
         block[1] = what /\ uk = [u EXCEPT !.phase = "open", !.open = block, !.next = k.index]
  BY <1>8 DEF StartsBlock
<1>10. k \in MessageEncoders /\ k = [m EXCEPT !.started = TRUE, !.open = what, !.index = k.index, !.out = k.out]
  BY <1>8 DEF StartsBlock
<1>11. uk \in Views /\ uk.phase = "open" /\ uk.next = k.index /\ uk.open = block /\ uk.got = u.got /\ uk.ok = u.ok
       /\ uk.late = u.late
  <2>1. k.index \in Nat
    BY <1>10 DEF MessageEncoders
  <2> QED  BY <1>1, <1>9, <2>1 DEF Views
<1>12. uk = MessagesSeen(k, v) /\ k \in MessageEncoders
  BY <1>10
<1> HIDE DEF uk
<1>13. Grows(k, v, uk, p, q)
  BY <1>3, <1>11, <1>12, BlockDeltaSeen
<1> HIDE DEF q
<1>14. /\ q \in MessageEncoders /\ q = [k EXCEPT !.out = q.out]
       /\ t = [uk EXCEPT !.ok = uk.ok /\ Fits(uk.open, p), !.got = Append(uk.got, p)]
  BY <1>13 DEF Grows
<1> HIDE DEF t
<1>15. /\ t \in Views /\ t.phase = "open" /\ t.next = k.index /\ t.open = block /\ t.got = Append(u.got, p)
       /\ t.late = u.late /\ (u.ok => t.ok)
  <2>1. Fits(uk.open, p)
    BY <1>5, <1>9, <1>11
  <2>2. Append(uk.got, p) \in Seq(Pairs)
    BY <1>3, <1>11 DEF Views
  <2> QED  BY <1>11, <1>14, <2>1, <2>2 DEF Views
<1>16. /\ q.started /\ q.open = what /\ q.index = k.index /\ q.tools = m.tools /\ q.finished = m.finished
       /\ q.stopped = m.stopped
  BY <1>1, <1>10, <1>14 DEF MessageEncoders
<1>17. MessagesShape(q, t, b)
  BY <1>1, <1>3, <1>4, <1>9, <1>15, <1>16 DEF MessagesShape, Opens
<1>18. MessagesShown(q, t, b)
  BY <1>1, <1>4, <1>6, <1>15 DEF MessagesShown
<1> QED  BY <1>1, <1>2, <1>4, <1>14, <1>15, <1>17, <1>18 DEF MessagesTied, MessagesCoupled, b, t

\* A redacted thought: its block is opened and closed at once.
LEMMA MessagesRedacted ==
  ASSUME NEW m, NEW v, NEW a \in Answers, MessagesTied(m, v, a), Settled(a), a.legal,
         NEW e \in Occurrences, Allowed(a, e), ~a.failed, e.kind = "redacted"
  PROVE  MessagesTied(EncodeMessages(m, e), v, After(a, e))
<1> DEFINE u == MessagesSeen(m, v)
           b == After(a, e)
           what == "redacted"
           p == <<what, 0>>
           k == OpenBlock(EnsureStarted(m), what, 0)
           uk == MessagesSeen(k, v)
           q == CloseOpenBlock(k)
           t == MessagesSeen(q, v)
<1>1. /\ m \in MessageEncoders /\ u \in Views /\ ~u.late /\ MessagesShape(m, u, a) /\ MessagesShown(m, u, a)
      /\ ~a.finished
  BY DEF MessagesTied, MessagesCoupled, Allowed, Contents
<1>2. EncodeMessages(m, e) = q
  BY DEF EncodeMessages
<1>3. p \in Pairs /\ p[1] = what /\ p[1] \in MessagesKinds /\ what # "none"
  BY DEF Pairs, Words, MessagesKinds
<1>4. /\ b \in Answers /\ ~b.failed /\ b.told = a.told /\ b.usage = a.usage /\ b.done = a.done
      /\ b.finished = a.finished /\ b.strayed = a.strayed /\ ~b.hot /\ b.got = Append(a.got, p)
  <2>1. b \in Answers
    BY TakeLawful
  <2> QED  BY <2>1 DEF After, Contents, Answers
<1>5. WithBlock(u.got, what, 0) = Append(u.got, p) /\ what \in {"text", "thinking", "redacted", "call"}
  BY DEF WithBlock
<1> HIDE DEF b, p, what
<1>6. Pieces(b.got, MessagesKinds) = Append(Pieces(a.got, MessagesKinds), p)
  BY <1>3, <1>4, MessagesPieces
<1>7. InStep(m, v, u)
  BY <1>1, TiedInStep
<1> HIDE DEF u
<1>8. OpensBlock(m, v, u, what, 0, k)
  BY <1>5, <1>7, OpenBlockSeen
<1> HIDE DEF k
<1>9. uk = [u EXCEPT !.phase = "open", !.open = p, !.next = k.index, !.got = Append(u.got, p)]
  BY <1>5, <1>8 DEF OpensBlock, p
<1>10. k \in MessageEncoders /\ k = [m EXCEPT !.started = TRUE, !.open = what, !.index = k.index, !.out = k.out]
  BY <1>8 DEF OpensBlock
<1>11. /\ uk \in Views /\ uk.phase # "failed" /\ uk.next = k.index /\ uk.open = p /\ uk.got = Append(u.got, p)
       /\ uk.ok = u.ok /\ uk.late = u.late /\ uk.phase = "open"
  <2>1. k.index \in Nat
    BY <1>10 DEF MessageEncoders
  <2>2. Append(u.got, p) \in Seq(Pairs)
    BY <1>1, <1>3 DEF Views
  <2> QED  BY <1>1, <1>3, <1>9, <2>1, <2>2 DEF Views
<1>12. k \in MessageEncoders /\ k.open = what /\ Opens(k, uk)
  BY <1>1, <1>3, <1>10, <1>11 DEF MessageEncoders, Opens
<1>13. uk = MessagesSeen(k, v)
  OBVIOUS
<1> HIDE DEF uk
<1>14. Closes(k, v, uk, q)
  BY <1>11, <1>12, <1>13, ClosedSeen
<1> HIDE DEF q
<1>15. /\ q \in MessageEncoders /\ q = [k EXCEPT !.open = "none", !.index = q.index, !.out = q.out]
       /\ t = [uk EXCEPT !.open = NoPiece, !.next = q.index]
  BY <1>14 DEF Closes
<1> HIDE DEF t
<1>16. /\ t \in Views /\ t.phase = "open" /\ t.next = q.index /\ t.open = NoPiece /\ t.got = Append(u.got, p)
       /\ t.late = u.late /\ t.ok = u.ok
  <2>1. q.index \in Nat
    BY <1>15 DEF MessageEncoders
  <2> QED  BY <1>11, <1>15, <2>1, NonePair DEF Views
<1>17. /\ q.started /\ q.open = "none" /\ q.tools = m.tools /\ q.finished = m.finished /\ q.stopped = m.stopped
  BY <1>1, <1>10, <1>15 DEF MessageEncoders
<1>18. MessagesShape(q, t, b)
  BY <1>1, <1>4, <1>16, <1>17 DEF MessagesShape, Opens
<1>19. MessagesShown(q, t, b)
  BY <1>1, <1>4, <1>6, <1>16 DEF MessagesShown
<1> QED  BY <1>1, <1>2, <1>4, <1>15, <1>16, <1>18, <1>19 DEF MessagesTied, MessagesCoupled, b, t

\* A call starts.
LEMMA MessagesToolStart ==
  ASSUME NEW m, NEW v, NEW a \in Answers, MessagesTied(m, v, a), Settled(a), a.legal,
         NEW e \in Occurrences, Allowed(a, e), ~a.failed, e.kind = "toolstart"
  PROVE  MessagesTied(EncodeMessages(m, e), v, After(a, e))
<1> DEFINE u == MessagesSeen(m, v)
           b == After(a, e)
           n == e.tool
           p == <<"call", n>>
           q == StartTool(EnsureStarted(m), n)
           t == MessagesSeen(q, v)
<1>1. /\ m \in MessageEncoders /\ u \in Views /\ ~u.late /\ MessagesShape(m, u, a) /\ MessagesShown(m, u, a)
      /\ ~a.finished
  BY DEF MessagesTied, MessagesCoupled, Allowed, Contents
<1>2. EncodeMessages(m, e) = q
  BY DEF EncodeMessages
<1>3. p \in Pairs /\ p[1] \in MessagesKinds /\ n \in Nat /\ p[1] = "call"
  BY DEF Pairs, Words, MessagesKinds, Occurrences
<1>4. b \in Answers
  BY TakeLawful
<1>5. b = IF n = a.told THEN [a EXCEPT !.got = Append(@, p), !.told = @ + 1, !.hot = TRUE] ELSE a
  BY DEF After, Contents
<1>6. n = a.told \/ (n + 1 = a.told /\ a.hot)
  BY DEF Allowed, Contents
<1>7. a.told \in Nat
  BY DEF Answers
<1> HIDE DEF b, p, n
<1>8. InStep(m, v, u)
  BY <1>1, TiedInStep
<1> HIDE DEF u
<1>9. StartsTool(m, v, u, n, q)
  BY <1>3, <1>8, StartToolSeen
<1> HIDE DEF q
<1>10. /\ q \in MessageEncoders
       /\ q = [m EXCEPT !.started = TRUE, !.open = "call", !.index = q.index, !.out = q.out, !.tools = @ \union {n}]
       /\ IF n \in m.tools /\ m.open = "call"
          THEN t = [u EXCEPT !.phase = "open", !.next = q.index]
          ELSE t = [u EXCEPT !.phase = "open", !.open = p, !.next = q.index, !.got = Append(u.got, p)]
  BY <1>9 DEF StartsTool, p
<1> HIDE DEF t
<1>11. /\ q.started /\ q.open = "call" /\ q.tools = m.tools \union {n} /\ q.finished = m.finished /\ q.stopped = m.stopped
       /\ q.index \in Nat
  BY <1>1, <1>10 DEF MessageEncoders
<1>12. Append(u.got, p) \in Seq(Pairs)
  BY <1>1, <1>3 DEF Views
<1>13. CASE n \in m.tools /\ m.open = "call"
  <2>1. n # a.told
    BY <1>1, <1>7, <1>13 DEF MessagesShape
  <2>2. b = a /\ a.hot /\ n + 1 = a.told
    BY <1>5, <1>6, <2>1
  <2>3. t = [u EXCEPT !.phase = "open", !.next = q.index]
    BY <1>10, <1>13
  <2>4. /\ t \in Views /\ t.phase = "open" /\ t.next = q.index /\ t.open = u.open /\ t.got = u.got
        /\ t.late = u.late /\ t.ok = u.ok
    BY <1>1, <1>11, <2>3 DEF Views
  <2>5. MessagesShape(q, t, a)
    BY <1>1, <1>11, <1>13, <2>2, <2>4 DEF MessagesShape, Opens
  <2>6. MessagesShown(q, t, a)
    BY <1>1, <1>11, <1>13, <2>2, <2>4 DEF MessagesShown
  <2> QED  BY <1>1, <1>2, <1>10, <2>2, <2>4, <2>5, <2>6 DEF MessagesTied, MessagesCoupled, b, t
<1>14. CASE ~(n \in m.tools /\ m.open = "call")
  <2>1. t = [u EXCEPT !.phase = "open", !.open = p, !.next = q.index, !.got = Append(u.got, p)]
    BY <1>10, <1>14
  <2>2. /\ t \in Views /\ t.phase = "open" /\ t.next = q.index /\ t.open = p /\ t.got = Append(u.got, p)
        /\ t.late = u.late /\ t.ok = u.ok
    BY <1>1, <1>3, <1>11, <1>12, <2>1 DEF Views
  <2>3. CASE n = a.told
    <3>1. /\ ~b.failed /\ b.told = a.told + 1 /\ b.usage = a.usage /\ b.done = a.done
          /\ b.finished = a.finished /\ b.strayed = a.strayed /\ b.hot /\ b.got = Append(a.got, p)
      BY <1>5, <2>3 DEF Answers
    <3>2. Pieces(b.got, MessagesKinds) = Append(Pieces(a.got, MessagesKinds), p)
      BY <1>3, <3>1, MessagesPieces
    <3>3. MessagesShape(q, t, b)
      <4>1. \A i \in q.tools : i < b.told
        <5> SUFFICES ASSUME NEW i \in q.tools PROVE i < b.told
          OBVIOUS
        <5>1. i \in m.tools => i < a.told /\ i \in Nat
          BY <1>1 DEF MessagesShape, MessageEncoders
        <5>2. i \in m.tools \/ i = a.told
          BY <1>11, <2>3
        <5> QED  BY <1>7, <3>1, <5>1, <5>2
      <4> QED  BY <1>1, <1>3, <1>11, <2>2, <3>1, <4>1 DEF MessagesShape, Opens
    <3>4. MessagesShown(q, t, b)
      <4>1. b.told - 1 = n
        BY <1>7, <2>3, <3>1
      <4> QED  BY <1>1, <1>11, <2>2, <3>1, <3>2, <4>1 DEF MessagesShown, p
    <3> QED  BY <1>1, <1>2, <1>10, <2>2, <3>1, <3>3, <3>4 DEF MessagesTied, MessagesCoupled, b, t
  <2>4. CASE n # a.told
    <3>1. b = a /\ a.hot /\ n + 1 = a.told
      BY <1>5, <1>6, <2>4
    <3>2. a.told - 1 = n
      BY <1>3, <1>7, <3>1
    <3>3. a.strayed
      BY <1>1, <1>14, <3>1, <3>2 DEF MessagesShown
    <3>4. MessagesShape(q, t, a)
      <4>1. \A i \in q.tools : i < a.told
        BY <1>1, <1>3, <1>7, <1>11, <3>1 DEF MessagesShape
      <4> QED  BY <1>1, <1>3, <1>11, <2>2, <4>1 DEF MessagesShape, Opens
    <3>5. MessagesShown(q, t, a)
      BY <3>3 DEF MessagesShown
    <3> QED  BY <1>1, <1>2, <1>10, <2>2, <3>1, <3>4, <3>5 DEF MessagesTied, MessagesCoupled, b, t
  <2> QED  BY <2>3, <2>4
<1> QED  BY <1>13, <1>14

\* Arguments of a call.
LEMMA MessagesArguments ==
  ASSUME NEW m, NEW v, NEW a \in Answers, MessagesTied(m, v, a), Settled(a), a.legal,
         NEW e \in Occurrences, Allowed(a, e), ~a.failed, e.kind \in {"toolargs", "tooldelta"}
  PROVE  MessagesTied(EncodeMessages(m, e), v, After(a, e))
<1> DEFINE u == MessagesSeen(m, v)
           b == After(a, e)
           n == e.tool
           c == <<"call", n>>
           p == <<"args", n>>
           k == StartTool(EnsureStarted(m), n)
           uk == MessagesSeen(k, v)
           q == BlockDelta(k, p)
           t == MessagesSeen(q, v)
           z == a.strayed \/ ~(a.hot /\ n + 1 = a.told)
<1>1. /\ m \in MessageEncoders /\ u \in Views /\ ~u.late /\ MessagesShape(m, u, a) /\ MessagesShown(m, u, a)
      /\ ~a.finished
  BY DEF MessagesTied, MessagesCoupled, Allowed, Contents
<1>2. EncodeMessages(m, e) = q
  BY DEF EncodeMessages
<1>3. p \in Pairs /\ p[1] \in MessagesKinds /\ n \in Nat /\ c \in Pairs /\ c[1] = "call"
  BY DEF Pairs, Words, MessagesKinds, Occurrences
<1>4. b \in Answers
  BY TakeLawful
<1>5. b = [a EXCEPT !.got = Append(@, p), !.strayed = z]
  BY DEF After, Contents
<1>6. n \in 0..(a.told - 1) /\ a.told \in Nat
  BY DEF Allowed, Contents, Answers
<1>7. Fits(c, p)
  BY DEF Fits
<1> HIDE DEF b, p, n, c
<1>8. /\ ~b.failed /\ b.told = a.told /\ b.usage = a.usage /\ b.done = a.done
      /\ b.finished = a.finished /\ (b.strayed <=> z) /\ b.hot = a.hot /\ b.got = Append(a.got, p)
  BY <1>5 DEF Answers
<1>9. InStep(m, v, u)
  BY <1>1, TiedInStep
<1>10. Pieces(b.got, MessagesKinds) = Append(Pieces(a.got, MessagesKinds), p)
  BY <1>3, <1>8, MessagesPieces
<1> HIDE DEF u
<1>11. StartsTool(m, v, u, n, k)
  BY <1>3, <1>9, StartToolSeen
<1> HIDE DEF k
<1>12. /\ k \in MessageEncoders
       /\ k = [m EXCEPT !.started = TRUE, !.open = "call", !.index = k.index, !.out = k.out, !.tools = @ \union {n}]
       /\ IF n \in m.tools /\ m.open = "call"
          THEN uk = [u EXCEPT !.phase = "open", !.next = k.index]
          ELSE uk = [u EXCEPT !.phase = "open", !.open = c, !.next = k.index, !.got = Append(u.got, c)]
  BY <1>11 DEF StartsTool, c
<1>13. /\ k \in MessageEncoders /\ k.started /\ k.open = "call" /\ k.tools = m.tools \union {n}
       /\ k.finished = m.finished /\ k.stopped = m.stopped /\ k.index \in Nat
  BY <1>1, <1>12 DEF MessageEncoders
<1>14. uk = MessagesSeen(k, v)
  OBVIOUS
<1> HIDE DEF uk
<1>15. /\ uk \in Views /\ uk.phase = "open" /\ uk.next = k.index /\ uk.open[1] = "call" /\ uk.late = u.late
       /\ uk.ok = u.ok
       /\ ~z => uk.got = u.got /\ uk.open = c
  <2>1. CASE n \in m.tools /\ m.open = "call"
    <3>1. uk = [u EXCEPT !.phase = "open", !.next = k.index]
      BY <1>12, <2>1
    <3>2. uk \in Views /\ uk.phase = "open" /\ uk.next = k.index /\ uk.late = u.late /\ uk.ok = u.ok
          /\ uk.open = u.open /\ uk.got = u.got
      BY <1>1, <1>13, <3>1 DEF Views
    <3>3. u.open[1] = "call"
      BY <1>1, <2>1 DEF MessagesShape, Opens
    <3>4. ~z => u.open = c
      <4>1. ~z => a.told - 1 = n
        BY <1>3, <1>6
      <4> QED  BY <1>1, <4>1 DEF MessagesShown, c
    <3> QED  BY <3>2, <3>3, <3>4
  <2>2. CASE ~(n \in m.tools /\ m.open = "call")
    <3>1. uk = [u EXCEPT !.phase = "open", !.open = c, !.next = k.index, !.got = Append(u.got, c)]
      BY <1>12, <2>2
    <3>2. Append(u.got, c) \in Seq(Pairs)
      BY <1>1, <1>3 DEF Views
    <3>3. uk \in Views /\ uk.phase = "open" /\ uk.next = k.index /\ uk.late = u.late /\ uk.ok = u.ok
          /\ uk.open = c
      BY <1>1, <1>3, <1>13, <3>1, <3>2 DEF Views
    <3>4. z
      <4>1. ~z => a.told - 1 = n
        BY <1>3, <1>6
      <4> QED  BY <1>1, <2>2, <4>1 DEF MessagesShown
    <3> QED  BY <1>3, <3>3, <3>4
  <2> QED  BY <2>1, <2>2
<1>16. Grows(k, v, uk, p, q)
  BY <1>3, <1>13, <1>14, <1>15, BlockDeltaSeen
<1> HIDE DEF q
<1>17. /\ q \in MessageEncoders /\ q = [k EXCEPT !.out = q.out]
       /\ t = [uk EXCEPT !.ok = uk.ok /\ Fits(uk.open, p), !.got = Append(uk.got, p)]
  BY <1>16 DEF Grows
<1> HIDE DEF t
<1>18. /\ t \in Views /\ t.phase = "open" /\ t.next = k.index /\ t.open = uk.open /\ t.got = Append(uk.got, p)
       /\ t.late = u.late /\ (t.ok <=> uk.ok /\ Fits(uk.open, p))
  <2>1. Append(uk.got, p) \in Seq(Pairs)
    BY <1>3, <1>15 DEF Views
  <2> QED  BY <1>15, <1>17, <2>1 DEF Views
<1>19. /\ q.started /\ q.open = "call" /\ q.index = k.index /\ q.tools = m.tools \union {n} /\ q.finished = m.finished
       /\ q.stopped = m.stopped
  BY <1>13, <1>17 DEF MessageEncoders
<1>20. MessagesShape(q, t, b)
  <2>1. \A i \in q.tools : i < b.told
    BY <1>1, <1>6, <1>8, <1>19 DEF MessagesShape
  <2> QED  BY <1>1, <1>8, <1>15, <1>18, <1>19, <2>1 DEF MessagesShape, Opens
<1>21. MessagesShown(q, t, b)
  <2>1. CASE z
    BY <1>8, <2>1 DEF MessagesShown
  <2>2. CASE ~z
    <3>1. ~a.strayed /\ a.hot /\ a.told - 1 = n
      BY <1>3, <1>6, <2>2
    <3>2. u.ok /\ u.got = Pieces(a.got, MessagesKinds)
      BY <1>1, <3>1 DEF MessagesShown
    <3>3. t.ok /\ t.got = Append(u.got, p) /\ t.open = <<"call", n>>
      BY <1>7, <1>15, <1>18, <2>2, <3>2 DEF c
    <3> QED  BY <1>8, <1>10, <1>19, <3>1, <3>2, <3>3 DEF MessagesShown
  <2> QED  BY <2>1, <2>2
<1> QED  BY <1>1, <1>2, <1>4, <1>8, <1>17, <1>18, <1>20, <1>21 DEF MessagesTied, MessagesCoupled, b, t

\* A block ends.
LEMMA MessagesBlockStop ==
  ASSUME NEW m, NEW v, NEW a \in Answers, MessagesTied(m, v, a), Settled(a), a.legal,
         NEW e \in Occurrences, Allowed(a, e), ~a.failed, e.kind \in {"toolstop", "blockstop"}
  PROVE  MessagesTied(EncodeMessages(m, e), v, After(a, e))
<1> DEFINE u == MessagesSeen(m, v)
           b == After(a, e)
           q == CloseOpenBlock(m)
           t == MessagesSeen(q, v)
<1>1. m \in MessageEncoders /\ u \in Views /\ ~u.late /\ MessagesShape(m, u, a) /\ MessagesShown(m, u, a)
  BY DEF MessagesTied, MessagesCoupled
<1>2. EncodeMessages(m, e) = q
  BY DEF EncodeMessages
<1>3. b \in Answers
  BY TakeLawful
<1>4. b = [a EXCEPT !.hot = FALSE]
  BY DEF After, Contents
<1> HIDE DEF b
<1>5. /\ ~b.failed /\ b.told = a.told /\ b.usage = a.usage /\ b.done = a.done
      /\ b.finished = a.finished /\ b.strayed = a.strayed /\ ~b.hot /\ b.got = a.got
  BY <1>4 DEF Answers
<1>6. u.phase # "failed" /\ u.next = m.index /\ Opens(m, u) /\ u = MessagesSeen(m, v)
  BY <1>1 DEF MessagesShape
<1> HIDE DEF u
<1>7. Closes(m, v, u, q)
  BY <1>1, <1>6, ClosedSeen
<1> HIDE DEF q
<1>8. /\ q \in MessageEncoders /\ q = [m EXCEPT !.open = "none", !.index = q.index, !.out = q.out]
      /\ t = [u EXCEPT !.open = NoPiece, !.next = q.index]
  BY <1>7 DEF Closes
<1> HIDE DEF t
<1>9. /\ t \in Views /\ t.phase = u.phase /\ t.next = q.index /\ t.open = NoPiece /\ t.got = u.got
      /\ t.late = u.late /\ t.ok = u.ok
  <2>1. q.index \in Nat
    BY <1>8 DEF MessageEncoders
  <2> QED  BY <1>1, <1>8, <2>1, NonePair DEF Views
<1>10. /\ q.started = m.started /\ q.open = "none" /\ q.tools = m.tools /\ q.finished = m.finished /\ q.stopped = m.stopped
  BY <1>1, <1>8 DEF MessageEncoders
<1>11. MessagesShape(q, t, b)
  BY <1>1, <1>5, <1>9, <1>10 DEF MessagesShape, Opens
<1>12. MessagesShown(q, t, b)
  BY <1>1, <1>5, <1>9 DEF MessagesShown
<1> QED  BY <1>1, <1>2, <1>5, <1>8, <1>9, <1>11, <1>12 DEF MessagesTied, MessagesCoupled, b, t

\* The answer stops.
LEMMA MessagesStop ==
  ASSUME NEW m, NEW v, NEW a \in Answers, MessagesTied(m, v, a), Settled(a), a.legal,
         NEW e \in Occurrences, Allowed(a, e), ~a.failed, e.kind = "stop"
  PROVE  MessagesTied(EncodeMessages(m, e), v, After(a, e))
<1> DEFINE u == MessagesSeen(m, v)
           b == After(a, e)
           z == a.bare \/ ~(a.begun \/ a.failed)
           k == EnsureStarted(m)
           uk == [u EXCEPT !.phase = "open"]
           l == CloseOpenBlock(k)
           q == [l EXCEPT !.finished = TRUE]
           t == MessagesSeen(q, v)
<1>1. /\ m \in MessageEncoders /\ u \in Views /\ ~u.late /\ MessagesShape(m, u, a) /\ MessagesShown(m, u, a)
      /\ ~a.finished
  BY DEF MessagesTied, MessagesCoupled, Allowed, Contents
<1>2. EncodeMessages(m, e) = q
  BY DEF EncodeMessages
<1>3. b \in Answers
  BY TakeLawful
<1>4. b = [a EXCEPT !.finished = TRUE, !.hot = FALSE, !.bare = z]
  BY DEF After, Contents
<1> HIDE DEF b, z
<1>5. /\ ~b.failed /\ b.told = a.told /\ b.usage = a.usage /\ b.done = a.done
      /\ b.finished /\ b.strayed = a.strayed /\ ~b.hot /\ b.got = a.got
  BY <1>4 DEF Answers
<1>6. ~a.usage /\ ~a.done
  BY <1>1 DEF Settled
<1>7. u.phase = (IF m.started THEN "open" ELSE "new") /\ u.next = m.index /\ Opens(m, u) /\ u = MessagesSeen(m, v)
      /\ ~m.stopped
  BY <1>1 DEF MessagesShape
<1> HIDE DEF u
<1>8. Starts(m, v, u, k)
  BY <1>1, <1>7, StartedSeen
<1> HIDE DEF k
<1>9. k \in MessageEncoders /\ k = [m EXCEPT !.started = TRUE, !.out = k.out] /\ MessagesSeen(k, v) = uk
  BY <1>8 DEF Starts
<1>10. k \in MessageEncoders /\ k.open = m.open /\ k.index = m.index
  BY <1>1, <1>9 DEF MessageEncoders
<1>11. /\ uk \in Views /\ uk.phase = "open" /\ uk.next = k.index /\ Opens(k, uk)
       /\ uk.got = u.got /\ uk.ok = u.ok /\ uk.late = u.late
  BY <1>1, <1>7, <1>10 DEF Opens, Views
<1> HIDE DEF uk
<1>12. uk.phase # "failed" /\ uk = MessagesSeen(k, v)
  BY <1>9, <1>11
<1>13. Closes(k, v, uk, l)
  BY <1>10, <1>11, <1>12, ClosedSeen
<1> HIDE DEF l
<1>14. /\ l \in MessageEncoders /\ l = [k EXCEPT !.open = "none", !.index = l.index, !.out = l.out]
       /\ MessagesSeen(l, v) = [uk EXCEPT !.open = NoPiece, !.next = l.index]
  BY <1>13 DEF Closes
<1>15. /\ l.started /\ l.open = "none" /\ l.tools = m.tools /\ l.stopped = m.stopped /\ l.index \in Nat
  <2>1. k.started /\ k.tools = m.tools /\ k.stopped = m.stopped
    BY <1>1, <1>9 DEF MessageEncoders
  <2> QED  BY <1>10, <1>14, <2>1 DEF MessageEncoders
<1>16. /\ q \in MessageEncoders /\ q.started /\ q.open = "none" /\ q.tools = m.tools /\ ~q.stopped
       /\ q.finished /\ q.index = l.index /\ q.out = l.out
  BY <1>7, <1>14, <1>15 DEF MessageEncoders
<1>17. t = [uk EXCEPT !.open = NoPiece, !.next = l.index]
  <2>1. MessagesSeen(q, v) = MessagesSeen(l, v)
    BY <1>16 DEF MessagesSeen
  <2> QED  BY <1>14, <2>1
<1> HIDE DEF q, t
<1>18. /\ t \in Views /\ t.phase = "open" /\ t.next = l.index /\ t.open = NoPiece /\ t.got = u.got
       /\ t.late = u.late /\ t.ok = u.ok
  BY <1>11, <1>15, <1>17, NonePair DEF Views
<1>19. MessagesShape(q, t, b)
  BY <1>1, <1>5, <1>6, <1>16, <1>18 DEF MessagesShape, Opens
<1>20. MessagesShown(q, t, b)
  BY <1>1, <1>5, <1>18 DEF MessagesShown
<1> QED  BY <1>1, <1>2, <1>5, <1>16, <1>18, <1>19, <1>20 DEF MessagesTied, MessagesCoupled, b, t

\* The usage, or [DONE]: the message is finalised once it has stopped.
LEMMA MessagesUsage ==
  ASSUME NEW m, NEW v, NEW a \in Answers, MessagesTied(m, v, a), Settled(a), a.legal,
         NEW e \in Occurrences, Allowed(a, e), ~a.failed, e.kind \in {"usage", "done"}
  PROVE  MessagesTied(EncodeMessages(m, e), v, After(a, e))
<1> DEFINE u == MessagesSeen(m, v)
           b == After(a, e)
           q == EncodeMessages(m, e)
           t == MessagesSeen(q, v)
<1>1. m \in MessageEncoders /\ u \in Views /\ ~u.late /\ MessagesShape(m, u, a) /\ MessagesShown(m, u, a)
  BY DEF MessagesTied, MessagesCoupled
<1>2. q = IF m.finished /\ ~m.stopped THEN FinalizeMessage(m) ELSE m
  BY DEF EncodeMessages
<1>3. b \in Answers
  BY TakeLawful
<1>4. /\ ~b.failed /\ b.told = a.told
      /\ b.finished = a.finished /\ b.strayed = a.strayed /\ b.hot = a.hot /\ b.got = a.got
      /\ (b.usage \/ b.done) <=> (a.usage \/ a.done \/ a.finished)
  <2>1. CASE e.kind = "usage"
    BY <1>3, <2>1 DEF After, Contents, Answers
  <2>2. CASE e.kind = "done"
    <3>1. a.finished
      BY <2>2 DEF Allowed, Contents
    <3> QED  BY <1>3, <2>2, <3>1 DEF After, Contents, Answers
  <2> QED  BY <2>1, <2>2
<1> HIDE DEF b
<1>5. CASE m.finished /\ ~m.stopped
  <2>1. q = FinalizeMessage(m)
    BY <1>2, <1>5
  <2>2. u.phase = "open" /\ u.open = NoPiece /\ u = MessagesSeen(m, v) /\ m.open = "none"
    BY <1>1, <1>5 DEF MessagesShape, Opens
  <2> HIDE DEF u, q
  <2>3. Finalizes(m, v, u, q)
    BY <1>1, <2>1, <2>2, FinalizedSeen
  <2>4. q \in MessageEncoders /\ q = [m EXCEPT !.stopped = TRUE, !.out = q.out] /\ t = [u EXCEPT !.phase = "ended"]
    BY <2>3 DEF Finalizes
  <2> HIDE DEF t
  <2>5. /\ t \in Views /\ t.phase = "ended" /\ t.next = u.next /\ t.open = NoPiece /\ t.got = u.got
        /\ t.late = u.late /\ t.ok = u.ok
    BY <1>1, <2>2, <2>4 DEF Views
  <2>6. /\ q.started = m.started /\ q.open = "none" /\ q.tools = m.tools /\ q.finished = m.finished /\ q.stopped
        /\ q.index = m.index
    BY <1>1, <2>2, <2>4 DEF MessageEncoders
  <2>7. MessagesShape(q, t, b)
    BY <1>1, <1>4, <1>5, <2>5, <2>6 DEF MessagesShape, Opens
  <2>8. MessagesShown(q, t, b)
    <3>1. u.open # <<"call", a.told - 1>>
      BY <2>2 DEF NoPiece
    <3> QED  BY <1>1, <1>4, <2>5, <3>1 DEF MessagesShown
  <2> QED  BY <1>1, <1>4, <2>4, <2>5, <2>7, <2>8 DEF MessagesTied, MessagesCoupled, b, t, q
<1>6. CASE ~(m.finished /\ ~m.stopped)
  <2>1. q = m
    BY <1>2, <1>6
  <2>2. MessagesShape(m, u, b)
    BY <1>1, <1>4, <1>6 DEF MessagesShape
  <2>3. MessagesShown(m, u, b)
    BY <1>1, <1>4 DEF MessagesShown
  <2> HIDE DEF q
  <2>4. MessagesTied(m, v, b)
    BY <1>1, <1>4, <2>2, <2>3 DEF MessagesTied, MessagesCoupled
  <2> QED  BY <2>1, <2>4 DEF b, q
<1> QED  BY <1>5, <1>6

\* The provider fails.
LEMMA MessagesError ==
  ASSUME NEW m, NEW v, NEW a \in Answers, MessagesTied(m, v, a), Settled(a), a.legal,
         NEW e \in Occurrences, Allowed(a, e), ~a.failed, e.kind = "error"
  PROVE  MessagesTied(EncodeMessages(m, e), v, After(a, e))
<1> DEFINE u == MessagesSeen(m, v)
           b == After(a, e)
           w == Wire("error", 0, NoPiece)
           k == [m EXCEPT !.stopped = TRUE]
           q == Emit(k, w)
           t == MessagesSeen(q, v)
<1>1. /\ m \in MessageEncoders /\ u \in Views /\ ~u.late /\ MessagesShape(m, u, a) /\ MessagesShown(m, u, a)
      /\ ~a.finished
  BY DEF MessagesTied, MessagesCoupled, Allowed, Contents
<1>2. EncodeMessages(m, e) = q
  BY DEF EncodeMessages
<1>3. b \in Answers
  BY TakeLawful
<1>4. b = [a EXCEPT !.failed = TRUE, !.hot = FALSE]
  BY DEF After, Contents
<1> HIDE DEF b
<1>5. b.failed /\ b.strayed = a.strayed
  BY <1>4 DEF Answers
<1>6. w \in MessageWires /\ k \in MessageEncoders /\ k.out = m.out /\ k.stopped
  BY <1>1, NonePair DEF MessageEncoders, MessageWires, Wire
<1>7. MessagesSeen(k, v) = u
  BY <1>6 DEF MessagesSeen
<1>8. u.phase \notin {"ended", "failed"}
  BY <1>1 DEF MessagesShape
<1>9. ReadMessages(u, w) = [u EXCEPT !.phase = "failed"]
  BY <1>1, <1>8, ReadsError
<1> HIDE DEF k, w, u
<1>10. q = [k EXCEPT !.out = Append(k.out, w)] /\ q \in MessageEncoders /\ t = ReadMessages(u, w)
  BY <1>6, <1>7, MessagesEmit
<1> HIDE DEF q, t
<1>11. q.stopped
  BY <1>6, <1>10 DEF MessageEncoders
<1>12. t \in Views /\ t.phase = "failed" /\ t.late = u.late /\ t.ok = u.ok
  BY <1>1, <1>9, <1>10 DEF Views
<1>13. u.ok \/ a.strayed
  BY <1>1 DEF MessagesShown
<1> QED  BY <1>1, <1>2, <1>5, <1>10, <1>11, <1>12, <1>13 DEF MessagesTied, MessagesCoupled, b, t

\* One internal event, whatever its kind.
LEMMA MessagesStep ==
  ASSUME NEW m, NEW v, NEW a \in Answers, MessagesTied(m, v, a), Settled(a), a.legal,
         NEW e \in Occurrences, Allowed(a, e)
  PROVE  MessagesTied(EncodeMessages(m, e), v, After(a, e))
<1>1. e.kind \in Kinds
  BY DEF Occurrences
<1>2. CASE a.failed
  BY <1>2, MessagesFailed
<1>3. CASE ~a.failed /\ e.kind \in {"start", "blockstart", "refusal"}
  BY <1>3, MessagesQuiet
<1>4. CASE ~a.failed /\ e.kind \in {"text", "thinking", "signature"}
  BY <1>4, MessagesContent
<1>5. CASE ~a.failed /\ e.kind = "redacted"
  BY <1>5, MessagesRedacted
<1>6. CASE ~a.failed /\ e.kind = "toolstart"
  BY <1>6, MessagesToolStart
<1>7. CASE ~a.failed /\ e.kind \in {"toolargs", "tooldelta"}
  BY <1>7, MessagesArguments
<1>8. CASE ~a.failed /\ e.kind \in {"toolstop", "blockstop"}
  BY <1>8, MessagesBlockStop
<1>9. CASE ~a.failed /\ e.kind = "stop"
  BY <1>9, MessagesStop
<1>10. CASE ~a.failed /\ e.kind \in {"usage", "done"}
  BY <1>10, MessagesUsage
<1>11. CASE ~a.failed /\ e.kind = "error"
  BY <1>11, MessagesError
<1> QED  BY <1>1, <1>2, <1>3, <1>4, <1>5, <1>6, <1>7, <1>8, <1>9, <1>10, <1>11 DEF Kinds
LEMMA TakeLegal == ASSUME NEW a, NEW e, Take(a, e).legal PROVE a.legal /\ Allowed(a, e)
  BY DEF Take, Nonsense, NewAnswer

\* The Messages encoder keeps up with all the events the decoder gives at once.
LEMMA MessagesRun ==
  ASSUME NEW m, NEW v, NEW a \in Answers, MessagesTied(m, v, a), Settled(a),
         NEW s \in Seq(Occurrences), Took(a, s).legal
  PROVE  /\ MessagesTied(FoldLeft(EncodeMessages, m, s), v, Took(a, s))
         /\ Took(a, s) \in Answers /\ Settled(Took(a, s))
<1> DEFINE hm == By("messages")
           ha == By("take")
<1>1. PICK x : /\ x[0] = m /\ x[Len(s)] = Folded(hm, m, s)
               /\ \A k \in 1..Len(s) : x[k] = StepOf(hm, x[k - 1], s[k])
  BY FoldedGoes
<1>2. PICK y : /\ y[0] = a /\ y[Len(s)] = Folded(ha, a, s)
               /\ \A k \in 1..Len(s) : y[k] = StepOf(ha, y[k - 1], s[k])
  BY FoldedGoes
<1>3. \A k \in 1..Len(s) : x[k] = EncodeMessages(x[k - 1], s[k]) /\ y[k] = Take(y[k - 1], s[k])
  BY <1>1, <1>2 DEF StepOf, By
<1> DEFINE G == {k \in Nat : k <= Len(s) /\ y[k].legal => MessagesTied(x[k], v, y[k]) /\ y[k] \in Answers /\ Settled(y[k])}
<1>4. 0 \in G
  BY <1>1, <1>2
<1>5. ASSUME NEW k \in Nat, k \in G PROVE k + 1 \in G
  <2> SUFFICES ASSUME k + 1 <= Len(s), y[k + 1].legal
               PROVE  MessagesTied(x[k + 1], v, y[k + 1]) /\ y[k + 1] \in Answers /\ Settled(y[k + 1])
    OBVIOUS
  <2> DEFINE e == s[k + 1]
             b == y[k]
             n == x[k]
  <2>1. e \in Occurrences /\ x[k + 1] = EncodeMessages(n, e) /\ y[k + 1] = Take(b, e)
    <3>1. k + 1 \in 1..Len(s) /\ (k + 1) - 1 = k
      OBVIOUS
    <3> QED  BY <1>3, <3>1
  <2>2. b.legal /\ Allowed(b, e)
    BY <2>1, TakeLegal
  <2>3. MessagesTied(n, v, b) /\ b \in Answers /\ Settled(b)
    BY <1>5, <2>2
  <2> HIDE DEF e, b, n
  <2>4. Take(b, e) = After(b, e) /\ After(b, e) \in Answers
    BY <2>1, <2>2, <2>3, TakeLawful
  <2>5. MessagesTied(EncodeMessages(n, e), v, After(b, e))
    BY <2>1, <2>2, <2>3, MessagesStep
  <2>6. Settled(After(b, e))
    BY <2>1, <2>2, <2>3, SettledAfter
  <2> QED  BY <2>1, <2>4, <2>5, <2>6
<1> HIDE DEF G
<1>6. Len(s) \in G
  BY <1>4, <1>5, Upward
<1>7. FoldLeft(EncodeMessages, m, s) = x[Len(s)] /\ Took(a, s) = y[Len(s)]
  BY <1>1, <1>2, FoldEncodeMessages DEF Took
<1> QED  BY <1>6, <1>7 DEF G

ItemWires == [type : {"created", "item_added", "part_added", "delta", "part_done", "item_done", "terminal", "error"},
              at : Nat, sub : Nat, piece : Pairs, content : Seq(Pairs) \union Seq(Nat)]
Calls == [at : Nat, args : Nat, open : BOOLEAN]
ResponsesEncoders ==
  [created : BOOLEAN, message : BOOLEAN, reasoning : BOOLEAN, part : {"none", "text", "refusal"},
   finished : BOOLEAN, completed : BOOLEAN, why : {"none", "stop", "length", "safety"}, item : Nat, content : Nat,
   order : Seq({"text", "refusal"}), text : Nat, refusal : Nat, thinking : Nat, signatures : Nat,
   calls : Seq(Calls), echo : Seq(Nat), out : Seq(ItemWires)]

ResponsesSeen(r, v) == FoldLeft(ReadResponses, v, r.out)

LEMMA ResponsesEmit ==
  ASSUME NEW r \in ResponsesEncoders, NEW w \in ItemWires, NEW v
  PROVE  /\ Emit(r, w) = [r EXCEPT !.out = Append(r.out, w)]
         /\ Emit(r, w) \in ResponsesEncoders
         /\ ResponsesSeen(Emit(r, w), v) = ReadResponses(ResponsesSeen(r, v), w)
<1> DEFINE o == Append(r.out, w)
<1>1. r.out \in Seq(ItemWires) /\ o \in Seq(ItemWires)
  BY DEF ResponsesEncoders
<1>2. Emit(r, w) = [r EXCEPT !.out = o]
  BY DEF Emit
<1> HIDE DEF o
<1>3. Emit(r, w) \in ResponsesEncoders /\ Emit(r, w).out = o
  BY <1>1, <1>2 DEF ResponsesEncoders
<1>4. FoldLeft(ReadResponses, v, o) = Folded(By("readResponses"), v, o)
  BY <1>1, FoldReadResponses
<1>5. FoldLeft(ReadResponses, v, r.out) = Folded(By("readResponses"), v, r.out)
  BY <1>1, FoldReadResponses
<1>6. \A x, y : StepOf(By("readResponses"), x, y) = ReadResponses(x, y)
  BY DEF StepOf, By
<1>7. Folded(By("readResponses"), v, o) = StepOf(By("readResponses"), Folded(By("readResponses"), v, r.out), w)
  BY <1>1, FoldedAppend DEF o
<1> QED  BY <1>2, <1>3, <1>4, <1>5, <1>6, <1>7 DEF ResponsesSeen, o

Put(items, i, x) == [items EXCEPT ![i] = x]

LEMMA PutIn ==
  ASSUME NEW items \in Seq(Items), NEW i \in 1..Len(items), NEW x \in Items
  PROVE  /\ Put(items, i, x) \in Seq(Items) /\ Len(Put(items, i, x)) = Len(items)
         /\ Put(items, i, x)[i] = x
         /\ \A j \in 1..Len(items) : j # i => Put(items, i, x)[j] = items[j]
  BY DEF Put

LEMMA ReadsCreated ==
  ASSUME NEW u \in Views, u.phase = "new"
  PROVE  ReadResponses(u, Item("created", 0, 0, NoPiece, <<>>)) = [u EXCEPT !.phase = "open"]
<1>1. Must(u, u.phase = "new") = u
  BY StillOk DEF Must, Views
<1> QED  BY <1>1 DEF ReadResponses, Item

LEMMA ReadsItemAdded ==
  ASSUME NEW u \in Views, u.phase = "open", NEW p \in Pairs
  PROVE  ReadResponses(u, Item("item_added", Len(u.items), 0, p, <<>>))
         = [u EXCEPT !.items = Append(u.items, [what |-> p, open |-> TRUE, part |-> "none", parts |-> <<>>]),
                     !.got = u.got \o If(p[1] = "call", <<p>>)]
<1> DEFINE w == Item("item_added", Len(u.items), 0, p, <<>>)
<1>1. Must(u, u.phase = "open" /\ w.at + 1 = Len(u.items) + 1) = u
  BY StillOk DEF Must, Views, Item
<1>2. ViewItem(w) = [what |-> p, open |-> TRUE, part |-> "none", parts |-> <<>>]
  BY DEF ViewItem, Item
<1>3. w.type = "item_added" /\ w.piece = p
  BY DEF Item
<1> HIDE DEF w
<1> QED  BY <1>1, <1>2, <1>3 DEF ReadResponses, w

PartAdds(u, i, p) ==
  ReadResponses(u, Item("part_added", i - 1, Len(u.items[i].parts), p, <<>>))
  = [u EXCEPT !.items = Put(u.items, i, [u.items[i] EXCEPT !.part = p[1],
                                              !.parts = Append(u.items[i].parts, <<p[1], 0>>)])]

LEMMA ReadsPartAdded ==
  ASSUME NEW u \in Views, u.phase # "failed", NEW i \in 1..Len(u.items), u.items[i].open, u.items[i].part = "none",
         NEW p \in Pairs
  PROVE  PartAdds(u, i, p)
<1> DEFINE w == Item("part_added", i - 1, Len(u.items[i].parts), p, <<>>)
<1>1. w.type = "part_added" /\ w.piece = p /\ w.at + 1 = i /\ w.sub = Len(u.items[i].parts)
  BY DEF Item
<1>2. i \in DOMAIN u.items
  BY DEF Views
<1> HIDE DEF w
<1>3. InItem(u, w)
  BY <1>1, <1>2 DEF InItem
<1>4. Must(u, u.items[i].part = "none" /\ w.sub = Len(u.items[i].parts)) = u
  BY <1>1, StillOk DEF Must, Views
<1>5. ReadResponses(u, w) = [u EXCEPT !.items[i].part = p[1], !.items[i].parts = Append(@, <<p[1], 0>>)]
  BY <1>1, <1>3, <1>4 DEF ReadResponses
<1>6. u.items[i] \in Items
  BY <1>2 DEF Views
<1> QED  BY <1>2, <1>5, <1>6 DEF Put, w, Views, Items, PartAdds

PartEnds(x, p, content) ==
  /\ x.open /\ x.part = p[1] /\ x.parts # <<>>
  /\ Distinct(x.parts) => content[1] = x.parts[Len(x.parts)]

PartEnded(u, i, p, content) ==
  ReadResponses(u, Item("part_done", i - 1, Len(u.items[i].parts) - 1, p, content))
  = [u EXCEPT !.items = Put(u.items, i, [u.items[i] EXCEPT !.part = "none"])]

LEMMA ReadsPartDone ==
  ASSUME NEW u \in Views, u.phase # "failed", NEW i \in 1..Len(u.items),
         NEW p \in Pairs, NEW content, PartEnds(u.items[i], p, content)
  PROVE  PartEnded(u, i, p, content)
<1> DEFINE w == Item("part_done", i - 1, Len(u.items[i].parts) - 1, p, content)
<1>1. w.type = "part_done" /\ w.piece = p /\ w.at + 1 = i /\ w.sub = Len(u.items[i].parts) - 1 /\ w.content = content
  BY DEF Item
<1>2. i \in DOMAIN u.items
  BY DEF Views
<1> HIDE DEF w
<1>3. InItem(u, w)
  BY <1>1, <1>2 DEF InItem, PartEnds
<1>4. Must(u, /\ u.items[i].part = w.piece[1] /\ w.sub = Len(u.items[i].parts) - 1
              /\ Distinct(u.items[i].parts) => w.content[1] = Last(u.items[i].parts)) = u
  BY <1>1, StillOk DEF Must, Views, Last, PartEnds
<1>5. ReadResponses(u, w) = [u EXCEPT !.items[i].part = "none"]
  BY <1>1, <1>3, <1>4 DEF ReadResponses
<1> QED  BY <1>2, <1>5 DEF Put, w, Views, PartEnded

ItemEnds(x, content) == x.open /\ x.part = "none" /\ Same(x.parts, content, x.what[1])

ItemEnded(u, i, n, content) ==
  ReadResponses(u, Item("item_done", i - 1, n, u.items[i].what, content))
  = [u EXCEPT !.items = Put(u.items, i, [u.items[i] EXCEPT !.open = FALSE]),
              !.done = Append(u.done, i - 1), !.signatures = u.signatures + n]

LEMMA ReadsItemDone ==
  ASSUME NEW u \in Views, u.phase # "failed", NEW i \in 1..Len(u.items), NEW n \in Nat, NEW content,
         ItemEnds(u.items[i], content)
  PROVE  ItemEnded(u, i, n, content)
<1> DEFINE w == Item("item_done", i - 1, n, u.items[i].what, content)
<1>1. w.type = "item_done" /\ w.piece = u.items[i].what /\ w.at + 1 = i /\ w.at = i - 1 /\ w.sub = n /\ w.content = content
  BY DEF Item
<1>2. i \in DOMAIN u.items
  BY DEF Views
<1> HIDE DEF w
<1>3. InItem(u, w)
  BY <1>1, <1>2 DEF InItem, ItemEnds
<1>4. Must(u, /\ u.items[i].part = "none" /\ u.items[i].what = w.piece
              /\ Same(u.items[i].parts, w.content, w.piece[1])) = u
  BY <1>1, StillOk DEF Must, Views, ItemEnds
<1>5. ReadResponses(u, w) = [u EXCEPT !.items[i].open = FALSE, !.done = Append(@, i - 1), !.signatures = @ + n]
  BY <1>1, <1>3, <1>4 DEF ReadResponses
<1> QED  BY <1>2, <1>5 DEF Put, w, Views, ItemEnded

LEMMA ReadsTerminal ==
  ASSUME NEW u \in Views, u.phase # "failed", NEW p, NEW content, NEW ok \in BOOLEAN,
         ok <=> u.ok /\ u.phase = "open" /\ content = u.done /\ \A i \in DOMAIN u.items : ~u.items[i].open
  PROVE  ReadResponses(u, Item("terminal", 0, 0, p, content)) = [u EXCEPT !.phase = "ended", !.ok = ok]
<1> DEFINE w == Item("terminal", 0, 0, p, content)
<1>1. w.type = "terminal" /\ w.content = content
  BY DEF Item
<1> HIDE DEF w
<1>2. u.ok \in BOOLEAN
  BY DEF Views
<1>3. (u.ok /\ (/\ u.phase = "open" /\ w.content = u.done /\ \A j \in DOMAIN u.items : ~u.items[j].open)) = ok
  BY <1>1, <1>2
<1>4. Must(u, /\ u.phase = "open" /\ w.content = u.done /\ \A j \in DOMAIN u.items : ~u.items[j].open)
      = [u EXCEPT !.ok = ok]
  BY <1>3 DEF Must
<1>5. ReadResponses(u, w) = [[u EXCEPT !.ok = ok] EXCEPT !.phase = "ended"]
  BY <1>1, <1>4 DEF ReadResponses
<1> QED  BY <1>5 DEF w, Views

LEMMA ReadsFailure ==
  ASSUME NEW u \in Views, u.phase \notin {"ended", "failed"}
  PROVE  ReadResponses(u, Item("error", 0, 0, NoPiece, <<>>)) = [u EXCEPT !.phase = "failed"]
<1>1. Must(u, u.phase # "ended") = u
  BY StillOk DEF Must, Views
<1> QED  BY <1>1 DEF ReadResponses, Item

LEMMA ReadsNothing ==
  ASSUME NEW u \in Views, u.phase = "failed", NEW w, w.type # "terminal"
  PROVE  ReadResponses(u, w) = u
<1>1. Must(u, w.type # "terminal") = u
  BY StillOk DEF Must, Views
<1> QED  BY <1>1 DEF ReadResponses

Counted(what, n) == IF n = 0 THEN <<>> ELSE <<<<what, n>>>>

\* The items before the one open now: none has a part open, and the open ones are open calls.
Past(n, calls, items) ==
  \A i \in 1..n : /\ items[i].part = "none"
                  /\ items[i].open => \E j \in 1..Len(calls) : calls[j].open /\ calls[j].at + 1 = i

CallItem(x, call, j) ==
  x.what = <<"call", j - 1>> /\ x.open = call.open /\ x.parts = Counted("args", call.args)

CallsFit(n, calls, items) ==
  \A j \in 1..Len(calls) : /\ calls[j].at < n
                           /\ CallItem(items[calls[j].at + 1], calls[j], j)
                           /\ calls[j].open => j = Len(calls)

MessageItem(r, x) ==
  /\ x.what = <<"message", 0>> /\ x.open /\ x.part = r.part
  /\ Len(x.parts) = Len(r.order)
  /\ \A p \in 1..Len(r.order) : x.parts[p][1] = r.order[p]
  /\ Distinct(x.parts) => \A p \in 1..Len(r.order) : x.parts[p][2] = Accumulated(r, r.order[p])
  /\ r.part = "none" => r.content = Len(r.order)
  /\ r.part # "none" => /\ Len(r.order) > 0 /\ r.content = Len(r.order) - 1
                        /\ r.order[Len(r.order)] = r.part
  /\ \A what \in {"text", "refusal"} :
        (\A p \in 1..Len(r.order) : r.order[p] # what) => Accumulated(r, what) = 0

MessageFits(r, items) ==
  IF r.message THEN MessageItem(r, items[r.item + 1])
  ELSE r.part = "none" /\ r.order = <<>> /\ r.content = 0 /\ r.text = 0 /\ r.refusal = 0

ReasoningItem(r, x) ==
  x.what = <<"reasoning", 0>> /\ x.open /\ x.part = "none" /\ x.parts = Counted("thinking", r.thinking)

ReasoningFits(r, items) ==
  IF r.reasoning THEN ReasoningItem(r, items[r.item + 1]) ELSE r.thinking = 0

Layout(r, u) ==
  /\ ~(r.message /\ r.reasoning)
  /\ r.echo = u.done
  /\ Len(u.items) = IF r.message \/ r.reasoning THEN r.item + 1 ELSE r.item
  /\ Past(r.item, r.calls, u.items) /\ CallsFit(r.item, r.calls, u.items)
  /\ MessageFits(r, u.items) /\ ReasoningFits(r, u.items)

Well(r, v) == r \in ResponsesEncoders /\ ResponsesSeen(r, v) \in Views /\ Layout(r, ResponsesSeen(r, v))

\* What closing an item or a part leaves alone.
Keeps(r, u, q, t) ==
  /\ q.created = r.created /\ q.finished = r.finished /\ q.completed = r.completed /\ q.why = r.why
  /\ t.phase = u.phase /\ t.got = u.got /\ t.late = u.late /\ t.ok = u.ok
  /\ t.signatures + q.signatures = u.signatures + r.signatures
  /\ r.reasoning \/ r.signatures = 0 => q.reasoning \/ q.signatures = 0
  /\ Len(q.calls) = Len(r.calls)
Kept(r, q, v) == Keeps(r, ResponsesSeen(r, v), q, ResponsesSeen(q, v))

LEMMA KeptSame == ASSUME NEW r \in ResponsesEncoders, NEW v PROVE Kept(r, r, v)
  BY DEF Kept, Keeps

LEMMA KeptOn ==
  ASSUME NEW r, NEW q, NEW p, NEW v, Kept(r, q, v), Kept(q, p, v)
  PROVE  Kept(r, p, v)
  BY DEF Kept, Keeps

LEMMA Unmoved ==
  ASSUME NEW n \in Nat, NEW calls \in Seq(Calls), NEW items, NEW items2, \A j \in 1..n : items2[j] = items[j],
         Past(n, calls, items), CallsFit(n, calls, items)
  PROVE  Past(n, calls, items2) /\ CallsFit(n, calls, items2)
<1>1. Past(n, calls, items2)
  BY DEF Past
<1>2. ASSUME NEW j \in 1..Len(calls) PROVE items2[calls[j].at + 1] = items[calls[j].at + 1]
  <2>1. calls[j] \in Calls /\ calls[j].at < n
    BY DEF CallsFit
  <2>2. calls[j].at + 1 \in 1..n
    BY <2>1 DEF Calls
  <2> QED  BY <2>2
<1>3. CallsFit(n, calls, items2)
  BY <1>2, Zenon DEF CallsFit
<1> QED  BY <1>1, <1>3

LEMMA MovedOn ==
  ASSUME NEW n \in Nat, NEW calls \in Seq(Calls), NEW items, NEW items2, \A j \in 1..n : items2[j] = items[j],
         Past(n, calls, items), CallsFit(n, calls, items), items2[n + 1].part = "none", ~items2[n + 1].open
  PROVE  Past(n + 1, calls, items2) /\ CallsFit(n + 1, calls, items2)
<1>1. Past(n, calls, items2) /\ CallsFit(n, calls, items2)
  BY Unmoved
<1>2. Past(n + 1, calls, items2)
  <2>1. \A i \in 1..(n + 1) : i \in 1..n \/ i = n + 1
    OBVIOUS
  <2> QED  BY <1>1, <2>1 DEF Past
<1>3. CallsFit(n + 1, calls, items2)
  <2>1. ASSUME NEW j \in 1..Len(calls) PROVE calls[j].at < n + 1
    <3>1. calls[j] \in Calls /\ calls[j].at < n
      BY DEF CallsFit
    <3>2. calls[j].at \in Nat
      BY <3>1 DEF Calls
    <3> QED  BY <3>1, <3>2
  <2> QED  BY <1>1, <2>1, Zenon DEF CallsFit
<1> QED  BY <1>2, <1>3

LEMMA LastPart ==
  ASSUME NEW r \in ResponsesEncoders, NEW x \in Items, MessageItem(r, x), r.part # "none"
  PROVE  /\ x.parts # <<>> /\ Len(x.parts) - 1 = r.content
         /\ Distinct(x.parts) => x.parts[Len(x.parts)] = <<r.part, Accumulated(r, r.part)>>
<1> DEFINE n == Len(r.order)
<1>1. n \in Nat /\ n > 0 /\ Len(x.parts) = n /\ r.content = n - 1 /\ r.order[n] = r.part
  BY DEF MessageItem, ResponsesEncoders
<1>2. x.parts \in Seq(Pairs)
  BY DEF Items
<1>3. x.parts[n] \in Words \X Nat
  BY <1>1, <1>2 DEF Pairs
<1>4. x.parts[n][1] = r.part
  BY <1>1 DEF MessageItem
<1>5. Distinct(x.parts) => x.parts[n][2] = Accumulated(r, r.part)
  BY <1>1 DEF MessageItem
<1>6. x.parts[n] = <<x.parts[n][1], x.parts[n][2]>>
  BY <1>3
<1> QED  BY <1>1, <1>2, <1>4, <1>5, <1>6

LEMMA AccumulatedNat ==
  ASSUME NEW r \in ResponsesEncoders, NEW what
  PROVE  Accumulated(r, what) \in Nat
  BY DEF Accumulated, ResponsesEncoders

\* The part that is done, as an emission.
LEMMA PartDone ==
  ASSUME NEW r \in ResponsesEncoders, r.part # "none", NEW v
  PROVE  LET w == Item("part_done", r.item, r.content, <<r.part, 0>>, <<<<r.part, Accumulated(r, r.part)>>>>)
             q == CloseContentPart(r)
         IN /\ q \in ResponsesEncoders
            /\ q = [r EXCEPT !.part = "none", !.content = r.content + 1, !.out = q.out]
            /\ ResponsesSeen(q, v) = ReadResponses(ResponsesSeen(r, v), w)
<1> DEFINE w == Item("part_done", r.item, r.content, <<r.part, 0>>, <<<<r.part, Accumulated(r, r.part)>>>>)
           c == r.content + 1
           k == [r EXCEPT !.part = "none", !.content = c]
           q == CloseContentPart(r)
<1>1. q = Emit(k, w)
  BY DEF CloseContentPart
<1>2. w \in ItemWires
  <2>1. r.item \in Nat /\ r.content \in Nat /\ r.part \in Words
    BY DEF ResponsesEncoders, Words
  <2> DEFINE n == Accumulated(r, r.part)
             y == <<r.part, n>>
             z == <<r.part, 0>>
  <2>2. n \in Nat
    BY AccumulatedNat
  <2> HIDE DEF n
  <2>3. y \in Pairs /\ z \in Pairs
    BY <2>1, <2>2 DEF Pairs
  <2> HIDE DEF y, z
  <2>4. <<y>> \in Seq(Pairs) \union Seq(Nat)
    BY <2>3
  <2>5. Item("part_done", r.item, r.content, z, <<y>>) \in ItemWires
    BY <2>1, <2>3, <2>4 DEF Item, ItemWires
  <2> QED  BY <2>5 DEF y, z, n
<1>3. k \in ResponsesEncoders /\ k.out = r.out
  <2>1. c \in Nat
    BY DEF ResponsesEncoders
  <2> HIDE DEF c
  <2> QED  BY <2>1 DEF ResponsesEncoders
<1>4. ResponsesSeen(k, v) = ResponsesSeen(r, v)
  BY <1>3 DEF ResponsesSeen
<1> HIDE DEF w, k, q
<1>5. q = [k EXCEPT !.out = Append(k.out, w)] /\ q \in ResponsesEncoders
      /\ ResponsesSeen(q, v) = ReadResponses(ResponsesSeen(k, v), w)
  BY <1>1, <1>2, <1>3, ResponsesEmit
<1>6. q = [r EXCEPT !.part = "none", !.content = c, !.out = q.out]
  BY <1>5 DEF k, ResponsesEncoders
<1> QED  BY <1>4, <1>5, <1>6 DEF w, q

PartShut(r, q, v) ==
  /\ Well(q, v) /\ Kept(r, q, v) /\ q.part = "none"
  /\ q.message = r.message /\ q.reasoning = r.reasoning /\ q.calls = r.calls

LEMMA PartClosed ==
  ASSUME NEW r, NEW v, Well(r, v), ResponsesSeen(r, v).phase # "failed"
  PROVE  PartShut(r, CloseContentPart(r), v)
<1> DEFINE u == ResponsesSeen(r, v)
           q == CloseContentPart(r)
           t == ResponsesSeen(q, v)
<1>1. r \in ResponsesEncoders /\ u \in Views /\ Layout(r, u) /\ u.phase # "failed"
  BY DEF Well
<1>2. CASE r.part = "none"
  <2>1. q = r
    BY <1>2 DEF CloseContentPart
  <2> QED  BY <1>1, <1>2, <2>1, KeptSame DEF PartShut
<1>3. CASE r.part # "none"
  <2> DEFINE i == r.item + 1
             x == u.items[i]
             y == [x EXCEPT !.part = "none"]
             p == <<r.part, 0>>
             n == Accumulated(r, r.part)
             content == <<<<r.part, n>>>>
             items == Put(u.items, i, y)
             w == Item("part_done", r.item, r.content, p, content)
  <2>1. r.message /\ ~r.reasoning
    BY <1>1, <1>3 DEF Layout, MessageFits
  <2>2. i \in 1..Len(u.items) /\ Len(u.items) = i /\ r.item \in Nat /\ r.item = i - 1
    BY SMTT(30), <1>1, <2>1 DEF Layout, ResponsesEncoders
  <2>3. u.items \in Seq(Items)
    BY <1>1 DEF Views
  <2>4. x \in Items
    BY <2>2, <2>3
  <2>5. MessageItem(r, x)
    BY <1>1, <2>1 DEF Layout, MessageFits
  <2>6. /\ x.parts # <<>> /\ Len(x.parts) - 1 = r.content
        /\ Distinct(x.parts) => x.parts[Len(x.parts)] = <<r.part, n>>
    BY <1>1, <1>3, <2>4, <2>5, LastPart
  <2>7. p \in Pairs /\ p[1] = r.part
    BY <1>1 DEF Pairs, Words, ResponsesEncoders
  <2>8. q \in ResponsesEncoders /\ q = [r EXCEPT !.part = "none", !.content = r.content + 1, !.out = q.out]
        /\ t = ReadResponses(u, w)
    BY <1>1, <1>3, PartDone
  <2>9. content[1] = <<r.part, n>> /\ x.open /\ x.part = r.part
    BY <2>5 DEF MessageItem
  <2> HIDE DEF p, content, u, q, n
  <2>10. PartEnded(u, i, p, content)
    <3>1. u \in Views /\ u.phase # "failed" /\ i \in 1..Len(u.items) /\ p \in Pairs
      BY <1>1, <2>2, <2>7
    <3>2. PartEnds(u.items[i], p, content)
      BY <2>6, <2>7, <2>9 DEF PartEnds
    <3> HIDE DEF i
    <3> QED  BY <3>1, <3>2, ReadsPartDone
  <2>11. t = [u EXCEPT !.items = items]
    BY <2>2, <2>6, <2>8, <2>10 DEF PartEnded
  <2>12. y \in Items /\ y.part = "none" /\ y.what = x.what /\ y.open = x.open /\ y.parts = x.parts
    BY <2>4 DEF Items
  <2> HIDE DEF x, y, t
  <2>13. /\ items \in Seq(Items) /\ Len(items) = Len(u.items) /\ items[i] = y
         /\ \A j \in 1..Len(u.items) : j # i => items[j] = u.items[j]
    BY <2>2, <2>3, <2>12, PutIn
  <2> HIDE DEF items
  <2>14. /\ t \in Views /\ t.items = items /\ t.done = u.done /\ t.phase = u.phase /\ t.got = u.got
         /\ t.late = u.late /\ t.ok = u.ok /\ t.signatures = u.signatures
    BY <1>1, <2>11, <2>13 DEF Views
  <2>15. /\ q.created = r.created /\ q.finished = r.finished /\ q.completed = r.completed /\ q.why = r.why
         /\ q.message = r.message /\ q.reasoning = r.reasoning /\ q.calls = r.calls /\ q.item = r.item
         /\ q.part = "none" /\ q.content = r.content + 1 /\ q.order = r.order /\ q.text = r.text
         /\ q.refusal = r.refusal /\ q.thinking = r.thinking /\ q.signatures = r.signatures /\ q.echo = r.echo
    BY <1>1, <2>8 DEF ResponsesEncoders
  <2>16. MessageItem(q, y)
    BY <1>3, <2>5, <2>12, <2>15 DEF MessageItem, Accumulated
  <2>17. Past(r.item, r.calls, items) /\ CallsFit(r.item, r.calls, items)
    <3>1. \A j \in 1..r.item : items[j] = u.items[j]
      BY <2>2, <2>13
    <3>2. Past(r.item, r.calls, u.items) /\ CallsFit(r.item, r.calls, u.items) /\ r.calls \in Seq(Calls)
      BY <1>1 DEF Layout, ResponsesEncoders
    <3> QED  BY <2>2, <3>1, <3>2, Unmoved
  <2>18. MessageFits(q, items)
    BY <2>1, <2>13, <2>15, <2>16 DEF MessageFits
  <2>19. ReasoningFits(q, items)
    BY <1>1, <2>1, <2>15 DEF Layout, ReasoningFits
  <2>20. Layout(q, t)
    BY <1>1, <2>1, <2>2, <2>13, <2>14, <2>15, <2>17, <2>18, <2>19 DEF Layout
  <2>21. Keeps(r, u, q, t)
    BY <2>14, <2>15 DEF Keeps
  <2> QED  BY <2>8, <2>14, <2>15, <2>20, <2>21 DEF PartShut, Well, Kept, u, q, t
<1> QED  BY <1>2, <1>3

\* An item that is done, as an emission.
GivesItem(r, at, sub, p, content, v, q) ==
  /\ q \in ResponsesEncoders
  /\ q = [r EXCEPT !.echo = Append(r.echo, at), !.out = q.out]
  /\ ResponsesSeen(q, v) = ReadResponses(ResponsesSeen(r, v), Item("item_done", at, sub, p, content))

LEMMA ItemGiven ==
  ASSUME NEW r \in ResponsesEncoders, NEW at \in Nat, NEW sub \in Nat, NEW p \in Pairs, NEW content \in Seq(Pairs), NEW v
  PROVE  GivesItem(r, at, sub, p, content, v, ItemDone(r, at, sub, p, content))
<1> DEFINE w == Item("item_done", at, sub, p, content)
           k == Emit(r, w)
           echo == Append(r.echo, at)
           q == ItemDone(r, at, sub, p, content)
<1>1. w \in ItemWires
  BY DEF Item, ItemWires
<1>2. q = [k EXCEPT !.echo = Append(k.echo, at)]
  BY DEF ItemDone
<1> HIDE DEF w, k, q
<1>3. k = [r EXCEPT !.out = Append(r.out, w)] /\ k \in ResponsesEncoders
      /\ ResponsesSeen(k, v) = ReadResponses(ResponsesSeen(r, v), w)
  BY <1>1, ResponsesEmit DEF k
<1>4. k.echo = r.echo
  BY <1>3 DEF ResponsesEncoders
<1>5. q = [k EXCEPT !.echo = echo]
  BY <1>2, <1>4
<1>6. echo \in Seq(Nat)
  BY DEF ResponsesEncoders
<1> HIDE DEF echo
<1>7. q \in ResponsesEncoders /\ q.out = k.out
  BY <1>3, <1>5, <1>6 DEF ResponsesEncoders
<1>8. ResponsesSeen(q, v) = ResponsesSeen(k, v)
  BY <1>7 DEF ResponsesSeen
<1>9. q = [r EXCEPT !.echo = echo, !.out = q.out]
  BY <1>3, <1>5, <1>7 DEF ResponsesEncoders
<1> QED  BY <1>3, <1>7, <1>8, <1>9 DEF GivesItem, w, q, echo

\* An item of the client that is done.
ItemOver(u, i, n, t) ==
  /\ t \in Views /\ Len(t.items) = Len(u.items) /\ t.done = Append(u.done, i - 1)
  /\ t.items[i] = [u.items[i] EXCEPT !.open = FALSE]
  /\ \A j \in 1..Len(u.items) : j # i => t.items[j] = u.items[j]
  /\ t.phase = u.phase /\ t.got = u.got /\ t.late = u.late /\ t.ok = u.ok /\ t.signatures = u.signatures + n

LEMMA EndedView ==
  ASSUME NEW u \in Views, u.phase # "failed", NEW i \in 1..Len(u.items), NEW n \in Nat, NEW content, NEW t,
         ItemEnds(u.items[i], content),
         t = ReadResponses(u, Item("item_done", i - 1, n, u.items[i].what, content))
  PROVE  ItemOver(u, i, n, t)
<1> DEFINE x == u.items[i]
           y == [x EXCEPT !.open = FALSE]
           items == Put(u.items, i, y)
           done == Append(u.done, i - 1)
           s == u.signatures + n
<1>1. ItemEnded(u, i, n, content)
  BY ReadsItemDone
<1>2. t = [u EXCEPT !.items = items, !.done = done, !.signatures = s]
  BY <1>1 DEF ItemEnded
<1>3. u.items \in Seq(Items) /\ x \in Items
  BY DEF Views
<1>4. y \in Items
  BY <1>3 DEF Items
<1>5. done \in Seq(Nat) /\ s \in Nat
  <2>1. i - 1 \in Nat /\ u.done \in Seq(Nat) /\ u.signatures \in Nat
    BY <1>3 DEF Views
  <2> QED  BY <2>1
<1> HIDE DEF y, done, s, x
<1>6. /\ items \in Seq(Items) /\ Len(items) = Len(u.items) /\ items[i] = y
      /\ \A j \in 1..Len(u.items) : j # i => items[j] = u.items[j]
  BY <1>3, <1>4, PutIn
<1> HIDE DEF items
<1>7. /\ t \in Views /\ t.items = items /\ t.done = done /\ t.signatures = s
      /\ t.phase = u.phase /\ t.got = u.got /\ t.late = u.late /\ t.ok = u.ok
  BY <1>2, <1>5, <1>6 DEF Views
<1> QED  BY <1>6, <1>7 DEF ItemOver, y, x, done, s

(* ---- a Responses client: the message is closed ---- *)

LEMMA MessageContentIs ==
  ASSUME NEW r \in ResponsesEncoders
  PROVE  /\ MessageContent(r) \in Seq(Pairs) /\ Len(MessageContent(r)) = Len(r.order)
         /\ \A p \in 1..Len(r.order) : MessageContent(r)[p] = <<r.order[p], Accumulated(r, r.order[p])>>
<1>1. r.order \in Seq({"text", "refusal"})
  BY DEF ResponsesEncoders
<1>2. \A p \in DOMAIN r.order : <<r.order[p], Accumulated(r, r.order[p])>> \in Pairs
  <2> TAKE p \in DOMAIN r.order
  <2>1. r.order[p] \in Words
    BY <1>1 DEF Words
  <2>2. Accumulated(r, r.order[p]) \in Nat
    BY AccumulatedNat
  <2> QED  BY <2>1, <2>2 DEF Pairs
<1>3. DOMAIN r.order = 1..Len(r.order) /\ Len(r.order) \in Nat
  BY <1>1
<1> DEFINE f(p) == <<r.order[p], Accumulated(r, r.order[p])>>
<1>4. MessageContent(r) = [p \in 1..Len(r.order) |-> f(p)]
  BY <1>3 DEF MessageContent
<1>5. \A p \in 1..Len(r.order) : f(p) \in Pairs
  BY <1>2, <1>3
<1> HIDE DEF f
<1>6. MessageContent(r) \in Seq(Pairs) /\ Len(MessageContent(r)) = Len(r.order)
      /\ \A p \in 1..Len(r.order) : MessageContent(r)[p] = f(p)
  BY <1>3, <1>4, <1>5
<1> QED  BY <1>6 DEF f

LEMMA MessageSame ==
  ASSUME NEW r \in ResponsesEncoders, NEW x \in Items, MessageItem(r, x), r.part = "none"
  PROVE  ItemEnds(x, MessageContent(r))
<1> DEFINE mc == MessageContent(r)
<1>1. /\ mc \in Seq(Pairs) /\ Len(mc) = Len(r.order)
      /\ \A p \in 1..Len(r.order) : mc[p] = <<r.order[p], Accumulated(r, r.order[p])>>
  BY MessageContentIs
<1>2. x.parts \in Seq(Pairs) /\ Len(x.parts) = Len(r.order)
  BY DEF MessageItem, Items
<1> HIDE DEF mc
<1>3. ASSUME Distinct(x.parts) PROVE x.parts = mc
  <2>1. ASSUME NEW p \in 1..Len(r.order) PROVE x.parts[p] = mc[p]
    <3>1. x.parts[p] \in Words \X Nat
      BY <1>2 DEF Pairs
    <3>2. x.parts[p] = <<x.parts[p][1], x.parts[p][2]>>
      BY <3>1
    <3>3. x.parts[p][1] = r.order[p] /\ x.parts[p][2] = Accumulated(r, r.order[p])
      BY <1>3 DEF MessageItem
    <3> QED  BY <1>1, <3>2, <3>3
  <2>2. Len(x.parts) = Len(mc) /\ \A p \in 1..Len(mc) : x.parts[p] = mc[p]
    BY <1>1, <1>2, <2>1
  <2> QED  BY <1>1, <1>2, <2>2
<1>4. Same(x.parts, mc, x.what[1])
  BY <1>3 DEF Same
<1> QED  BY <1>4 DEF MessageItem, ItemEnds, mc

MessageShut(r, q, v) ==
  /\ Well(q, v) /\ Kept(r, q, v) /\ ~q.message /\ q.reasoning = r.reasoning /\ q.calls = r.calls
  /\ q.part = "none"

LEMMA MessageClosed ==
  ASSUME NEW r, NEW v, Well(r, v), ResponsesSeen(r, v).phase # "failed"
  PROVE  MessageShut(r, CloseMessageItem(r), v)
<1> DEFINE q == CloseMessageItem(r)
<1>1. CASE ~r.message
  <2>1. q = r
    BY <1>1 DEF CloseMessageItem
  <2>2. r \in ResponsesEncoders /\ r.part = "none"
    BY <1>1 DEF Well, Layout, MessageFits
  <2> QED  BY <1>1, <2>1, <2>2, KeptSame DEF MessageShut
<1>2. CASE r.message
  <2> DEFINE c == CloseContentPart(r)
             d == [c EXCEPT !.message = FALSE]
             e == [r EXCEPT !.message = FALSE]
             mc == MessageContent(c)
             n == c.item + 1
             k == ItemDone(d, d.item, 0, <<"message", 0>>, mc)
             u == ResponsesSeen(c, v)
             t == ResponsesSeen(q, v)
             x == u.items[n]
  <2>1. PartShut(r, c, v)
    BY PartClosed
  <2>2. Well(c, v) /\ Kept(r, c, v) /\ c.part = "none" /\ c.message /\ c.reasoning = r.reasoning /\ c.calls = r.calls
    BY <1>2, <2>1 DEF PartShut
  <2>3. c \in ResponsesEncoders /\ u \in Views /\ Layout(c, u) /\ u.phase # "failed" /\ r \in ResponsesEncoders
    BY <2>2 DEF Well, Kept, Keeps
  <2>4. CloseContentPart(e) = d
    <3>1. CASE r.part = "none"
      <4>1. e.part = "none" /\ c = r
        BY <2>3, <3>1 DEF CloseContentPart, ResponsesEncoders
      <4> QED  BY <4>1 DEF CloseContentPart
    <3>2. CASE r.part # "none"
      <4> DEFINE a == Accumulated(r, r.part)
                 w == Item("part_done", r.item, r.content, <<r.part, 0>>, <<<<r.part, a>>>>)
                 o == r.content + 1
      <4>1. /\ e.part = r.part /\ e.item = r.item /\ e.content = r.content
            /\ e.text = r.text /\ e.refusal = r.refusal
        BY <2>3 DEF ResponsesEncoders
      <4>2. Accumulated(e, e.part) = a
        BY <4>1 DEF Accumulated
      <4>3. CloseContentPart(e) = Emit([e EXCEPT !.part = "none", !.content = o], w)
        BY <3>2, <4>1, <4>2 DEF CloseContentPart
      <4>4. c = Emit([r EXCEPT !.part = "none", !.content = o], w)
        BY <3>2 DEF CloseContentPart
      <4> HIDE DEF w, o, c
      <4> QED  BY <2>3, <4>3, <4>4 DEF Emit, ResponsesEncoders
    <3> QED  BY <3>1, <3>2
  <2> HIDE DEF e
  <2>5. q = MessageDone(d)
    BY <1>2, <2>4 DEF CloseMessageItem, e
  <2> HIDE DEF c, q
  <2>6. /\ d \in ResponsesEncoders /\ d.out = c.out /\ d.item = c.item /\ d.order = c.order /\ d.text = c.text
        /\ d.refusal = c.refusal /\ d.echo = c.echo
    BY <2>3 DEF ResponsesEncoders
  <2>7. MessageContent(d) = mc
    BY <2>6 DEF MessageContent, Accumulated
  <2>8. ResponsesSeen(d, v) = u
    BY <2>6 DEF ResponsesSeen
  <2>9. c.item \in Nat /\ n \in 1..Len(u.items) /\ Len(u.items) = n /\ ~c.reasoning /\ n - 1 = c.item
    <3>1. c.item \in Nat
      BY <2>3 DEF ResponsesEncoders
    <3>2. Len(u.items) = c.item + 1 /\ ~c.reasoning
      BY <2>2, <2>3 DEF Layout
    <3> QED  BY <3>1, <3>2
  <2>10. x \in Items
    BY <2>3, <2>9 DEF Views
  <2>11. MessageItem(c, x)
    BY <2>2, <2>3 DEF Layout, MessageFits
  <2>12. ItemEnds(x, mc)
    BY <2>2, <2>3, <2>10, <2>11, MessageSame
  <2>13. mc \in Seq(Pairs)
    BY <2>3, MessageContentIs
  <2>14. <<"message", 0>> \in Pairs
    BY DEF Pairs, Words
  <2> HIDE DEF d, mc, u
  <2>15. GivesItem(d, d.item, 0, <<"message", 0>>, mc, v, k)
    BY <2>6, <2>9, <2>13, <2>14, ItemGiven
  <2>16. q = [k EXCEPT !.item = k.item + 1, !.content = 0, !.text = 0, !.refusal = 0, !.order = <<>>]
    BY <2>5, <2>7 DEF MessageDone
  <2> HIDE DEF k
  <2>17. /\ k \in ResponsesEncoders /\ k = [d EXCEPT !.echo = Append(d.echo, d.item), !.out = k.out]
         /\ ResponsesSeen(k, v) = ReadResponses(u, Item("item_done", d.item, 0, <<"message", 0>>, mc))
    BY <2>8, <2>15 DEF GivesItem
  <2>18. /\ k.created = d.created /\ k.finished = d.finished /\ k.completed = d.completed /\ k.why = d.why
         /\ k.message = d.message /\ k.reasoning = d.reasoning /\ k.calls = d.calls /\ k.item = d.item
         /\ k.part = d.part /\ k.thinking = d.thinking /\ k.signatures = d.signatures
         /\ k.echo = Append(d.echo, d.item)
    BY <2>6, <2>17 DEF ResponsesEncoders
  <2>19. /\ d.created = c.created /\ d.finished = c.finished /\ d.completed = c.completed /\ d.why = c.why
         /\ ~d.message /\ d.reasoning = c.reasoning /\ d.calls = c.calls /\ d.part = c.part
         /\ d.thinking = c.thinking /\ d.signatures = c.signatures
    BY <2>3 DEF d, ResponsesEncoders
  <2>20. q = [k EXCEPT !.item = n, !.content = 0, !.text = 0, !.refusal = 0, !.order = <<>>]
    BY <2>6, <2>16, <2>18
  <2>21. n \in Nat
    BY <2>9
  <2>22. u.items[n].what = <<"message", 0>>
    BY <2>11 DEF MessageItem
  <2> HIDE DEF n
  <2>23. /\ q \in ResponsesEncoders /\ q.out = k.out /\ q.item = n /\ q.content = 0 /\ q.text = 0 /\ q.refusal = 0
         /\ q.order = <<>> /\ q.created = k.created /\ q.finished = k.finished /\ q.completed = k.completed
         /\ q.why = k.why /\ q.message = k.message /\ q.reasoning = k.reasoning /\ q.calls = k.calls
         /\ q.part = k.part /\ q.thinking = k.thinking /\ q.signatures = k.signatures /\ q.echo = k.echo
    <3> DEFINE z == <<>>
    <3>1. z \in Seq({"text", "refusal"})
      OBVIOUS
    <3>2. q = [k EXCEPT !.item = n, !.content = 0, !.text = 0, !.refusal = 0, !.order = z]
      BY <2>20
    <3> HIDE DEF z
    <3>3. /\ q \in ResponsesEncoders /\ q.out = k.out /\ q.item = n /\ q.content = 0 /\ q.text = 0 /\ q.refusal = 0
          /\ q.order = z /\ q.created = k.created /\ q.finished = k.finished /\ q.completed = k.completed
          /\ q.why = k.why /\ q.message = k.message /\ q.reasoning = k.reasoning /\ q.calls = k.calls
          /\ q.part = k.part /\ q.thinking = k.thinking /\ q.signatures = k.signatures /\ q.echo = k.echo
      BY <2>17, <3>2, <2>21, <3>1 DEF ResponsesEncoders
    <3> QED  BY <3>3 DEF z
  <2>24. t = ReadResponses(u, Item("item_done", n - 1, 0, u.items[n].what, mc))
    <3>1. t = ResponsesSeen(k, v)
      BY <2>23 DEF ResponsesSeen
    <3> QED  BY <2>6, <2>9, <2>17, <2>22, <3>1
  <2> HIDE DEF t, x
  <2>25. ItemOver(u, n, 0, t)
    <3>1. ItemEnds(u.items[n], mc)
      BY <2>12 DEF x
    <3> QED  BY <2>3, <2>9, <2>24, <3>1, EndedView
  <2>26. /\ t \in Views /\ Len(t.items) = n /\ t.done = Append(u.done, n - 1) /\ t.items[n] = [x EXCEPT !.open = FALSE]
         /\ \A j \in 1..n : j # n => t.items[j] = u.items[j]
         /\ t.phase = u.phase /\ t.got = u.got /\ t.late = u.late /\ t.ok = u.ok /\ t.signatures = u.signatures
    <3>1. u.signatures + 0 = u.signatures
      BY <2>3 DEF Views
    <3> QED  BY <2>9, <2>25, <3>1 DEF ItemOver, x
  <2>27. t.items[n].part = "none" /\ ~t.items[n].open
    <3>1. x.part = "none"
      BY <2>2, <2>11 DEF MessageItem
    <3> QED  BY <2>10, <2>26, <3>1 DEF Items
  <2>28. Past(n, c.calls, t.items) /\ CallsFit(n, c.calls, t.items)
    <3> DEFINE i == c.item
    <3>1. \A j \in 1..i : t.items[j] = u.items[j]
      BY <2>9, <2>26
    <3>2. Past(i, c.calls, u.items) /\ CallsFit(i, c.calls, u.items) /\ c.calls \in Seq(Calls) /\ i \in Nat
      BY <2>3 DEF Layout, ResponsesEncoders
    <3>3. i + 1 = n
      BY <2>9
    <3> HIDE DEF i
    <3>4. t.items[i + 1].part = "none" /\ ~t.items[i + 1].open
      BY <2>27, <3>3
    <3>5. Past(i + 1, c.calls, t.items) /\ CallsFit(i + 1, c.calls, t.items)
      BY <3>1, <3>2, <3>4, MovedOn
    <3> QED  BY <3>3, <3>5
  <2>29. Layout(q, t)
    <3>1. c.echo = u.done /\ ReasoningFits(c, u.items)
      BY <2>3 DEF Layout
    <3>2. q.echo = t.done
      BY <2>6, <2>9, <2>18, <2>23, <2>26, <3>1
    <3>3. MessageFits(q, t.items)
      BY <2>2, <2>18, <2>19, <2>23 DEF MessageFits
    <3>4. ReasoningFits(q, t.items)
      BY <2>9, <2>18, <2>19, <2>23, <3>1 DEF ReasoningFits
    <3> QED  BY <2>9, <2>18, <2>19, <2>23, <2>26, <2>28, <3>2, <3>3, <3>4 DEF Layout
  <2>30. Keeps(c, u, q, t)
    BY <2>18, <2>19, <2>23, <2>26 DEF Keeps
  <2>31. Kept(c, q, v) /\ Well(q, v)
    BY <2>23, <2>26, <2>29, <2>30 DEF Kept, Well, u, t
  <2>32. Kept(r, q, v)
    BY <2>2, <2>31, KeptOn
  <2> QED  BY <2>2, <2>18, <2>19, <2>23, <2>31, <2>32 DEF MessageShut, q
<1> QED  BY <1>1, <1>2

(* ---- a Responses client: the reasoning is closed ---- *)

LEMMA CountedPairs ==
  ASSUME NEW what \in Words, NEW n \in Nat
  PROVE  Counted(what, n) \in Seq(Pairs)
<1>1. <<what, n>> \in Pairs
  BY DEF Pairs
<1> QED  BY <1>1 DEF Counted

LEMMA CountedSame ==
  ASSUME NEW x, NEW what, NEW n \in Nat, NEW kind, kind # "message",
         x.open, x.part = "none", x.what[1] = kind, x.parts = Counted(what, n)
  PROVE  ItemEnds(x, <<<<what, n>>>>)
<1> DEFINE content == <<<<what, n>>>>
<1>1. CASE n = 0
  <2>1. x.parts = <<>> /\ content[1][2] = 0
    BY <1>1 DEF Counted
  <2> HIDE DEF content
  <2> QED  BY <2>1 DEF ItemEnds, Same, content
<1>2. CASE n # 0
  <2>1. x.parts = content
    BY <1>2 DEF Counted
  <2> HIDE DEF content
  <2> QED  BY <2>1 DEF ItemEnds, Same, content
<1> QED  BY <1>1, <1>2

ReasoningShut(r, q, v) ==
  /\ Well(q, v) /\ Kept(r, q, v) /\ ~q.reasoning /\ q.message = r.message /\ q.calls = r.calls
  /\ q.part = r.part

LEMMA ReasoningClosed ==
  ASSUME NEW r, NEW v, Well(r, v), ResponsesSeen(r, v).phase # "failed"
  PROVE  ReasoningShut(r, CloseReasoningItem(r), v)
<1> DEFINE q == CloseReasoningItem(r)
<1>1. CASE ~r.reasoning
  <2>1. q = r
    BY <1>1 DEF CloseReasoningItem
  <2>2. r \in ResponsesEncoders
    BY DEF Well
  <2> QED  BY <1>1, <2>1, <2>2, KeptSame DEF ReasoningShut
<1>2. CASE r.reasoning
  <2> DEFINE s == r.signatures
             m == r.thinking
             n == r.item + 1
             content == <<<<"thinking", m>>>>
             p == <<"reasoning", 0>>
             k == ItemDone(r, r.item, s, p, content)
             u == ResponsesSeen(r, v)
             t == ResponsesSeen(q, v)
             x == u.items[n]
  <2>1. r \in ResponsesEncoders /\ u \in Views /\ Layout(r, u) /\ u.phase # "failed"
    BY DEF Well
  <2>2. s \in Nat /\ m \in Nat /\ r.item \in Nat /\ r.calls \in Seq(Calls)
    BY <2>1 DEF ResponsesEncoders
  <2>3. ~r.message /\ Len(u.items) = n
    BY <1>2, <2>1 DEF Layout
  <2>4. n \in 1..Len(u.items) /\ n - 1 = r.item
    BY <2>2, <2>3
  <2>5. x \in Items
    BY <2>1, <2>4 DEF Views
  <2>6. x.what = p /\ x.open /\ x.part = "none" /\ x.parts = Counted("thinking", m)
    BY <1>2, <2>1 DEF Layout, ReasoningFits, ReasoningItem
  <2>7. x.what[1] = "reasoning"
    BY <2>6
  <2> HIDE DEF x, m, s, n
  <2>8. ItemEnds(x, content)
    BY <2>2, <2>6, <2>7, CountedSame
  <2>9. content \in Seq(Pairs) /\ p \in Pairs
    <3>1. <<"thinking", m>> \in Pairs
      BY <2>2 DEF Pairs, Words
    <3> QED  BY <3>1 DEF Pairs, Words
  <2> HIDE DEF content, p, u
  <2>10. GivesItem(r, r.item, s, p, content, v, k)
    BY <2>1, <2>2, <2>9, ItemGiven
  <2>11. q = [k EXCEPT !.reasoning = FALSE, !.item = k.item + 1, !.thinking = 0, !.signatures = 0]
    BY <1>2 DEF CloseReasoningItem, s, m, p, content
  <2> HIDE DEF k, q
  <2>12. /\ k \in ResponsesEncoders /\ k = [r EXCEPT !.echo = Append(r.echo, r.item), !.out = k.out]
         /\ ResponsesSeen(k, v) = ReadResponses(u, Item("item_done", r.item, s, p, content))
    BY <2>10 DEF GivesItem, u
  <2>13. /\ k.created = r.created /\ k.finished = r.finished /\ k.completed = r.completed /\ k.why = r.why
         /\ k.message = r.message /\ k.calls = r.calls /\ k.item = r.item
         /\ k.part = r.part /\ k.content = r.content /\ k.order = r.order /\ k.text = r.text /\ k.refusal = r.refusal
         /\ k.echo = Append(r.echo, r.item)
    BY <2>1, <2>12 DEF ResponsesEncoders
  <2>14. q = [k EXCEPT !.reasoning = FALSE, !.item = n, !.thinking = 0, !.signatures = 0]
    BY <2>11, <2>13 DEF n
  <2>15. n \in Nat
    BY <2>2 DEF n
  <2>16. /\ q \in ResponsesEncoders /\ q.out = k.out /\ q.item = n /\ ~q.reasoning /\ q.thinking = 0 /\ q.signatures = 0
         /\ q.created = k.created /\ q.finished = k.finished /\ q.completed = k.completed
         /\ q.why = k.why /\ q.message = k.message /\ q.calls = k.calls
         /\ q.part = k.part /\ q.content = k.content /\ q.order = k.order /\ q.text = k.text
         /\ q.refusal = k.refusal /\ q.echo = k.echo
    BY <2>12, <2>14, <2>15 DEF ResponsesEncoders
  <2>17. t = ReadResponses(u, Item("item_done", n - 1, s, u.items[n].what, content))
    <3>1. t = ResponsesSeen(k, v)
      BY <2>16 DEF ResponsesSeen
    <3> QED  BY <2>4, <2>6, <2>12, <3>1 DEF x
  <2> HIDE DEF t
  <2>18. ItemOver(u, n, s, t)
    <3>1. ItemEnds(u.items[n], content)
      BY <2>8 DEF x
    <3> QED  BY <2>1, <2>2, <2>4, <2>17, <3>1, EndedView
  <2>19. /\ t \in Views /\ Len(t.items) = n /\ t.done = Append(u.done, n - 1) /\ t.items[n] = [x EXCEPT !.open = FALSE]
         /\ \A j \in 1..n : j # n => t.items[j] = u.items[j]
         /\ t.phase = u.phase /\ t.got = u.got /\ t.late = u.late /\ t.ok = u.ok /\ t.signatures = u.signatures + s
    BY <2>3, <2>18 DEF ItemOver, x
  <2>20. t.items[n].part = "none" /\ ~t.items[n].open
    BY <2>5, <2>6, <2>19 DEF Items
  <2>21. Past(n, r.calls, t.items) /\ CallsFit(n, r.calls, t.items)
    <3> DEFINE i == r.item
    <3>1. \A j \in 1..i : t.items[j] = u.items[j]
      BY <2>2, <2>4, <2>19
    <3>2. Past(i, r.calls, u.items) /\ CallsFit(i, r.calls, u.items)
      BY <2>1 DEF Layout
    <3>3. i + 1 = n
      BY DEF n
    <3> HIDE DEF i
    <3>4. t.items[i + 1].part = "none" /\ ~t.items[i + 1].open
      BY <2>20, <3>3
    <3>5. i \in Nat
      BY <2>2 DEF i
    <3>6. Past(i + 1, r.calls, t.items) /\ CallsFit(i + 1, r.calls, t.items)
      BY <2>2, <3>1, <3>2, <3>4, <3>5, MovedOn
    <3> QED  BY <3>3, <3>6
  <2>22. Layout(q, t)
    <3>1. r.echo = u.done /\ MessageFits(r, u.items)
      BY <2>1 DEF Layout
    <3>2. q.echo = t.done
      BY <2>4, <2>13, <2>16, <2>19, <3>1
    <3>3. MessageFits(q, t.items)
      BY <2>3, <2>13, <2>16, <3>1 DEF MessageFits
    <3>4. ReasoningFits(q, t.items)
      BY <2>16 DEF ReasoningFits
    <3> QED  BY <2>3, <2>13, <2>16, <2>19, <2>21, <3>2, <3>3, <3>4 DEF Layout
  <2>23. Keeps(r, u, q, t)
    <3>1. u.signatures \in Nat
      BY <2>1 DEF Views
    <3>2. t.signatures + q.signatures = u.signatures + r.signatures
      BY <2>2, <2>16, <2>19, <3>1 DEF s
    <3> QED  BY <2>13, <2>16, <2>19, <3>2 DEF Keeps
  <2> QED  BY <2>3, <2>13, <2>16, <2>19, <2>22, <2>23 DEF ReasoningShut, Well, Kept, u, t, q
<1> QED  BY <1>1, <1>2

(* ---- a Responses client: the calls are closed ---- *)

LEMMA PutCall ==
  ASSUME NEW calls \in Seq(Calls), NEW i \in 1..Len(calls), NEW c \in Calls, NEW put, put = [calls EXCEPT ![i] = c]
  PROVE  /\ put \in Seq(Calls) /\ Len(put) = Len(calls) /\ put[i] = c
         /\ \A j \in 1..Len(calls) : j # i => put[j] = calls[j]
  OBVIOUS

CallShut(r, i, q, v) ==
  /\ Well(q, v) /\ Kept(r, q, v) /\ q.message = r.message /\ q.reasoning = r.reasoning /\ q.part = r.part
  /\ q.calls = IF r.calls[i].open THEN [r.calls EXCEPT ![i].open = FALSE] ELSE r.calls

LEMMA CallClosed ==
  ASSUME NEW r, NEW v, Well(r, v), ResponsesSeen(r, v).phase # "failed", NEW i \in 1..Len(r.calls)
  PROVE  CallShut(r, i, CloseCall(r, i), v)
<1> DEFINE q == CloseCall(r, i)
<1>1. CASE ~r.calls[i].open
  <2>1. q = r
    BY <1>1 DEF CloseCall
  <2>2. r \in ResponsesEncoders
    BY DEF Well
  <2> QED  BY <1>1, <2>1, <2>2, KeptSame DEF CallShut
<1>2. CASE r.calls[i].open
  <2> DEFINE at == r.calls[i].at
             m == r.calls[i].args
             n == at + 1
             content == <<<<"args", m>>>>
             p == <<"call", i - 1>>
             k == ItemDone(r, at, 0, p, content)
             u == ResponsesSeen(r, v)
             t == ResponsesSeen(q, v)
             x == u.items[n]
             calls == [r.calls EXCEPT ![i].open = FALSE]
  <2>1. r \in ResponsesEncoders /\ u \in Views /\ Layout(r, u) /\ u.phase # "failed"
    BY DEF Well
  <2>2. r.calls \in Seq(Calls) /\ r.item \in Nat
    BY <2>1 DEF ResponsesEncoders
  <2>3. r.calls[i] \in Calls
    BY <2>2
  <2>4. at \in Nat /\ m \in Nat
    BY <2>3 DEF Calls
  <2>5. Past(r.item, r.calls, u.items) /\ CallsFit(r.item, r.calls, u.items)
        /\ Len(u.items) = IF r.message \/ r.reasoning THEN r.item + 1 ELSE r.item
    BY <2>1 DEF Layout
  <2>6. at < r.item /\ x.what = p /\ x.open /\ x.parts = Counted("args", m)
    BY <1>2, <2>5 DEF CallsFit, CallItem
  <2>7. n \in 1..r.item /\ n \in 1..Len(u.items) /\ n - 1 = at
    BY SMTT(30), <2>2, <2>4, <2>5, <2>6
  <2>8. x.part = "none"
    BY <2>5, <2>7 DEF Past
  <2>9. x \in Items
    BY <2>1, <2>7 DEF Views
  <2>10. x.what[1] = "call" /\ i - 1 \in Nat
    BY <2>2, <2>6
  <2> HIDE DEF x, m
  <2>11. ItemEnds(x, content)
    BY <2>4, <2>6, <2>8, <2>10, CountedSame
  <2>12. content \in Seq(Pairs) /\ p \in Pairs
    <3>1. <<"args", m>> \in Pairs
      BY <2>4 DEF Pairs, Words
    <3> QED  BY <2>10, <3>1 DEF Pairs, Words
  <2> HIDE DEF content, p, u, at
  <2>13. GivesItem(r, at, 0, p, content, v, k)
    BY <2>1, <2>4, <2>12, ItemGiven
  <2>14. q = [k EXCEPT !.calls[i].open = FALSE]
    BY <1>2 DEF CloseCall, at, m, p, content
  <2> HIDE DEF k, q
  <2>15. /\ k \in ResponsesEncoders /\ k = [r EXCEPT !.echo = Append(r.echo, at), !.out = k.out]
         /\ ResponsesSeen(k, v) = ReadResponses(u, Item("item_done", at, 0, p, content))
    BY <2>13 DEF GivesItem, u
  <2>16. /\ k.created = r.created /\ k.finished = r.finished /\ k.completed = r.completed /\ k.why = r.why
         /\ k.message = r.message /\ k.reasoning = r.reasoning /\ k.calls = r.calls /\ k.item = r.item
         /\ k.part = r.part /\ k.content = r.content /\ k.order = r.order /\ k.text = r.text /\ k.refusal = r.refusal
         /\ k.thinking = r.thinking /\ k.signatures = r.signatures
         /\ k.echo = Append(r.echo, at)
    BY <2>1, <2>15 DEF ResponsesEncoders
  <2>17. q = [k EXCEPT !.calls = calls]
    BY <2>14, <2>16
  <2>18. /\ calls \in Seq(Calls) /\ Len(calls) = Len(r.calls)
         /\ calls[i].at = at /\ calls[i].args = m /\ calls[i].open = FALSE
         /\ \A j \in 1..Len(r.calls) : j # i => calls[j] = r.calls[j]
    <3> DEFINE c == [r.calls[i] EXCEPT !.open = FALSE]
    <3>1. c \in Calls /\ c.at = at /\ c.args = m /\ c.open = FALSE
      BY <2>3 DEF Calls, at, m
    <3>2. calls = [r.calls EXCEPT ![i] = c]
      OBVIOUS
    <3> HIDE DEF c, calls
    <3>3. /\ calls \in Seq(Calls) /\ Len(calls) = Len(r.calls) /\ calls[i] = c
          /\ \A j \in 1..Len(r.calls) : j # i => calls[j] = r.calls[j]
      BY <2>2, <3>1, <3>2, PutCall
    <3> QED  BY <3>1, <3>3
  <2> HIDE DEF calls
  <2>19. /\ q \in ResponsesEncoders /\ q.out = k.out /\ q.calls = calls
         /\ q.created = k.created /\ q.finished = k.finished /\ q.completed = k.completed
         /\ q.why = k.why /\ q.message = k.message /\ q.reasoning = k.reasoning /\ q.item = k.item
         /\ q.part = k.part /\ q.content = k.content /\ q.order = k.order /\ q.text = k.text
         /\ q.refusal = k.refusal /\ q.thinking = k.thinking /\ q.signatures = k.signatures /\ q.echo = k.echo
    BY <2>15, <2>17, <2>18 DEF ResponsesEncoders
  <2>20. t = ReadResponses(u, Item("item_done", n - 1, 0, u.items[n].what, content))
    <3>1. t = ResponsesSeen(k, v)
      BY <2>19 DEF ResponsesSeen
    <3> QED  BY <2>6, <2>7, <2>15, <3>1 DEF x
  <2> HIDE DEF t
  <2>21. ItemOver(u, n, 0, t)
    <3>1. ItemEnds(u.items[n], content)
      BY <2>11 DEF x
    <3> QED  BY <2>1, <2>7, <2>20, <3>1, EndedView
  <2>22. /\ t \in Views /\ Len(t.items) = Len(u.items) /\ t.done = Append(u.done, at)
         /\ t.items[n] = [x EXCEPT !.open = FALSE]
         /\ \A j \in 1..Len(u.items) : j # n => t.items[j] = u.items[j]
         /\ t.phase = u.phase /\ t.got = u.got /\ t.late = u.late /\ t.ok = u.ok /\ t.signatures = u.signatures
    <3>1. u.signatures + 0 = u.signatures
      BY <2>1 DEF Views
    <3>2. n - 1 = at
      BY <2>7
    <3> QED  BY <2>21, <3>1, <3>2 DEF ItemOver, x
  <2>23. /\ t.items[n].what = p /\ t.items[n].open = FALSE /\ t.items[n].part = "none"
         /\ t.items[n].parts = Counted("args", m)
    BY <2>6, <2>8, <2>9, <2>22 DEF Items
  <2> HIDE DEF n
  <2>24. \A j \in 1..Len(r.calls) : r.calls[j].at + 1 \in 1..r.item /\ (j # i => r.calls[j].at + 1 # n)
    <3> TAKE j \in 1..Len(r.calls)
    <3>1. r.calls[j] \in Calls /\ r.calls[j].at < r.item /\ u.items[r.calls[j].at + 1].what = <<"call", j - 1>>
      BY <2>2, <2>5 DEF CallsFit, CallItem
    <3>2. r.calls[j].at \in Nat
      BY <3>1 DEF Calls
    <3>3. <<"call", j - 1>> = <<"call", i - 1>> => j = i
      BY <2>2
    <3> QED  BY SMTT(30), <2>2, <2>6, <3>1, <3>2, <3>3 DEF x, p
  <2>25. Past(r.item, calls, t.items)
    <3> SUFFICES ASSUME NEW j \in 1..r.item
                 PROVE  /\ t.items[j].part = "none"
                        /\ t.items[j].open => \E c \in 1..Len(calls) : calls[c].open /\ calls[c].at + 1 = j
      BY DEF Past
    <3>1. CASE j = n
      BY <2>23, <3>1
    <3>2. CASE j # n
      <4>1. j \in 1..Len(u.items)
        BY <2>2, <2>5
      <4>2. t.items[j] = u.items[j]
        BY <2>22, <3>2, <4>1
      <4>3. u.items[j].part = "none"
            /\ (u.items[j].open => \E c \in 1..Len(r.calls) : r.calls[c].open /\ r.calls[c].at + 1 = j)
        BY <2>5 DEF Past
      <4>4. ASSUME NEW c \in 1..Len(r.calls), r.calls[c].open, r.calls[c].at + 1 = j
            PROVE  calls[c].open /\ calls[c].at + 1 = j
        <5>1. c # i
          BY <3>2, <4>4 DEF n, at
        <5> QED  BY <2>18, <4>4, <5>1
      <4> QED  BY <2>18, <4>2, <4>3, <4>4
    <3> QED  BY <3>1, <3>2
  <2>26. CallsFit(r.item, calls, t.items)
    <3> SUFFICES ASSUME NEW j \in 1..Len(calls)
                 PROVE  /\ calls[j].at < r.item
                        /\ CallItem(t.items[calls[j].at + 1], calls[j], j)
                        /\ calls[j].open => j = Len(calls)
      BY DEF CallsFit
    <3>1. j \in 1..Len(r.calls)
      BY <2>18
    <3>2. CASE j = i
      <4>1. calls[i].at + 1 = n
        BY <2>18 DEF n
      <4>2. t.items[n].what = <<"call", i - 1>> /\ t.items[n].open = FALSE /\ t.items[n].parts = Counted("args", m)
        BY <2>23 DEF p
      <4>3. t.items[n].open = calls[i].open
        BY <2>18, <4>2
      <4>4. CallItem(t.items[n], calls[i], i)
        BY <2>18, <4>2, <4>3 DEF CallItem
      <4>5. calls[i].at < r.item /\ ~calls[i].open
        BY <2>6, <2>18
      <4> QED  BY <3>2, <4>1, <4>4, <4>5
    <3>3. CASE j # i
      <4>1. calls[j] = r.calls[j] /\ calls[j].at + 1 # n /\ calls[j].at + 1 \in 1..r.item
        BY <2>18, <2>24, <3>1, <3>3
      <4>2. calls[j].at + 1 \in 1..Len(u.items)
        BY <2>2, <2>5, <4>1
      <4>3. t.items[calls[j].at + 1] = u.items[calls[j].at + 1]
        BY <2>22, <4>1, <4>2
      <4>4. /\ r.calls[j].at < r.item
            /\ CallItem(u.items[r.calls[j].at + 1], r.calls[j], j)
            /\ r.calls[j].open => j = Len(r.calls)
        BY <2>5, <3>1 DEF CallsFit
      <4> QED  BY <2>18, <4>1, <4>3, <4>4
    <3> QED  BY <3>2, <3>3
  <2>27. r.message \/ r.reasoning => t.items[r.item + 1] = u.items[r.item + 1]
    <3> DEFINE i1 == r.item + 1
    <3>1. n # i1 /\ i1 \in Nat \ {0}
      BY <2>2, <2>7
    <3>2. r.message \/ r.reasoning => Len(u.items) = i1
      BY <2>5
    <3> HIDE DEF i1
    <3>3. r.message \/ r.reasoning => i1 \in 1..Len(u.items)
      BY <3>1, <3>2
    <3>4. r.message \/ r.reasoning => t.items[i1] = u.items[i1]
      BY <2>22, <3>1, <3>3
    <3> QED  BY <3>4 DEF i1
  <2>28. Layout(q, t)
    <3>1. r.echo = u.done /\ MessageFits(r, u.items) /\ ReasoningFits(r, u.items) /\ ~(r.message /\ r.reasoning)
      BY <2>1 DEF Layout
    <3>2. q.echo = t.done
      BY <2>16, <2>19, <2>22, <3>1
    <3>3. MessageFits(q, t.items)
      <4>1. q.message = r.message /\ q.item = r.item /\ q.part = r.part /\ q.order = r.order /\ q.content = r.content
            /\ q.text = r.text /\ q.refusal = r.refusal
        BY <2>16, <2>19
      <4>2. \A y : MessageItem(r, y) => MessageItem(q, y)
        BY <4>1 DEF MessageItem, Accumulated
      <4> QED  BY <2>27, <3>1, <4>1, <4>2 DEF MessageFits
    <3>4. ReasoningFits(q, t.items)
      BY <2>16, <2>19, <2>27, <3>1 DEF ReasoningFits, ReasoningItem
    <3> QED  BY <2>5, <2>16, <2>19, <2>22, <2>25, <2>26, <3>1, <3>2, <3>3, <3>4 DEF Layout
  <2>29. Keeps(r, u, q, t)
    BY <2>16, <2>18, <2>19, <2>22 DEF Keeps
  <2> QED  BY <1>2, <2>16, <2>19, <2>22, <2>28, <2>29 DEF CallShut, Well, Kept, u, t, q, calls
<1> QED  BY <1>1, <1>2

(* ---- a Responses client: all that is open is closed ---- *)

NoneOpen(calls) == \A j \in 1..Len(calls) : ~calls[j].open

OutputShut(r, q, v) ==
  /\ Well(q, v) /\ Kept(r, q, v) /\ ~q.message /\ ~q.reasoning /\ NoneOpen(q.calls)

\* Before the response ends, its open message, reasoning and calls are closed, and the
\* client accepts each closing frame.
LEMMA OutputClosed ==
  ASSUME NEW r, NEW v, Well(r, v), ResponsesSeen(r, v).phase # "failed"
  PROVE  OutputShut(r, CloseOutputItem(r), v)
<1> DEFINE m == CloseMessageItem(r)
           b == CloseReasoningItem(m)
           s == [i \in DOMAIN r.calls |-> i]
           how == By("close")
<1>1. MessageShut(r, m, v)
  BY MessageClosed
<1>2. /\ Well(m, v) /\ Kept(r, m, v) /\ ~m.message /\ m.reasoning = r.reasoning /\ m.calls = r.calls
      /\ ResponsesSeen(m, v).phase # "failed"
  BY <1>1 DEF MessageShut, Kept, Keeps
<1> HIDE DEF m
<1>3. ReasoningShut(m, b, v)
  BY <1>2, ReasoningClosed
<1>4. Well(b, v) /\ Kept(m, b, v) /\ ~b.reasoning /\ ~b.message /\ b.calls = r.calls
  BY <1>2, <1>3 DEF ReasoningShut
<1> HIDE DEF b
<1>5. Kept(r, b, v)
  BY <1>2, <1>4, KeptOn
<1>6. s \in Seq(Nat) /\ Len(s) = Len(r.calls) /\ \A i \in 1..Len(s) : s[i] = i
  <2>1. DOMAIN r.calls = 1..Len(r.calls) /\ Len(r.calls) \in Nat
    BY DEF Well, ResponsesEncoders
  <2> QED  BY <2>1
<1>7. CloseOutputItem(r) = FoldLeft(CloseCall, b, s)
  BY DEF CloseOutputItem, b, m
<1> HIDE DEF s
<1>8. PICK x : /\ x[0] = b /\ x[Len(s)] = Folded(how, b, s)
               /\ \A k \in 1..Len(s) : x[k] = StepOf(how, x[k - 1], s[k])
  BY <1>6, FoldedGoes
<1>9. \A k \in 1..Len(s) : x[k] = CloseCall(x[k - 1], k)
  BY <1>6, <1>8 DEF StepOf, By
<1> DEFINE Good(k) == /\ Well(x[k], v) /\ Kept(r, x[k], v) /\ ~x[k].message /\ ~x[k].reasoning
                      /\ \A j \in 1..k : ~x[k].calls[j].open
           G == {k \in Nat : k <= Len(s) => Good(k)}
<1>10. 0 \in G
  BY <1>4, <1>5, <1>8
<1>11. ASSUME NEW k \in Nat, k \in G PROVE k + 1 \in G
  <2> SUFFICES ASSUME k + 1 <= Len(s) PROVE Good(k + 1)
    OBVIOUS
  <2> DEFINE y == x[k]
             i == k + 1
             z == CloseCall(y, i)
  <2>1. Good(k)
    BY <1>6, <1>11
  <2>2. x[i] = z
    <3>1. i \in 1..Len(s) /\ i - 1 = k
      BY <1>6
    <3> QED  BY <1>9, <3>1
  <2>3. Well(y, v) /\ Kept(r, y, v) /\ ~y.message /\ ~y.reasoning /\ \A j \in 1..k : ~y.calls[j].open
    BY <2>1
  <2>4. ResponsesSeen(y, v).phase # "failed" /\ Len(y.calls) = Len(r.calls)
    BY <2>3 DEF Kept, Keeps
  <2>5. y.calls \in Seq(Calls) /\ i \in 1..Len(y.calls)
    <3>1. i \in 1..Len(s)
      BY <1>6
    <3> QED  BY <1>6, <2>3, <2>4, <3>1 DEF Well, ResponsesEncoders
  <2> HIDE DEF y, i, z
  <2>6. CallShut(y, i, z, v)
    BY <2>3, <2>4, <2>5, CallClosed DEF z
  <2>7. /\ Well(z, v) /\ Kept(y, z, v) /\ ~z.message /\ ~z.reasoning
        /\ z.calls = IF y.calls[i].open THEN [y.calls EXCEPT ![i].open = FALSE] ELSE y.calls
    BY <2>3, <2>6 DEF CallShut
  <2>8. Kept(r, z, v)
    BY <2>3, <2>7, KeptOn
  <2>9. \A j \in 1..i : ~z.calls[j].open
    <3>1. CASE ~y.calls[i].open
      <4>1. \A j \in 1..i : j \in 1..k \/ j = i
        BY DEF i
      <4> QED  BY <2>3, <2>7, <3>1, <4>1
    <3>2. CASE y.calls[i].open
      <4> DEFINE c == [y.calls[i] EXCEPT !.open = FALSE]
                 zc == z.calls
                 yc == y.calls
      <4>1. zc = [yc EXCEPT ![i] = c]
        BY <2>7, <3>2
      <4>2. c \in Calls /\ c.open = FALSE
        <5>1. y.calls[i] \in Calls
          BY <2>5
        <5> QED  BY <5>1 DEF Calls
      <4>4. yc \in Seq(Calls) /\ i \in 1..Len(yc)
        BY <2>5
      <4> HIDE DEF c, zc, yc
      <4>3. zc[i] = c /\ \A j \in 1..Len(yc) : j # i => zc[j] = yc[j]
        BY <4>1, <4>2, <4>4, PutCall
      <4>5. \A j \in 1..i : j = i \/ (j \in 1..k /\ j \in 1..Len(yc))
        BY <4>4 DEF i
      <4>6. \A j \in 1..k : ~yc[j].open
        BY <2>3 DEF yc
      <4>7. \A j \in 1..i : ~zc[j].open
        BY <4>2, <4>3, <4>5, <4>6
      <4> QED  BY <4>7 DEF zc
    <3> QED  BY <3>1, <3>2
  <2>10. Well(x[i], v) /\ Kept(r, x[i], v) /\ ~x[i].message /\ ~x[i].reasoning
         /\ \A j \in 1..i : ~x[i].calls[j].open
    BY <2>2, <2>7, <2>8, <2>9
  <2> QED  BY <2>10 DEF i
<1> HIDE DEF G, Good
<1>16. Len(s) \in Nat
  BY <1>6
<1>12. Len(s) \in G
  BY <1>10, <1>11, <1>16, Upward
<1>13. Good(Len(s))
  BY <1>6, <1>12 DEF G
<1>14. CloseOutputItem(r) = x[Len(s)]
  BY <1>6, <1>7, <1>8, FoldCloseCall
<1>15. Len(x[Len(s)].calls) = Len(s)
  BY <1>6, <1>13 DEF Good, Kept, Keeps
<1> QED  BY <1>13, <1>14, <1>15 DEF Good, OutputShut, NoneOpen

(* ---- a Responses client: an item is added ---- *)

AddsItem(k, p, v, q) ==
  /\ q \in ResponsesEncoders /\ q = [k EXCEPT !.out = q.out]
  /\ ResponsesSeen(q, v) = ReadResponses(ResponsesSeen(k, v), Item("item_added", k.item, 0, p, <<>>))

LEMMA ItemAddedIs ==
  ASSUME NEW k \in ResponsesEncoders, NEW p \in Pairs, NEW v
  PROVE  AddsItem(k, p, v, ItemAdded(k, p))
<1> DEFINE none == <<>>
           w == Item("item_added", k.item, 0, p, none)
           q == ItemAdded(k, p)
<1>1. none \in Seq(Pairs) \union Seq(Nat) /\ k.item \in Nat
  BY DEF ResponsesEncoders
<1>2. q = Emit(k, w)
  BY DEF ItemAdded
<1> HIDE DEF none, q
<1>3. w \in ItemWires
  BY <1>1 DEF Item, ItemWires
<1> HIDE DEF w
<1>4. q = [k EXCEPT !.out = Append(k.out, w)] /\ q \in ResponsesEncoders
      /\ ResponsesSeen(q, v) = ReadResponses(ResponsesSeen(k, v), w)
  BY <1>2, <1>3, ResponsesEmit
<1>5. q.out = Append(k.out, w)
  BY <1>4 DEF ResponsesEncoders
<1> QED  BY <1>4, <1>5 DEF AddsItem, q, w, none

WithItem(got, p) == IF p[1] = "call" THEN Append(got, p) ELSE got

ItemNew(u, p, t) ==
  /\ t \in Views /\ Len(t.items) = Len(u.items) + 1
  /\ t.items[Len(u.items) + 1] = [what |-> p, open |-> TRUE, part |-> "none", parts |-> <<>>]
  /\ \A j \in 1..Len(u.items) : t.items[j] = u.items[j]
  /\ t.phase = u.phase /\ t.got = WithItem(u.got, p) /\ t.late = u.late /\ t.ok = u.ok /\ t.done = u.done
  /\ t.signatures = u.signatures

LEMMA ItemNewView ==
  ASSUME NEW u \in Views, u.phase = "open", NEW p \in Pairs, NEW t,
         t = ReadResponses(u, Item("item_added", Len(u.items), 0, p, <<>>))
  PROVE  ItemNew(u, p, t)
<1> DEFINE x == [what |-> p, open |-> TRUE, part |-> "none", parts |-> <<>>]
           items == Append(u.items, x)
           got == WithItem(u.got, p)
<1>1. t = [u EXCEPT !.items = Append(u.items, x), !.got = u.got \o If(p[1] = "call", <<p>>)]
  BY ReadsItemAdded
<1>2. u.got \in Seq(Pairs) /\ u.items \in Seq(Items)
  BY DEF Views
<1>3. u.got \o If(p[1] = "call", <<p>>) = got /\ got \in Seq(Pairs)
  <2>1. CASE p[1] = "call"
    BY <1>2, <2>1 DEF If, WithItem
  <2>2. CASE p[1] # "call"
    BY <1>2, <2>2 DEF If, WithItem
  <2> QED  BY <2>1, <2>2
<1>4. x \in Items
  BY DEF Items
<1> HIDE DEF x, got
<1>5. /\ items \in Seq(Items) /\ Len(items) = Len(u.items) + 1 /\ items[Len(u.items) + 1] = x
      /\ \A j \in 1..Len(u.items) : items[j] = u.items[j]
  BY <1>2, <1>4
<1>6. t = [u EXCEPT !.items = items, !.got = got]
  BY <1>1, <1>3
<1> HIDE DEF items
<1>7. /\ t \in Views /\ t.items = items /\ t.got = got /\ t.done = u.done /\ t.signatures = u.signatures
      /\ t.phase = u.phase /\ t.late = u.late /\ t.ok = u.ok
  BY <1>3, <1>5, <1>6 DEF Views
<1> QED  BY <1>5, <1>7 DEF ItemNew, x, got

(* ---- a Responses client: an item grows ---- *)

GrownParts(x, p) ==
  IF p[1] \in {"text", "refusal"} THEN GrowLast(x.parts)
  ELSE IF x.parts = <<>> THEN <<<<p[1], 1>>>> ELSE GrowLast(x.parts)

DeltaFits(x, sub, p) ==
  IF p[1] = "args" THEN x.what = <<"call", p[2]>>
  ELSE IF p[1] = "thinking" THEN x.open /\ x.what[1] = "reasoning"
  ELSE x.open /\ x.part = p[1] /\ sub = Len(x.parts) - 1

Grew(u, i, p, parts, t) ==
  /\ t \in Views /\ Len(t.items) = Len(u.items)
  /\ t.items[i] = [u.items[i] EXCEPT !.parts = parts]
  /\ \A j \in 1..Len(u.items) : j # i => t.items[j] = u.items[j]
  /\ t.phase = u.phase /\ t.got = Append(u.got, p) /\ t.ok = u.ok /\ t.done = u.done
  /\ t.signatures = u.signatures /\ (t.late <=> u.late \/ ~u.items[i].open)

LEMMA GrewView ==
  ASSUME NEW u \in Views, u.phase = "open", NEW i \in 1..Len(u.items), NEW p \in Pairs, NEW sub,
         DeltaFits(u.items[i], sub, p), NEW parts \in Seq(Pairs), parts = GrownParts(u.items[i], p),
         NEW t, t = ReadResponses(u, Item("delta", i - 1, sub, p, <<>>))
  PROVE  Grew(u, i, p, parts, t)
<1> DEFINE w == Item("delta", i - 1, sub, p, <<>>)
           x == u.items[i]
           y == [x EXCEPT !.parts = parts]
           items == Put(u.items, i, y)
           late == u.late \/ ~x.open
           got == Append(u.got, p)
<1>1. w.type = "delta" /\ w.at + 1 = i /\ w.piece = p /\ w.sub = sub
  BY DEF Item
<1>2. u.items \in Seq(Items) /\ x \in Items /\ i \in DOMAIN u.items /\ u.got \in Seq(Pairs)
  BY DEF Views
<1> HIDE DEF w
<1>3. t = ReadDelta(u, w)
  BY <1>1 DEF ReadResponses, w
<1>4. InItem(u, w) <=> x.open
  BY <1>1, <1>2 DEF InItem
<1>5. GrownParts(x, p) = parts
  OBVIOUS
<1>6. w.at + 1 \in DOMAIN u.items /\ u.items[w.at + 1] = x
  BY <1>1, <1>2
<1>7. t = [Got(u, p) EXCEPT !.items[i].parts = parts, !.late = @ \/ ~x.open]
  <2>1. CASE p[1] = "args"
    <3>1. x.what = <<"call", p[2]>>
      BY <2>1 DEF DeltaFits
    <3>2. (IF x.parts = <<>> THEN <<<<p[1], 1>>>> ELSE GrowLast(x.parts)) = parts
      BY <1>5, <2>1 DEF GrownParts
    <3> HIDE DEF x
    <3> QED  BY <1>1, <1>3, <1>6, <2>1, <3>1, <3>2 DEF ReadDelta
  <2>2. CASE p[1] = "thinking"
    <3>1. InItem(u, w) /\ x.what[1] = "reasoning"
      BY <1>4, <2>2 DEF DeltaFits
    <3>2. (IF x.parts = <<>> THEN <<<<p[1], 1>>>> ELSE GrowLast(x.parts)) = parts
      BY <1>5, <2>2 DEF GrownParts
    <3> HIDE DEF x
    <3> QED  BY <1>1, <1>3, <1>6, <2>2, <3>1, <3>2 DEF ReadDelta
  <2>3. CASE p[1] \notin {"args", "thinking"}
    <3>1. InItem(u, w) /\ x.part = p[1] /\ w.sub = Len(x.parts) - 1
      BY <1>1, <1>4, <2>3 DEF DeltaFits
    <3>2. (IF p[1] \in {"text", "refusal"} THEN GrowLast(x.parts)
           ELSE IF x.parts = <<>> THEN <<<<p[1], 1>>>> ELSE GrowLast(x.parts)) = parts
      BY <1>5 DEF GrownParts
    <3> HIDE DEF x
    <3> QED  BY <1>1, <1>3, <1>6, <2>3, <3>1, <3>2 DEF ReadDelta
  <2> QED  BY <2>1, <2>2, <2>3
<1>8. t = [u EXCEPT !.items = items, !.late = late, !.got = got]
  BY <1>1, <1>2, <1>7 DEF Got, Put, Views
<1>9. y \in Items
  BY <1>2 DEF Items
<1>10. late \in BOOLEAN /\ got \in Seq(Pairs)
  BY <1>2 DEF Views
<1> HIDE DEF y, late, got, x
<1>11. /\ items \in Seq(Items) /\ Len(items) = Len(u.items) /\ items[i] = y
       /\ \A j \in 1..Len(u.items) : j # i => items[j] = u.items[j]
  BY ZenonT(60), <1>2, <1>9, PutIn
<1> HIDE DEF items
<1>12. /\ t \in Views /\ t.items = items /\ t.got = got /\ t.late = late /\ t.done = u.done
       /\ t.signatures = u.signatures /\ t.phase = u.phase /\ t.ok = u.ok
  BY <1>8, <1>10, <1>11 DEF Views
<1> QED  BY <1>11, <1>12 DEF Grew, y, late, got, x

LEMMA CountedGrows ==
  ASSUME NEW what \in Words, NEW n \in Nat
  PROVE  (IF Counted(what, n) = <<>> THEN <<<<what, 1>>>> ELSE GrowLast(Counted(what, n))) = Counted(what, n + 1)
<1>1. CASE n = 0
  BY <1>1 DEF Counted
<1>2. CASE n # 0
  <2> DEFINE a == <<what, n>>
             z == <<what, n + 1>>
             s == <<a>>
  <2>1. s # <<>> /\ Len(s) = 1 /\ s[1] = a /\ a[1] = what /\ a[2] = n
    OBVIOUS
  <2>2. GrowLast(s) = [s EXCEPT ![1] = z]
    BY <2>1 DEF GrowLast
  <2> HIDE DEF a, z
  <2>3. [s EXCEPT ![1] = z] = <<z>>
    OBVIOUS
  <2>4. Counted(what, n) = s /\ Counted(what, n + 1) = <<z>>
    BY <1>2 DEF Counted, a, z
  <2> QED  BY <2>1, <2>2, <2>3, <2>4
<1> QED  BY <1>1, <1>2

LEMMA LastGrows ==
  ASSUME NEW parts \in Seq(Pairs), parts # <<>>
  PROVE  /\ GrowLast(parts) \in Seq(Pairs) /\ Len(GrowLast(parts)) = Len(parts)
         /\ GrowLast(parts)[Len(parts)] = <<parts[Len(parts)][1], parts[Len(parts)][2] + 1>>
         /\ \A j \in 1..Len(parts) : j # Len(parts) => GrowLast(parts)[j] = parts[j]
<1> DEFINE n == Len(parts)
           z == <<parts[n][1], parts[n][2] + 1>>
<1>1. n \in 1..Len(parts) /\ parts[n] \in Words \X Nat
  BY DEF Pairs
<1>2. z \in Pairs
  BY <1>1 DEF Pairs
<1>3. GrowLast(parts) = [parts EXCEPT ![n] = z]
  BY DEF GrowLast
<1> HIDE DEF z
<1> QED  BY <1>1, <1>2, <1>3 DEF z

\* What every step but the framing ones leaves alone.
Steady(r, u, q, t) ==
  /\ q.created = r.created /\ q.finished = r.finished /\ q.completed = r.completed /\ q.why = r.why
  /\ t.phase = u.phase /\ t.ok = u.ok
  /\ t.signatures + q.signatures = u.signatures + r.signatures
  /\ r.reasoning \/ r.signatures = 0 => q.reasoning \/ q.signatures = 0

LEMMA NewItem ==
  ASSUME NEW n \in Nat, NEW calls \in Seq(Calls), NEW u, NEW p, NEW t, Len(u.items) = n, ItemNew(u, p, t),
         Past(n, calls, u.items), CallsFit(n, calls, u.items)
  PROVE  Past(n, calls, t.items) /\ CallsFit(n, calls, t.items)
<1>1. \A j \in 1..n : t.items[j] = u.items[j]
  BY DEF ItemNew
<1> QED  BY <1>1, Unmoved

ReasoningOpens(r, q, v) ==
  Well(q, v) /\ Kept(r, q, v) /\ q.reasoning /\ q.calls = r.calls

LEMMA ReasoningOpened ==
  ASSUME NEW r, NEW v, Well(r, v), ResponsesSeen(r, v).phase = "open", ~r.message, ~r.reasoning
  PROVE  ReasoningOpens(r, OpenReasoning(r), v)
<1> DEFINE k == [r EXCEPT !.reasoning = TRUE]
           p == <<"reasoning", 0>>
           q == OpenReasoning(r)
           u == ResponsesSeen(r, v)
           t == ResponsesSeen(q, v)
<1>1. r \in ResponsesEncoders /\ u \in Views /\ Layout(r, u) /\ u.phase = "open"
  BY DEF Well
<1>2. /\ k \in ResponsesEncoders /\ k.out = r.out /\ k.created = r.created /\ k.finished = r.finished
      /\ k.completed = r.completed /\ k.why = r.why /\ ~k.message /\ k.reasoning /\ k.calls = r.calls
      /\ k.item = r.item /\ k.part = r.part /\ k.content = r.content /\ k.order = r.order /\ k.text = r.text
      /\ k.refusal = r.refusal /\ k.thinking = r.thinking /\ k.signatures = r.signatures /\ k.echo = r.echo
  BY <1>1 DEF ResponsesEncoders
<1>3. q = ItemAdded(k, p)
  BY DEF OpenReasoning
<1>4. p \in Pairs /\ p[1] # "call"
  BY DEF Pairs, Words
<1>5. ResponsesSeen(k, v) = u
  BY <1>2 DEF ResponsesSeen
<1> HIDE DEF k, q, u
<1>6. AddsItem(k, p, v, q)
  BY <1>2, <1>3, <1>4, ItemAddedIs
<1>7. q \in ResponsesEncoders /\ q = [k EXCEPT !.out = q.out] /\ t = ReadResponses(u, Item("item_added", k.item, 0, p, <<>>))
  BY <1>5, <1>6 DEF AddsItem
<1>8. /\ q.created = k.created /\ q.finished = k.finished
      /\ q.completed = k.completed /\ q.why = k.why /\ ~q.message /\ q.reasoning /\ q.calls = k.calls
      /\ q.item = k.item /\ q.part = k.part /\ q.content = k.content /\ q.order = k.order /\ q.text = k.text
      /\ q.refusal = k.refusal /\ q.thinking = k.thinking /\ q.signatures = k.signatures /\ q.echo = k.echo
  BY <1>2, <1>7 DEF ResponsesEncoders
<1>9. Len(u.items) = r.item /\ r.item \in Nat /\ r.calls \in Seq(Calls)
  <2>1. r.item \in Nat /\ r.calls \in Seq(Calls)
    BY <1>1 DEF ResponsesEncoders
  <2> QED  BY <1>1, <2>1 DEF Layout
<1> HIDE DEF t, p
<1>10. ItemNew(u, p, t)
  BY <1>1, <1>2, <1>4, <1>7, <1>9, ItemNewView
<1>11. Past(r.item, r.calls, t.items) /\ CallsFit(r.item, r.calls, t.items)
  BY <1>1, <1>9, <1>10, NewItem DEF Layout
<1>12. /\ t \in Views /\ Len(t.items) = r.item + 1
       /\ t.items[r.item + 1] = [what |-> p, open |-> TRUE, part |-> "none", parts |-> <<>>]
       /\ t.phase = u.phase /\ t.got = u.got /\ t.late = u.late /\ t.ok = u.ok /\ t.done = u.done
       /\ t.signatures = u.signatures
  BY <1>4, <1>9, <1>10 DEF ItemNew, WithItem
<1>13. Layout(q, t)
  <2>1. r.echo = u.done /\ MessageFits(r, u.items) /\ r.thinking = 0
    BY <1>1 DEF Layout, ReasoningFits
  <2>2. MessageFits(q, t.items)
    BY <1>2, <1>8, <2>1 DEF MessageFits
  <2>3. ReasoningFits(q, t.items)
    BY <1>2, <1>8, <1>12, <2>1 DEF ReasoningFits, ReasoningItem, Counted, p
  <2> QED  BY <1>2, <1>8, <1>11, <1>12, <2>1, <2>2, <2>3 DEF Layout
<1>14. Keeps(r, u, q, t)
  BY <1>2, <1>8, <1>12 DEF Keeps
<1> QED  BY <1>2, <1>7, <1>8, <1>12, <1>13, <1>14 DEF ReasoningOpens, Well, Kept, u, t, q

MessageOpens(r, q, v) ==
  /\ Well(q, v) /\ Kept(r, q, v) /\ q.message /\ q.calls = r.calls /\ q.part = r.part

LEMMA MessageOpened ==
  ASSUME NEW r, NEW v, Well(r, v), ResponsesSeen(r, v).phase = "open", ~r.reasoning
  PROVE  MessageOpens(r, OpenMessage(r), v)
<1>0. CASE r.message
  <2>1. OpenMessage(r) = r /\ r \in ResponsesEncoders
    BY <1>0 DEF OpenMessage, Well
  <2> QED  BY <1>0, <2>1, KeptSame DEF MessageOpens
<1>00. CASE ~r.message
  <2> DEFINE k == [r EXCEPT !.message = TRUE]
             p == <<"message", 0>>
             q == OpenMessage(r)
             u == ResponsesSeen(r, v)
             t == ResponsesSeen(q, v)
  <2>1. r \in ResponsesEncoders /\ u \in Views /\ Layout(r, u) /\ u.phase = "open"
    BY DEF Well
  <2>2. /\ k \in ResponsesEncoders /\ k.out = r.out /\ k.created = r.created /\ k.finished = r.finished
        /\ k.completed = r.completed /\ k.why = r.why /\ k.message /\ ~k.reasoning /\ k.calls = r.calls
        /\ k.item = r.item /\ k.part = r.part /\ k.content = r.content /\ k.order = r.order /\ k.text = r.text
        /\ k.refusal = r.refusal /\ k.thinking = r.thinking /\ k.signatures = r.signatures /\ k.echo = r.echo
    BY <2>1 DEF ResponsesEncoders
  <2>3. q = ItemAdded(k, p)
    BY <1>00 DEF OpenMessage
  <2>4. p \in Pairs /\ p[1] # "call"
    BY DEF Pairs, Words
  <2>5. ResponsesSeen(k, v) = u
    BY <2>2 DEF ResponsesSeen
  <2> HIDE DEF k, q, u
  <2>6. AddsItem(k, p, v, q)
    BY <2>2, <2>3, <2>4, ItemAddedIs
  <2>7. q \in ResponsesEncoders /\ q = [k EXCEPT !.out = q.out] /\ t = ReadResponses(u, Item("item_added", k.item, 0, p, <<>>))
    BY <2>5, <2>6 DEF AddsItem
  <2>8. /\ q.created = k.created /\ q.finished = k.finished
        /\ q.completed = k.completed /\ q.why = k.why /\ q.message /\ ~q.reasoning /\ q.calls = k.calls
        /\ q.item = k.item /\ q.part = k.part /\ q.content = k.content /\ q.order = k.order /\ q.text = k.text
        /\ q.refusal = k.refusal /\ q.thinking = k.thinking /\ q.signatures = k.signatures /\ q.echo = k.echo
    BY <2>2, <2>7 DEF ResponsesEncoders
  <2>9. Len(u.items) = r.item /\ r.item \in Nat /\ r.calls \in Seq(Calls)
    <3>1. r.item \in Nat /\ r.calls \in Seq(Calls)
      BY <2>1 DEF ResponsesEncoders
    <3> QED  BY <1>00, <2>1, <3>1 DEF Layout
  <2> HIDE DEF t, p
  <2>10. ItemNew(u, p, t)
    BY <2>1, <2>2, <2>4, <2>7, <2>9, ItemNewView
  <2>11. Past(r.item, r.calls, t.items) /\ CallsFit(r.item, r.calls, t.items)
    BY <2>1, <2>9, <2>10, NewItem DEF Layout
  <2>12. /\ t \in Views /\ Len(t.items) = r.item + 1
         /\ t.items[r.item + 1] = [what |-> p, open |-> TRUE, part |-> "none", parts |-> <<>>]
         /\ t.phase = u.phase /\ t.got = u.got /\ t.late = u.late /\ t.ok = u.ok /\ t.done = u.done
         /\ t.signatures = u.signatures
    BY <2>4, <2>9, <2>10 DEF ItemNew, WithItem
  <2>13. Layout(q, t)
    <3>1. /\ r.echo = u.done /\ r.thinking = 0
          /\ r.part = "none" /\ r.order = <<>> /\ r.content = 0 /\ r.text = 0 /\ r.refusal = 0
      BY <1>00, <2>1 DEF Layout, ReasoningFits, MessageFits
    <3>2. MessageItem(q, t.items[r.item + 1])
      <4>1. /\ q.part = "none" /\ q.order = <<>> /\ q.content = 0 /\ q.text = 0 /\ q.refusal = 0
        BY <2>2, <2>8, <3>1
      <4>2. \A what : Accumulated(q, what) = 0
        BY <4>1 DEF Accumulated
      <4> QED  BY <2>12, <4>1, <4>2 DEF MessageItem, p
    <3>3. MessageFits(q, t.items)
      BY <2>2, <2>8, <3>2 DEF MessageFits
    <3>4. ReasoningFits(q, t.items)
      BY <2>2, <2>8, <3>1 DEF ReasoningFits
    <3> QED  BY <2>2, <2>8, <2>11, <2>12, <3>1, <3>3, <3>4 DEF Layout
  <2>14. Keeps(r, u, q, t)
    BY <2>2, <2>8, <2>12 DEF Keeps
  <2> QED  BY <2>2, <2>7, <2>8, <2>12, <2>13, <2>14 DEF MessageOpens, Well, Kept, u, t, q
<1> QED  BY <1>0, <1>00

CallOpens(r, n, q, v) ==
  /\ Well(q, v) /\ Steady(r, ResponsesSeen(r, v), q, ResponsesSeen(q, v))
  /\ ResponsesSeen(q, v).got = Append(ResponsesSeen(r, v).got, <<"call", n>>)
  /\ ResponsesSeen(q, v).late = ResponsesSeen(r, v).late
  /\ Len(q.calls) = n + 1 /\ q.calls[n + 1].open

LEMMA CallOpened ==
  ASSUME NEW r, NEW v, Well(r, v), ResponsesSeen(r, v).phase = "open", ~r.message, ~r.reasoning,
         NoneOpen(r.calls), NEW n, n = Len(r.calls)
  PROVE  CallOpens(r, n, OpenCall(r, n), v)
<1> DEFINE p == <<"call", n>>
           k == ItemAdded(r, p)
           c == [at |-> r.item, args |-> 0, open |-> TRUE]
           calls == Append(r.calls, c)
           i == r.item + 1
           q == OpenCall(r, n)
           u == ResponsesSeen(r, v)
           t == ResponsesSeen(q, v)
<1>1. r \in ResponsesEncoders /\ u \in Views /\ Layout(r, u) /\ u.phase = "open"
  BY DEF Well
<1>2. r.item \in Nat /\ r.calls \in Seq(Calls) /\ n \in Nat
  BY <1>1 DEF ResponsesEncoders
<1>3. Len(u.items) = r.item
  BY <1>1, <1>2 DEF Layout
<1>4. p \in Pairs /\ p[1] = "call"
  BY <1>2 DEF Pairs, Words
<1> HIDE DEF k, u
<1>5. AddsItem(r, p, v, k)
  BY <1>1, <1>4, ItemAddedIs DEF k
<1>6. k \in ResponsesEncoders /\ k = [r EXCEPT !.out = k.out]
      /\ ResponsesSeen(k, v) = ReadResponses(u, Item("item_added", r.item, 0, p, <<>>))
  BY <1>5 DEF AddsItem, u
<1>7. q = [k EXCEPT !.calls = Append(k.calls, [at |-> r.item, args |-> 0, open |-> TRUE]), !.item = k.item + 1]
  BY DEF OpenCall, k
<1> HIDE DEF q
<1>8. /\ k.created = r.created /\ k.finished = r.finished
      /\ k.completed = r.completed /\ k.why = r.why /\ ~k.message /\ ~k.reasoning /\ k.calls = r.calls
      /\ k.item = r.item /\ k.part = r.part /\ k.content = r.content /\ k.order = r.order /\ k.text = r.text
      /\ k.refusal = r.refusal /\ k.thinking = r.thinking /\ k.signatures = r.signatures /\ k.echo = r.echo
  BY <1>1, <1>6 DEF ResponsesEncoders
<1>9. q = [k EXCEPT !.calls = calls, !.item = i]
  BY <1>7, <1>8
<1>10. c \in Calls /\ c.at = r.item /\ c.args = 0 /\ c.open = TRUE
  BY <1>2 DEF Calls
<1> HIDE DEF c
<1>11. /\ calls \in Seq(Calls) /\ Len(calls) = n + 1 /\ calls[n + 1] = c
       /\ \A j \in 1..n : calls[j] = r.calls[j]
  BY <1>2, <1>10
<1>12. i \in Nat
  BY <1>2
<1> HIDE DEF calls, i
<1>13. /\ q \in ResponsesEncoders /\ q.out = k.out /\ q.calls = calls /\ q.item = i
       /\ q.created = k.created /\ q.finished = k.finished
       /\ q.completed = k.completed /\ q.why = k.why /\ ~q.message /\ ~q.reasoning
       /\ q.part = k.part /\ q.content = k.content /\ q.order = k.order /\ q.text = k.text
       /\ q.refusal = k.refusal /\ q.thinking = k.thinking /\ q.signatures = k.signatures /\ q.echo = k.echo
  BY <1>6, <1>8, <1>9, <1>11, <1>12 DEF ResponsesEncoders
<1>14. t = ReadResponses(u, Item("item_added", Len(u.items), 0, p, <<>>))
  <2>1. t = ResponsesSeen(k, v)
    BY <1>13 DEF ResponsesSeen
  <2> QED  BY <1>3, <1>6, <2>1
<1> HIDE DEF t, p
<1>15. ItemNew(u, p, t)
  BY <1>1, <1>4, <1>14, ItemNewView
<1>16. /\ t \in Views /\ Len(t.items) = i
       /\ t.items[i] = [what |-> p, open |-> TRUE, part |-> "none", parts |-> <<>>]
       /\ \A j \in 1..r.item : t.items[j] = u.items[j]
       /\ t.phase = u.phase /\ t.got = Append(u.got, p) /\ t.late = u.late /\ t.ok = u.ok /\ t.done = u.done
       /\ t.signatures = u.signatures
  BY <1>3, <1>4, <1>15 DEF ItemNew, WithItem, i
<1>17. Past(r.item, r.calls, u.items) /\ CallsFit(r.item, r.calls, u.items)
  BY <1>1 DEF Layout
<1>18. Past(i, calls, t.items)
  <2> SUFFICES ASSUME NEW j \in 1..i
               PROVE  /\ t.items[j].part = "none"
                      /\ t.items[j].open => \E d \in 1..Len(calls) : calls[d].open /\ calls[d].at + 1 = j
    BY DEF Past
  <2>1. CASE j = i
    <3>1. calls[n + 1].open /\ calls[n + 1].at + 1 = i /\ n + 1 \in 1..Len(calls)
      BY <1>2, <1>10, <1>11 DEF i
    <3> QED  BY <1>16, <2>1, <3>1
  <2>2. CASE j # i
    <3>1. j \in 1..r.item
      BY <1>2, <2>2 DEF i
    <3>2. t.items[j] = u.items[j]
      BY <1>16, <3>1
    <3>3. u.items[j].part = "none" /\ ~u.items[j].open
      BY <1>17, <3>1 DEF Past, NoneOpen
    <3> QED  BY <3>2, <3>3
  <2> QED  BY <2>1, <2>2
<1>19. CallsFit(i, calls, t.items)
  <2> SUFFICES ASSUME NEW j \in 1..Len(calls)
               PROVE  /\ calls[j].at < i
                      /\ CallItem(t.items[calls[j].at + 1], calls[j], j)
                      /\ calls[j].open => j = Len(calls)
    BY DEF CallsFit
  <2>1. CASE j = n + 1
    <3>1. calls[j] = c /\ calls[j].at + 1 = i /\ calls[j].at < i /\ j - 1 = n
      BY <1>2, <1>10, <1>11, <2>1 DEF i
    <3>2. CallItem(t.items[i], c, j)
      <4> DEFINE x == t.items[i]
      <4>1. x.what = p /\ x.open = TRUE /\ x.parts = <<>>
        BY <1>16
      <4>2. p = <<"call", j - 1>>
        BY <3>1 DEF p
      <4> HIDE DEF x
      <4>3. x.what = <<"call", j - 1>>
        BY <4>1, <4>2
      <4>4. Counted("args", c.args) = <<>>
        BY <1>10 DEF Counted
      <4> QED  BY <1>10, <4>1, <4>3, <4>4 DEF CallItem, x
    <3> QED  BY <1>11, <2>1, <3>1, <3>2
  <2>2. CASE j # n + 1
    <3>1. j \in 1..Len(r.calls) /\ calls[j] = r.calls[j]
      BY <1>2, <1>11, <2>2
    <3>2. /\ r.calls[j].at < r.item
          /\ CallItem(u.items[r.calls[j].at + 1], r.calls[j], j)
          /\ ~r.calls[j].open /\ r.calls[j] \in Calls
      BY <1>2, <1>17, <3>1 DEF CallsFit, NoneOpen
    <3>3. r.calls[j].at \in Nat
      BY <3>2 DEF Calls
    <3>4. r.calls[j].at + 1 \in 1..r.item /\ r.calls[j].at < i
      BY <1>2, <3>2, <3>3 DEF i
    <3>5. t.items[r.calls[j].at + 1] = u.items[r.calls[j].at + 1]
      BY <1>16, <3>4
    <3> QED  BY <3>1, <3>2, <3>4, <3>5
  <2> QED  BY <2>1, <2>2
<1>20. Layout(q, t)
  <2>1. r.echo = u.done /\ MessageFits(r, u.items) /\ ReasoningFits(r, u.items)
    BY <1>1 DEF Layout
  <2>2. MessageFits(q, t.items)
    BY <1>8, <1>13, <2>1 DEF MessageFits
  <2>3. ReasoningFits(q, t.items)
    BY <1>8, <1>13, <2>1 DEF ReasoningFits
  <2> QED  BY <1>8, <1>13, <1>16, <1>18, <1>19, <2>1, <2>2, <2>3 DEF Layout
<1>21. Steady(r, u, q, t)
  BY <1>8, <1>13, <1>16 DEF Steady
<1> QED  BY <1>10, <1>11, <1>13, <1>16, <1>20, <1>21 DEF CallOpens, Well, u, t, q, p

Adds(k, w, v, q) ==
  /\ q \in ResponsesEncoders /\ q = [k EXCEPT !.out = q.out]
  /\ ResponsesSeen(q, v) = ReadResponses(ResponsesSeen(k, v), w)

LEMMA EmitAdds ==
  ASSUME NEW k \in ResponsesEncoders, NEW w \in ItemWires, NEW v
  PROVE  Adds(k, w, v, Emit(k, w))
<1> DEFINE q == Emit(k, w)
           o == Append(k.out, w)
<1>1. q = [k EXCEPT !.out = o] /\ q \in ResponsesEncoders
      /\ ResponsesSeen(q, v) = ReadResponses(ResponsesSeen(k, v), w)
  BY ResponsesEmit
<1> HIDE DEF q, o
<1>2. q.out = o
  BY <1>1 DEF ResponsesEncoders
<1> QED  BY <1>1, <1>2 DEF Adds, q

LEMMA BareWire ==
  ASSUME NEW type \in {"created", "part_added", "delta", "error"}, NEW at \in Nat, NEW sub \in Nat, NEW p \in Pairs
  PROVE  Item(type, at, sub, p, <<>>) \in ItemWires
<1> DEFINE none == <<>>
<1>1. none \in Seq(Pairs) \union Seq(Nat)
  OBVIOUS
<1> HIDE DEF none
<1>2. Item(type, at, sub, p, none) \in ItemWires
  BY <1>1 DEF Item, ItemWires
<1> QED  BY <1>2 DEF none

\* One piece of the answer is on its way.
Gains(r, q, v, p) ==
  /\ Well(q, v) /\ Steady(r, ResponsesSeen(r, v), q, ResponsesSeen(q, v))
  /\ ResponsesSeen(q, v).got = Append(ResponsesSeen(r, v).got, p)
  /\ Len(q.calls) = Len(r.calls)

LEMMA ThinkingGrown ==
  ASSUME NEW r, NEW v, Well(r, v), ResponsesSeen(r, v).phase = "open", r.reasoning
  PROVE  /\ Gains(r, HandleReasoning(r), v, <<"thinking", 0>>)
         /\ ResponsesSeen(HandleReasoning(r), v).late = ResponsesSeen(r, v).late
<1> DEFINE p == <<"thinking", 0>>
           n == r.thinking + 1
           k == [r EXCEPT !.thinking = n]
           i == r.item + 1
           w == Item("delta", r.item, 0, p, <<>>)
           q == HandleReasoning(r)
           u == ResponsesSeen(r, v)
           t == ResponsesSeen(q, v)
           parts == Counted("thinking", n)
<1>1. r \in ResponsesEncoders /\ u \in Views /\ Layout(r, u) /\ u.phase = "open"
  BY DEF Well
<1>2. r.item \in Nat /\ r.calls \in Seq(Calls) /\ r.thinking \in Nat /\ n \in Nat
  BY <1>1 DEF ResponsesEncoders
<1>3. q = Emit(k, w)
  BY DEF HandleReasoning
<1> HIDE DEF n
<1>4. /\ k \in ResponsesEncoders /\ k.out = r.out /\ k.created = r.created /\ k.finished = r.finished
      /\ k.completed = r.completed /\ k.why = r.why /\ k.message = r.message /\ k.reasoning /\ k.calls = r.calls
      /\ k.item = r.item /\ k.part = r.part /\ k.content = r.content /\ k.order = r.order /\ k.text = r.text
      /\ k.refusal = r.refusal /\ k.thinking = n /\ k.signatures = r.signatures /\ k.echo = r.echo
  BY <1>1, <1>2 DEF ResponsesEncoders
<1>5. p \in Pairs /\ p[1] = "thinking"
  BY DEF Pairs, Words
<1>6. w \in ItemWires
  BY <1>2, <1>5, BareWire
<1>7. ResponsesSeen(k, v) = u
  BY <1>4 DEF ResponsesSeen
<1> HIDE DEF k, q, u, w
<1>8. Adds(k, w, v, q)
  BY <1>3, <1>4, <1>6, EmitAdds
<1>9. q \in ResponsesEncoders /\ q = [k EXCEPT !.out = q.out] /\ t = ReadResponses(u, w)
  BY <1>7, <1>8 DEF Adds
<1>10. /\ q.created = k.created /\ q.finished = k.finished
      /\ q.completed = k.completed /\ q.why = k.why /\ q.message = k.message /\ q.reasoning /\ q.calls = k.calls
      /\ q.item = k.item /\ q.part = k.part /\ q.content = k.content /\ q.order = k.order /\ q.text = k.text
      /\ q.refusal = k.refusal /\ q.thinking = k.thinking /\ q.signatures = k.signatures /\ q.echo = k.echo
  BY <1>4, <1>9 DEF ResponsesEncoders
<1>11. Len(u.items) = i /\ ~r.message /\ i - 1 = r.item /\ i \in 1..Len(u.items)
  BY <1>1, <1>2 DEF Layout
<1>12. ReasoningItem(r, u.items[i]) /\ MessageFits(r, u.items) /\ r.echo = u.done
       /\ Past(r.item, r.calls, u.items) /\ CallsFit(r.item, r.calls, u.items)
  BY <1>1 DEF Layout, ReasoningFits
<1>13. parts \in Seq(Pairs)
  <2> DEFINE z == <<"thinking", n>>
  <2>1. z \in Pairs
    BY <1>2 DEF Pairs, Words
  <2> HIDE DEF z
  <2>2. <<z>> \in Seq(Pairs) /\ <<>> \in Seq(Pairs)
    BY <2>1
  <2> QED  BY <2>2 DEF Counted, z
<1> DEFINE x == u.items[i]
<1>14. x.what = <<"reasoning", 0>> /\ x.open /\ x.part = "none" /\ x.parts = Counted("thinking", r.thinking)
  BY <1>12 DEF ReasoningItem
<1>15. x \in Items
  BY <1>1, <1>11 DEF Views
<1> HIDE DEF p
<1>16. parts = GrownParts(x, p)
  <2>1. "thinking" \in Words
    BY DEF Words
  <2> HIDE DEF x
  <2>2. (IF x.parts = <<>> THEN <<<<"thinking", 1>>>> ELSE GrowLast(x.parts)) = parts
    BY <1>2, <1>14, <2>1, CountedGrows DEF n
  <2> QED  BY <1>5, <2>2 DEF GrownParts
<1>17. DeltaFits(x, 0, p)
  BY <1>5, <1>14 DEF DeltaFits
<1> HIDE DEF parts, i, t
<1>18. w = Item("delta", i - 1, 0, p, <<>>)
  BY <1>11 DEF w, p
<1>19. Grew(u, i, p, parts, t)
  BY <1>1, <1>5, <1>9, <1>11, <1>13, <1>16, <1>17, <1>18, GrewView
<1>20. /\ t \in Views /\ Len(t.items) = Len(u.items)
       /\ t.items[i] = [x EXCEPT !.parts = parts]
       /\ \A j \in 1..r.item : t.items[j] = u.items[j]
       /\ t.phase = u.phase /\ t.got = Append(u.got, p) /\ t.ok = u.ok /\ t.done = u.done
       /\ t.signatures = u.signatures
  BY <1>2, <1>11, <1>19 DEF Grew, i
<1>21. t.late = u.late
  <2>1. t.late \in BOOLEAN /\ u.late \in BOOLEAN
    BY <1>1, <1>20 DEF Views
  <2> QED  BY <1>14, <1>19, <2>1 DEF Grew
<1>22. Past(r.item, r.calls, t.items) /\ CallsFit(r.item, r.calls, t.items)
  BY <1>2, <1>12, <1>20, Unmoved
<1>23. ReasoningItem(q, t.items[i])
  <2> HIDE DEF x
  <2>1. t.items[i].what = x.what /\ t.items[i].open = x.open /\ t.items[i].part = x.part /\ t.items[i].parts = parts
    BY <1>15, <1>20 DEF Items
  <2> QED  BY <1>4, <1>10, <1>14, <2>1 DEF ReasoningItem, parts
<1>24. Layout(q, t)
  <2>1. MessageFits(q, t.items)
    BY <1>4, <1>10, <1>11, <1>12 DEF MessageFits
  <2>2. ReasoningFits(q, t.items)
    BY <1>4, <1>10, <1>23 DEF ReasoningFits, i
  <2> QED  BY <1>4, <1>10, <1>11, <1>12, <1>20, <1>22, <2>1, <2>2 DEF Layout, i
<1>25. Steady(r, u, q, t)
  BY <1>4, <1>10, <1>20 DEF Steady
<1> QED  BY <1>4, <1>9, <1>10, <1>20, <1>21, <1>24, <1>25 DEF Gains, Well, u, t, q, p

PartOpens(r, what, q, v) ==
  /\ Well(q, v) /\ Kept(r, q, v) /\ q.message /\ q.part = what /\ Len(q.calls) = Len(r.calls)

\* A part more, empty so far.
PartMore(r, q, x, y, what) ==
  /\ y.what = x.what /\ y.open = x.open /\ y.part = what /\ y.parts = Append(x.parts, <<what, 0>>)
  /\ q.part = what /\ q.order = Append(r.order, what) /\ q.content = r.content
  /\ q.text = r.text /\ q.refusal = r.refusal

LEMMA MessageMore ==
  ASSUME NEW r \in ResponsesEncoders, NEW q, NEW x \in Items, NEW y, NEW what \in {"text", "refusal"},
         r.part = "none", MessageItem(r, x), PartMore(r, q, x, y, what)
  PROVE  MessageItem(q, y)
<1> DEFINE n == Len(r.order)
           z == <<what, 0>>
<1>1. r.order \in Seq({"text", "refusal"}) /\ x.parts \in Seq(Pairs) /\ n \in Nat /\ Len(x.parts) = n
  BY DEF MessageItem, ResponsesEncoders, Items
<1>2. z \in Pairs /\ z[1] = what /\ z[2] = 0
  BY DEF Pairs, Words
<1> HIDE DEF z
<1>3. y.parts = Append(x.parts, z) /\ q.order = Append(r.order, what)
  BY DEF PartMore, z
<1>4. /\ Len(y.parts) = n + 1 /\ y.parts[n + 1] = z /\ \A p \in 1..n : y.parts[p] = x.parts[p]
      /\ Len(q.order) = n + 1 /\ q.order[n + 1] = what /\ \A p \in 1..n : q.order[p] = r.order[p]
      /\ DOMAIN x.parts = 1..n /\ DOMAIN y.parts = 1..(n + 1)
  BY <1>1, <1>2, <1>3
<1>5. \A p \in 1..n : x.parts[p][1] = r.order[p]
  BY DEF MessageItem
<1>6. \A a : Accumulated(q, a) = Accumulated(r, a)
  BY DEF Accumulated, PartMore
<1>7. \A p \in 1..Len(q.order) : y.parts[p][1] = q.order[p]
  <2> SUFFICES ASSUME NEW p \in 1..(n + 1) PROVE y.parts[p][1] = q.order[p]
    BY <1>4
  <2>1. p = n + 1 \/ p \in 1..n
    BY <1>1
  <2> QED  BY <1>2, <1>4, <1>5, <2>1
<1>8. ASSUME Distinct(y.parts) PROVE \A p \in 1..Len(q.order) : y.parts[p][2] = Accumulated(q, q.order[p])
  <2>1. \A i, j \in 1..(n + 1) : i # j => y.parts[i][1] # y.parts[j][1]
    BY <1>4, <1>8 DEF Distinct
  <2>2. Distinct(x.parts)
    <3> SUFFICES ASSUME NEW i \in 1..n, NEW j \in 1..n, i # j PROVE x.parts[i][1] # x.parts[j][1]
      BY <1>4 DEF Distinct
    <3>1. i \in 1..(n + 1) /\ j \in 1..(n + 1)
      BY <1>1
    <3> QED  BY <1>4, <2>1, <3>1
  <2>3. \A p \in 1..n : r.order[p] # what
    <3> SUFFICES ASSUME NEW p \in 1..n PROVE r.order[p] # what
      OBVIOUS
    <3>1. p \in 1..(n + 1) /\ n + 1 \in 1..(n + 1) /\ p # n + 1
      BY <1>1
    <3> QED  BY SMTT(30), <1>2, <1>4, <1>5, <2>1, <3>1
  <2>4. Accumulated(r, what) = 0
    BY <2>3 DEF MessageItem
  <2>5. \A p \in 1..n : x.parts[p][2] = Accumulated(r, r.order[p])
    BY <2>2 DEF MessageItem
  <2> SUFFICES ASSUME NEW p \in 1..(n + 1) PROVE y.parts[p][2] = Accumulated(q, q.order[p])
    BY <1>4
  <2>6. p = n + 1 \/ p \in 1..n
    BY <1>1
  <2>7. CASE p = n + 1
    BY <1>2, <1>4, <1>6, <2>4, <2>7
  <2>8. CASE p \in 1..n
    BY <1>4, <1>6, <2>5, <2>8
  <2> QED  BY <2>6, <2>7, <2>8
<1>9. ASSUME NEW a \in {"text", "refusal"}, \A p \in 1..Len(q.order) : q.order[p] # a
      PROVE  Accumulated(q, a) = 0
  <2>1. \A p \in 1..n : r.order[p] # a
    BY <1>1, <1>4, <1>9
  <2>2. Accumulated(r, a) = 0
    BY <2>1 DEF MessageItem
  <2> QED  BY <1>6, <2>2
<1>10. r.content = n
  BY DEF MessageItem
<1> QED  BY <1>1, <1>4, <1>7, <1>8, <1>9, <1>10 DEF MessageItem, PartMore

LEMMA PartOpened ==
  ASSUME NEW r, NEW v, Well(r, v), ResponsesSeen(r, v).phase = "open", r.message,
         NEW what \in {"text", "refusal"}, r.part \in {"none", what}
  PROVE  PartOpens(r, what, OpenPart(r, what), v)
<1>0. CASE r.part = what
  <2>1. OpenPart(r, what) = r /\ r \in ResponsesEncoders
    BY <1>0 DEF OpenPart, Well
  <2> QED  BY <1>0, <2>1, KeptSame DEF PartOpens
<1>00. CASE r.part # what
  <2> DEFINE p == <<what, 0>>
             order == Append(r.order, what)
             k == [r EXCEPT !.part = what, !.order = order]
             i == r.item + 1
             w == Item("part_added", r.item, r.content, p, <<>>)
             q == OpenPart(r, what)
             u == ResponsesSeen(r, v)
             t == ResponsesSeen(q, v)
             x == u.items[i]
             parts == Append(x.parts, p)
             y == [x EXCEPT !.part = what, !.parts = parts]
             items == Put(u.items, i, y)
  <2>1. r \in ResponsesEncoders /\ u \in Views /\ Layout(r, u) /\ u.phase = "open" /\ r.part = "none"
    BY <1>00 DEF Well
  <2>2. r.item \in Nat /\ r.calls \in Seq(Calls) /\ r.content \in Nat /\ order \in Seq({"text", "refusal"})
    BY <2>1 DEF ResponsesEncoders
  <2>3. q = Emit(k, w)
    BY <1>00 DEF OpenPart
  <2> HIDE DEF order
  <2>4. /\ k \in ResponsesEncoders /\ k.out = r.out /\ k.created = r.created /\ k.finished = r.finished
        /\ k.completed = r.completed /\ k.why = r.why /\ k.message /\ k.reasoning = r.reasoning /\ k.calls = r.calls
        /\ k.item = r.item /\ k.part = what /\ k.content = r.content /\ k.order = order /\ k.text = r.text
        /\ k.refusal = r.refusal /\ k.thinking = r.thinking /\ k.signatures = r.signatures /\ k.echo = r.echo
    BY <2>1, <2>2 DEF ResponsesEncoders
  <2>5. p \in Pairs /\ p[1] = what
    BY DEF Pairs, Words
  <2>6. w \in ItemWires
    BY <2>2, <2>5, BareWire
  <2>7. ResponsesSeen(k, v) = u
    BY <2>4 DEF ResponsesSeen
  <2> HIDE DEF k, q, u, w
  <2>8. Adds(k, w, v, q)
    BY <2>3, <2>4, <2>6, EmitAdds
  <2>9. q \in ResponsesEncoders /\ q = [k EXCEPT !.out = q.out] /\ t = ReadResponses(u, w)
    BY <2>7, <2>8 DEF Adds
  <2>10. /\ q.created = k.created /\ q.finished = k.finished
        /\ q.completed = k.completed /\ q.why = k.why /\ q.message = k.message /\ q.reasoning = k.reasoning
        /\ q.calls = k.calls
        /\ q.item = k.item /\ q.part = k.part /\ q.content = k.content /\ q.order = k.order /\ q.text = k.text
        /\ q.refusal = k.refusal /\ q.thinking = k.thinking /\ q.signatures = k.signatures /\ q.echo = k.echo
    BY <2>4, <2>9 DEF ResponsesEncoders
  <2>11. Len(u.items) = i /\ ~r.reasoning /\ i - 1 = r.item /\ i \in 1..Len(u.items)
    BY <2>1, <2>2 DEF Layout
  <2>12. MessageItem(r, x) /\ ReasoningFits(r, u.items) /\ r.echo = u.done
         /\ Past(r.item, r.calls, u.items) /\ CallsFit(r.item, r.calls, u.items)
    BY <2>1 DEF Layout, MessageFits
  <2>13. x \in Items /\ u.items \in Seq(Items)
    BY <2>1, <2>11 DEF Views
  <2>14. x.open /\ x.part = "none" /\ Len(x.parts) = r.content
    BY <2>1, <2>12 DEF MessageItem
  <2> HIDE DEF p
  <2>15. parts \in Seq(Pairs)
    BY <2>5, <2>13 DEF Items
  <2> HIDE DEF x, i, t
  <2>16. PartAdds(u, i, p)
    BY <2>1, <2>5, <2>11, <2>14, ReadsPartAdded DEF x
  <2>17. t = [u EXCEPT !.items = items]
    <3>1. w = Item("part_added", i - 1, Len(x.parts), p, <<>>)
      BY <2>11, <2>14 DEF w, p
    <3>2. p = <<what, 0>>
      BY DEF p
    <3>3. ReadResponses(u, Item("part_added", i - 1, Len(x.parts), p, <<>>))
          = [u EXCEPT !.items = Put(u.items, i, [x EXCEPT !.part = what, !.parts = Append(x.parts, p)])]
      BY <2>5, <2>16, <3>2 DEF PartAdds, x
    <3> QED  BY <2>9, <3>1, <3>3
  <2> HIDE DEF parts
  <2>18. y \in Items /\ y.part = what /\ y.what = x.what /\ y.open = x.open /\ y.parts = parts
    BY <2>13, <2>15 DEF Items
  <2> HIDE DEF y
  <2>19. /\ items \in Seq(Items) /\ Len(items) = Len(u.items) /\ items[i] = y
         /\ \A j \in 1..Len(u.items) : j # i => items[j] = u.items[j]
    BY ZenonT(60), <2>11, <2>13, <2>18, PutIn
  <2> HIDE DEF items
  <2>20. /\ t \in Views /\ t.items = items /\ t.done = u.done /\ t.phase = u.phase /\ t.got = u.got
         /\ t.late = u.late /\ t.ok = u.ok /\ t.signatures = u.signatures
    BY <2>1, <2>17, <2>19 DEF Views
  <2>21. PartMore(r, q, x, y, what)
    BY <2>4, <2>10, <2>18 DEF PartMore, parts, p, order
  <2>22. MessageItem(q, y)
    BY <2>1, <2>12, <2>13, <2>21, MessageMore
  <2>23. Past(r.item, r.calls, items) /\ CallsFit(r.item, r.calls, items)
    <3>1. \A j \in 1..r.item : items[j] = u.items[j]
      BY <2>2, <2>11, <2>19
    <3> QED  BY <2>2, <2>12, <3>1, Unmoved
  <2>24. Layout(q, t)
    <3>1. MessageFits(q, items)
      BY <2>4, <2>10, <2>19, <2>22 DEF MessageFits, i
    <3>2. ReasoningFits(q, items)
      BY <2>4, <2>10, <2>11, <2>12 DEF ReasoningFits
    <3> QED  BY <2>4, <2>10, <2>11, <2>12, <2>19, <2>20, <2>23, <3>1, <3>2 DEF Layout, i
  <2>25. Keeps(r, u, q, t)
    BY <2>4, <2>10, <2>20 DEF Keeps
  <2> QED  BY <2>4, <2>9, <2>10, <2>20, <2>24, <2>25 DEF PartOpens, Well, Kept, u, t, q
<1> QED  BY <1>0, <1>00

\* The last part grows by one delta.
PartLonger(r, q, x, y) ==
  /\ y.what = x.what /\ y.open = x.open /\ y.part = x.part /\ y.parts = GrowLast(x.parts)
  /\ q.part = r.part /\ q.order = r.order /\ q.content = r.content
  /\ Accumulated(q, r.part) = Accumulated(r, r.part) + 1
  /\ \A a \in {"text", "refusal"} : a # r.part => Accumulated(q, a) = Accumulated(r, a)

LEMMA MessageLonger ==
  ASSUME NEW r \in ResponsesEncoders, NEW q, NEW x \in Items, NEW y,
         r.part # "none", MessageItem(r, x), PartLonger(r, q, x, y)
  PROVE  MessageItem(q, y)
<1> DEFINE n == Len(r.order)
<1>1. r.order \in Seq({"text", "refusal"}) /\ x.parts \in Seq(Pairs) /\ n \in Nat /\ Len(x.parts) = n
  BY DEF MessageItem, ResponsesEncoders, Items
<1>2. n > 0 /\ r.order[n] = r.part /\ r.content = n - 1 /\ n \in 1..n
  BY <1>1 DEF MessageItem
<1>3. x.parts # <<>>
  BY <1>1, <1>2
<1>4. /\ y.parts \in Seq(Pairs) /\ Len(y.parts) = n /\ y.parts[n] = <<x.parts[n][1], x.parts[n][2] + 1>>
      /\ \A p \in 1..n : p # n => y.parts[p] = x.parts[p]
  BY <1>1, <1>3, LastGrows DEF PartLonger
<1>5. DOMAIN x.parts = 1..n /\ DOMAIN y.parts = 1..n /\ q.order = r.order
  BY <1>1, <1>4 DEF PartLonger
<1>6. y.parts[n][1] = x.parts[n][1] /\ y.parts[n][2] = x.parts[n][2] + 1
  BY <1>4
<1>7. \A p \in 1..n : y.parts[p][1] = x.parts[p][1]
  BY <1>4, <1>6
<1>8. \A p \in 1..n : y.parts[p][1] = r.order[p] /\ x.parts[p][1] = r.order[p]
  BY <1>7 DEF MessageItem
<1>9. ASSUME Distinct(y.parts) PROVE \A p \in 1..n : y.parts[p][2] = Accumulated(q, r.order[p])
  <2>1. \A i, j \in 1..n : i # j => r.order[i] # r.order[j]
    BY <1>5, <1>8, <1>9 DEF Distinct
  <2>2. Distinct(x.parts)
    BY <1>5, <1>8, <2>1 DEF Distinct
  <2>3. \A p \in 1..n : x.parts[p][2] = Accumulated(r, r.order[p])
    BY <2>2 DEF MessageItem
  <2> SUFFICES ASSUME NEW p \in 1..n PROVE y.parts[p][2] = Accumulated(q, r.order[p])
    OBVIOUS
  <2>4. CASE p = n
    BY <1>2, <1>6, <2>3, <2>4 DEF PartLonger
  <2>5. CASE p # n
    <3>1. r.order[p] \in {"text", "refusal"} /\ r.order[p] # r.part
      BY <1>1, <1>2, <2>1, <2>5
    <3>2. y.parts[p] = x.parts[p]
      BY <1>4, <2>5
    <3>3. Accumulated(q, r.order[p]) = Accumulated(r, r.order[p])
      BY <3>1 DEF PartLonger
    <3> QED  BY <2>3, <3>2, <3>3
  <2> QED  BY <2>4, <2>5
<1>10. ASSUME NEW a \in {"text", "refusal"}, \A p \in 1..n : r.order[p] # a
       PROVE  Accumulated(q, a) = 0
  <2>1. a # r.part
    BY <1>2, <1>10
  <2>2. Accumulated(r, a) = 0
    BY <1>10 DEF MessageItem
  <2> QED  BY <2>1, <2>2 DEF PartLonger
<1> HIDE DEF n
<1>11. /\ y.what = <<"message", 0>> /\ y.open /\ y.part = q.part /\ q.part = r.part /\ q.content = r.content
  BY DEF MessageItem, PartLonger
<1> QED  BY <1>2, <1>4, <1>5, <1>8, <1>9, <1>10, <1>11 DEF MessageItem, n

Deltas(r, what, k) ==
  /\ k = IF what = "text" THEN [r EXCEPT !.text = r.text + 1] ELSE [r EXCEPT !.refusal = r.refusal + 1]

DeltaCounted(r, what, k) ==
  /\ k \in ResponsesEncoders /\ k.out = r.out /\ k.created = r.created /\ k.finished = r.finished
  /\ k.completed = r.completed /\ k.why = r.why /\ k.message = r.message /\ k.reasoning = r.reasoning
  /\ k.calls = r.calls /\ k.item = r.item /\ k.part = r.part /\ k.content = r.content /\ k.order = r.order
  /\ k.thinking = r.thinking /\ k.signatures = r.signatures /\ k.echo = r.echo
  /\ Accumulated(k, what) = Accumulated(r, what) + 1
  /\ \A a \in {"text", "refusal"} : a # what => Accumulated(k, a) = Accumulated(r, a)

LEMMA DeltaCounts ==
  ASSUME NEW r \in ResponsesEncoders, NEW what \in {"text", "refusal"}, NEW k, Deltas(r, what, k)
  PROVE  DeltaCounted(r, what, k)
<1> DEFINE n == r.text + 1
           m == r.refusal + 1
<1>1. n \in Nat /\ m \in Nat
  BY DEF ResponsesEncoders
<1>2. n = r.text + 1 /\ m = r.refusal + 1
  OBVIOUS
<1> HIDE DEF n, m
<1>3. CASE what = "text"
  <2>1. k = [r EXCEPT !.text = n]
    BY <1>2, <1>3 DEF Deltas
  <2>2. k \in ResponsesEncoders /\ k.text = n /\ k.refusal = r.refusal
    BY <1>1, <2>1 DEF ResponsesEncoders
  <2> QED  BY <1>2, <1>3, <2>1, <2>2 DEF ResponsesEncoders, Accumulated, DeltaCounted
<1>4. CASE what = "refusal"
  <2>1. k = [r EXCEPT !.refusal = m]
    BY <1>2, <1>4 DEF Deltas
  <2>2. k \in ResponsesEncoders /\ k.refusal = m /\ k.text = r.text
    BY <1>1, <2>1 DEF ResponsesEncoders
  <2> QED  BY <1>2, <1>4, <2>1, <2>2 DEF ResponsesEncoders, Accumulated, DeltaCounted
<1> QED  BY <1>3, <1>4

LEMMA ContentGrown ==
  ASSUME NEW r, NEW v, Well(r, v), ResponsesSeen(r, v).phase = "open", r.message,
         NEW what \in {"text", "refusal"}, r.part = what
  PROVE  /\ Gains(r, ContentDelta(r, what), v, <<what, 0>>)
         /\ ResponsesSeen(ContentDelta(r, what), v).late = ResponsesSeen(r, v).late
<1> DEFINE p == <<what, 0>>
           k == IF what = "text" THEN [r EXCEPT !.text = r.text + 1] ELSE [r EXCEPT !.refusal = r.refusal + 1]
           i == r.item + 1
           w == Item("delta", r.item, r.content, p, <<>>)
           q == ContentDelta(r, what)
           u == ResponsesSeen(r, v)
           t == ResponsesSeen(q, v)
           x == u.items[i]
           parts == GrowLast(x.parts)
<1>1. r \in ResponsesEncoders /\ u \in Views /\ Layout(r, u) /\ u.phase = "open"
  BY DEF Well
<1>2. r.item \in Nat /\ r.calls \in Seq(Calls) /\ r.content \in Nat
  BY <1>1 DEF ResponsesEncoders
<1>3. q = Emit(k, w)
  BY DEF ContentDelta
<1>33. Deltas(r, what, k)
  BY DEF Deltas
<1> HIDE DEF k, q, u
<1>34. DeltaCounted(r, what, k)
  BY <1>1, <1>33, DeltaCounts
<1>4. /\ k \in ResponsesEncoders /\ k.out = r.out /\ k.created = r.created /\ k.finished = r.finished
      /\ k.completed = r.completed /\ k.why = r.why /\ k.message = r.message /\ k.reasoning = r.reasoning
      /\ k.calls = r.calls /\ k.item = r.item /\ k.part = r.part /\ k.content = r.content /\ k.order = r.order
      /\ k.thinking = r.thinking /\ k.signatures = r.signatures /\ k.echo = r.echo
      /\ Accumulated(k, what) = Accumulated(r, what) + 1
      /\ \A a \in {"text", "refusal"} : a # what => Accumulated(k, a) = Accumulated(r, a)
  BY <1>34 DEF DeltaCounted
<1>5. p \in Pairs /\ p[1] = what
  BY DEF Pairs, Words
<1>6. w \in ItemWires
  BY <1>2, <1>5, BareWire
<1>7. ResponsesSeen(k, v) = u
  BY <1>4 DEF ResponsesSeen, u
<1> HIDE DEF w
<1>8. Adds(k, w, v, q)
  BY <1>3, <1>4, <1>6, EmitAdds
<1>9. q \in ResponsesEncoders /\ q = [k EXCEPT !.out = q.out] /\ t = ReadResponses(u, w)
  BY <1>7, <1>8 DEF Adds
<1>10. /\ q.created = k.created /\ q.finished = k.finished
      /\ q.completed = k.completed /\ q.why = k.why /\ q.message = k.message /\ q.reasoning = k.reasoning
      /\ q.calls = k.calls
      /\ q.item = k.item /\ q.part = k.part /\ q.content = k.content /\ q.order = k.order /\ q.text = k.text
      /\ q.refusal = k.refusal /\ q.thinking = k.thinking /\ q.signatures = k.signatures /\ q.echo = k.echo
  BY <1>4, <1>9 DEF ResponsesEncoders
<1>11. Len(u.items) = i /\ ~r.reasoning /\ i - 1 = r.item /\ i \in 1..Len(u.items)
  BY <1>1, <1>2 DEF Layout
<1>12. MessageItem(r, x) /\ ReasoningFits(r, u.items) /\ r.echo = u.done
       /\ Past(r.item, r.calls, u.items) /\ CallsFit(r.item, r.calls, u.items)
  BY <1>1 DEF Layout, MessageFits
<1>13. x \in Items
  BY <1>1, <1>11 DEF Views
<1>14. x.open /\ x.part = what /\ x.parts # <<>> /\ Len(x.parts) - 1 = r.content
  <2>1. r.part # "none"
    OBVIOUS
  <2>2. x.parts # <<>> /\ Len(x.parts) - 1 = r.content
    BY <1>1, <1>12, <1>13, <2>1, LastPart
  <2> QED  BY <1>12, <2>2 DEF MessageItem
<1>15. parts \in Seq(Pairs)
  BY <1>13, <1>14, LastGrows DEF Items
<1> HIDE DEF p, x
<1>16. parts = GrownParts(x, p)
  BY <1>5 DEF GrownParts
<1>17. DeltaFits(x, r.content, p)
  BY <1>5, <1>14 DEF DeltaFits
<1> HIDE DEF parts, i, t
<1>18. w = Item("delta", i - 1, r.content, p, <<>>)
  BY <1>11 DEF w, p
<1>19. Grew(u, i, p, parts, t)
  BY <1>1, <1>5, <1>9, <1>11, <1>15, <1>16, <1>17, <1>18, GrewView DEF x
<1>20. /\ t \in Views /\ Len(t.items) = Len(u.items)
       /\ t.items[i] = [x EXCEPT !.parts = parts]
       /\ \A j \in 1..r.item : t.items[j] = u.items[j]
       /\ t.phase = u.phase /\ t.got = Append(u.got, p) /\ t.ok = u.ok /\ t.done = u.done
       /\ t.signatures = u.signatures
  BY <1>2, <1>11, <1>19 DEF Grew, i, x
<1>21. t.late = u.late
  <2>1. t.late \in BOOLEAN /\ u.late \in BOOLEAN
    BY <1>1, <1>20 DEF Views
  <2> QED  BY <1>14, <1>19, <2>1 DEF Grew, x
<1>22. Past(r.item, r.calls, t.items) /\ CallsFit(r.item, r.calls, t.items)
  BY <1>2, <1>12, <1>20, Unmoved
<1>23. MessageItem(q, t.items[i])
  <2>1. t.items[i].what = x.what /\ t.items[i].open = x.open /\ t.items[i].part = x.part /\ t.items[i].parts = parts
    BY <1>13, <1>20 DEF Items
  <2>2. \A a : Accumulated(q, a) = Accumulated(k, a)
    BY <1>10 DEF Accumulated
  <2>3. PartLonger(r, q, x, t.items[i])
    BY <1>4, <1>10, <2>1, <2>2 DEF PartLonger, parts
  <2>4. r.part # "none"
    OBVIOUS
  <2> QED  BY <1>1, <1>12, <1>13, <2>3, <2>4, MessageLonger
<1>24. Layout(q, t)
  <2>1. MessageFits(q, t.items)
    BY <1>4, <1>10, <1>23 DEF MessageFits, i
  <2>2. ReasoningFits(q, t.items)
    BY <1>4, <1>10, <1>11, <1>12 DEF ReasoningFits, i
  <2> QED  BY <1>4, <1>10, <1>11, <1>12, <1>20, <1>22, <2>1, <2>2 DEF Layout, i
<1>25. Steady(r, u, q, t)
  BY <1>4, <1>10, <1>20 DEF Steady
<1> QED  BY <1>4, <1>9, <1>10, <1>20, <1>21, <1>24, <1>25 DEF Gains, Well, u, t, q, p

-----------------------------------------------------------------------------

LEMMA KeepsSteady ==
  ASSUME NEW r, NEW q, NEW p, NEW v, NEW piece, Kept(r, q, v), Gains(q, p, v, piece)
  PROVE  Gains(r, p, v, piece)
  BY DEF Kept, Keeps, Gains, Steady

ContentHandled(r, what, q, v) ==
  Gains(r, q, v, <<what, 0>>) /\ ResponsesSeen(q, v).late = ResponsesSeen(r, v).late

LEMMA HandlesContent ==
  ASSUME NEW r, NEW v, Well(r, v), ResponsesSeen(r, v).phase = "open", NEW what \in {"text", "refusal"}
  PROVE  ContentHandled(r, what, HandleContent(r, what), v)
<1> DEFINE a == CloseReasoningItem(r)
           b == CloseOtherPart(a, what)
           c == OpenMessage(b)
           d == OpenPart(c, what)
<1>1. ReasoningShut(r, a, v)
  BY ReasoningClosed
<1>2. Well(a, v) /\ Kept(r, a, v) /\ ~a.reasoning /\ ResponsesSeen(a, v).phase = "open"
  BY <1>1 DEF ReasoningShut, Kept, Keeps
<1> HIDE DEF a
<1>3. Well(b, v) /\ Kept(a, b, v) /\ ~b.reasoning /\ b.part \in {"none", what}
  <2>1. CASE a.part = what
    <3>1. b = a /\ a \in ResponsesEncoders
      BY <1>2, <2>1 DEF CloseOtherPart, Well
    <3> QED  BY <1>2, <2>1, <3>1, KeptSame
  <2>2. CASE a.part # what
    <3>1. b = CloseContentPart(a)
      BY <2>2 DEF CloseOtherPart
    <3>2. PartShut(a, b, v)
      BY <1>2, <3>1, PartClosed
    <3> QED  BY <1>2, <3>2 DEF PartShut
  <2> QED  BY <2>1, <2>2
<1> HIDE DEF b
<1>4. ResponsesSeen(b, v).phase = "open"
  BY <1>2, <1>3 DEF Kept, Keeps
<1>5. MessageOpens(b, c, v)
  BY <1>3, <1>4, MessageOpened
<1> HIDE DEF c
<1>6. Well(c, v) /\ Kept(b, c, v) /\ c.message /\ c.part \in {"none", what} /\ ResponsesSeen(c, v).phase = "open"
  BY <1>3, <1>4, <1>5 DEF MessageOpens, Kept, Keeps
<1>7. PartOpens(c, what, d, v)
  BY <1>6, PartOpened
<1> HIDE DEF d
<1>8. Well(d, v) /\ Kept(c, d, v) /\ d.message /\ d.part = what /\ ResponsesSeen(d, v).phase = "open"
  BY <1>6, <1>7 DEF PartOpens, Kept, Keeps
<1> DEFINE q == HandleContent(r, what)
           piece == <<what, 0>>
<1>9. q = ContentDelta(d, what)
  BY DEF HandleContent, a, b, c, d
<1>10. Gains(d, q, v, piece) /\ ResponsesSeen(q, v).late = ResponsesSeen(d, v).late
  BY <1>8, <1>9, ContentGrown
<1> HIDE DEF q, piece
<1>11. Kept(r, b, v)
  BY <1>2, <1>3, KeptOn
<1>12. Kept(r, c, v)
  BY <1>6, <1>11, KeptOn
<1>13. Kept(r, d, v)
  BY <1>8, <1>12, KeptOn
<1>14. Gains(r, q, v, piece)
  BY <1>10, <1>13, KeepsSteady
<1>15. ResponsesSeen(d, v).late = ResponsesSeen(r, v).late
  BY <1>13 DEF Kept, Keeps
<1> QED  BY <1>10, <1>14, <1>15 DEF ContentHandled, q, piece

\* The calls c are the calls b but for the arguments of the one at j.
ArgsMore(b, j, c) ==
  /\ c \in Seq(Calls) /\ Len(c) = Len(b)
  /\ c[j].at = b[j].at /\ c[j].args = b[j].args + 1 /\ c[j].open = b[j].open
  /\ \A i \in 1..Len(b) : i # j => c[i] = b[i]

LEMMA ArgsCount ==
  ASSUME NEW b \in Seq(Calls), NEW j \in 1..Len(b)
  PROVE  ArgsMore(b, j, [b EXCEPT ![j].args = @ + 1])
<1> DEFINE m == b[j].args + 1
           x == [b[j] EXCEPT !.args = m]
           c == [b EXCEPT ![j] = x]
<1>1. b[j] \in Calls /\ j \in DOMAIN b
  OBVIOUS
<1>11. m \in Nat /\ m = b[j].args + 1
  BY <1>1 DEF Calls
<1>3. [b EXCEPT ![j].args = @ + 1] = c
  BY <1>1
<1> HIDE DEF m
<1>2. x \in Calls /\ x.at = b[j].at /\ x.args = b[j].args + 1 /\ x.open = b[j].open
  BY <1>1, <1>11 DEF Calls
<1> HIDE DEF x
<1>4. c \in Seq(Calls) /\ Len(c) = Len(b) /\ c[j] = x /\ \A i \in 1..Len(b) : i # j => c[i] = b[i]
  BY <1>2, PutCall
<1> QED  BY <1>2, <1>3, <1>4 DEF ArgsMore

\* The items t are the items s but for the parts of one call.
CallMore(s, i, t, j, n) ==
  /\ t[i].what = s[i].what /\ t[i].open = s[i].open /\ t[i].part = s[i].part
  /\ t[i].parts = Counted("args", n)
  /\ \A m : m \in 1..Len(s) /\ m # i => t[m] = s[m]

LEMMA CallsLonger ==
  ASSUME NEW n \in Nat, NEW b \in Seq(Calls), NEW c, NEW j \in 1..Len(b), ArgsMore(b, j, c),
         NEW s, NEW t, Len(s) \in Nat, n <= Len(s), Past(n, b, s), CallsFit(n, b, s),
         NEW i, i = b[j].at + 1, CallMore(s, i, t, j, b[j].args + 1)
  PROVE  Past(n, c, t) /\ CallsFit(n, c, t)
<1>1. b[j] \in Calls /\ b[j].at < n /\ CallItem(s[i], b[j], j)
  BY DEF CallsFit
<1>2. i \in 1..n /\ b[j].at \in Nat
  BY <1>1 DEF Calls
<1>3. \A m \in 1..n : m # i => t[m] = s[m]
  BY DEF CallMore
<1>4. \A m \in 1..Len(b) : c[m].at = b[m].at /\ c[m].open = b[m].open
  BY DEF ArgsMore
<1>5. \A m \in 1..n : t[m].part = s[m].part /\ t[m].open = s[m].open
  BY <1>3 DEF CallMore
<1>6. Len(c) = Len(b)
  BY DEF ArgsMore
<1>7. Past(n, c, t)
  BY <1>4, <1>5, <1>6 DEF Past
<1>8. ASSUME NEW m \in 1..Len(b)
      PROVE c[m].at < n /\ CallItem(t[c[m].at + 1], c[m], m) /\ (c[m].open => m = Len(b))
  <2>1. b[m] \in Calls /\ b[m].at < n /\ CallItem(s[b[m].at + 1], b[m], m) /\ (b[m].open => m = Len(b))
    BY DEF CallsFit
  <2>2. b[m].at \in Nat
    BY <2>1 DEF Calls
  <2>3. c[m].at + 1 = b[m].at + 1 /\ c[m].open = b[m].open /\ c[m].at < n
    BY <1>4, <2>1
  <2>4. CASE m = j
    <3>1. c[m].args = b[j].args + 1
      BY <2>4 DEF ArgsMore
    <3>2. c[m].at + 1 = i
      BY <2>3, <2>4
    <3>3. t[i].what = <<"call", m - 1>> /\ t[i].open = b[m].open
      BY <1>1, <2>4 DEF CallMore, CallItem
    <3>4. t[i].parts = Counted("args", c[m].args)
      BY <3>1 DEF CallMore
    <3> QED  BY <2>1, <2>3, <3>2, <3>3, <3>4 DEF CallItem
  <2>5. CASE m # j
    <3>1. c[m] = b[m]
      BY <2>5 DEF ArgsMore
    <3>2. s[b[m].at + 1].what = <<"call", m - 1>> /\ s[i].what = <<"call", j - 1>>
      BY <1>1, <2>1 DEF CallItem
    <3>3. m - 1 # j - 1
      BY <2>5
    <3>4. b[m].at + 1 # i
      BY <3>2, <3>3
    <3>5. b[m].at + 1 \in 1..n
      BY <2>1, <2>2
    <3>6. t[b[m].at + 1] = s[b[m].at + 1]
      BY <1>3, <3>4, <3>5
    <3> QED  BY <2>1, <2>3, <3>1, <3>6
  <2> QED  BY <2>4, <2>5
<1>9. CallsFit(n, c, t)
  BY <1>6, <1>8 DEF CallsFit
<1> QED  BY <1>7, <1>9

ArgsGiven(r, n, q, v) ==
  /\ Gains(r, q, v, <<"args", n>>)
  /\ ResponsesSeen(q, v).late => ResponsesSeen(r, v).late \/ ~r.calls[n + 1].open
  /\ ResponsesSeen(r, v).late => ResponsesSeen(q, v).late
  /\ q.message = r.message /\ q.reasoning = r.reasoning
  /\ \A j \in 1..Len(r.calls) : q.calls[j].open = r.calls[j].open

LEMMA CallGrown ==
  ASSUME NEW r, NEW v, Well(r, v), ResponsesSeen(r, v).phase = "open", NEW n \in Nat, n < Len(r.calls)
  PROVE  ArgsGiven(r, n, CallDelta(r, n), v)
<1> DEFINE p == <<"args", n>>
           j == n + 1
           b == r.calls
           c == [b EXCEPT ![j].args = @ + 1]
           k == [r EXCEPT !.calls = c]
           i == b[j].at + 1
           w == Item("delta", b[j].at, 0, p, <<>>)
           q == CallDelta(r, n)
           u == ResponsesSeen(r, v)
           t == ResponsesSeen(q, v)
           x == u.items[i]
           parts == Counted("args", b[j].args + 1)
<1>1. r \in ResponsesEncoders /\ u \in Views /\ Layout(r, u) /\ u.phase = "open"
  BY DEF Well
<1>2. r.item \in Nat /\ b \in Seq(Calls) /\ j \in 1..Len(b) /\ j - 1 = n
  BY <1>1 DEF ResponsesEncoders
<1>22. b[j] \in Calls /\ b[j].at \in Nat /\ b[j].args \in Nat
  <2>1. b[j] \in Calls
    BY <1>2
  <2> HIDE DEF b, j
  <2> QED  BY <2>1 DEF Calls
<1>3. q = Emit(k, w)
  <2>1. [r EXCEPT !.calls[n + 1].args = @ + 1] = k
    BY <1>1, <1>2 DEF ResponsesEncoders
  <2> HIDE DEF k
  <2> QED  BY <2>1 DEF CallDelta
<1>33. ArgsMore(b, j, c)
  <2> HIDE DEF b, j
  <2> QED  BY <1>2, ArgsCount
<1> HIDE DEF c, j
<1>34. c \in Seq(Calls) /\ Len(c) = Len(b)
  BY <1>33 DEF ArgsMore
<1>4. /\ k \in ResponsesEncoders /\ k.out = r.out /\ k.created = r.created /\ k.finished = r.finished
      /\ k.completed = r.completed /\ k.why = r.why /\ k.message = r.message /\ k.reasoning = r.reasoning
      /\ k.calls = c
      /\ k.item = r.item /\ k.part = r.part /\ k.content = r.content /\ k.order = r.order /\ k.text = r.text
      /\ k.refusal = r.refusal /\ k.thinking = r.thinking /\ k.signatures = r.signatures /\ k.echo = r.echo
  BY <1>1, <1>34 DEF ResponsesEncoders
<1>5. p \in Pairs /\ p[1] = "args" /\ p[2] = n
  BY DEF Pairs, Words
<1>6. w \in ItemWires
  BY <1>22, <1>5, BareWire
<1>7. ResponsesSeen(k, v) = u
  BY <1>4 DEF ResponsesSeen
<1> HIDE DEF k, q, u, w
<1>8. Adds(k, w, v, q)
  BY <1>3, <1>4, <1>6, EmitAdds
<1>9. q \in ResponsesEncoders /\ q = [k EXCEPT !.out = q.out] /\ t = ReadResponses(u, w)
  BY <1>7, <1>8 DEF Adds
<1>10. /\ q.created = k.created /\ q.finished = k.finished
      /\ q.completed = k.completed /\ q.why = k.why /\ q.message = k.message /\ q.reasoning = k.reasoning
      /\ q.calls = k.calls
      /\ q.item = k.item /\ q.part = k.part /\ q.content = k.content /\ q.order = k.order /\ q.text = k.text
      /\ q.refusal = k.refusal /\ q.thinking = k.thinking /\ q.signatures = k.signatures /\ q.echo = k.echo
  BY <1>4, <1>9 DEF ResponsesEncoders
<1>12. MessageFits(r, u.items) /\ ReasoningFits(r, u.items) /\ r.echo = u.done
       /\ Past(r.item, b, u.items) /\ CallsFit(r.item, b, u.items) /\ ~(r.message /\ r.reasoning)
       /\ Len(u.items) = IF r.message \/ r.reasoning THEN r.item + 1 ELSE r.item
  BY <1>1 DEF Layout
<1>11. Len(u.items) \in Nat /\ r.item <= Len(u.items)
  BY <1>2, <1>12
<1>13. b[j].at < r.item /\ CallItem(x, b[j], j)
  BY <1>2, <1>12 DEF CallsFit
<1>14. i \in 1..r.item /\ i \in 1..Len(u.items) /\ i - 1 = b[j].at
  BY SMTT(30), <1>2, <1>11, <1>13, <1>22
<1>15. x \in Items
  BY <1>1, <1>14 DEF Views
<1>16. x.what = <<"call", n>> /\ x.open = b[j].open /\ x.parts = Counted("args", b[j].args)
  BY <1>2, <1>13 DEF CallItem
<1>17. parts \in Seq(Pairs)
  <2> DEFINE m == b[j].args + 1
             z == <<"args", m>>
  <2>1. m \in Nat
    BY <1>22
  <2> HIDE DEF m
  <2>2. z \in Pairs
    BY <2>1 DEF Pairs, Words
  <2> HIDE DEF z
  <2>3. <<z>> \in Seq(Pairs) /\ <<>> \in Seq(Pairs)
    BY <2>2
  <2> QED  BY <2>3 DEF Counted, z, m
<1> HIDE DEF p, x
<1>18. parts = GrownParts(x, p)
  <2>1. "args" \in Words
    BY DEF Words
  <2>2. (IF x.parts = <<>> THEN <<<<"args", 1>>>> ELSE GrowLast(x.parts)) = parts
    BY <1>16, <1>22, <2>1, CountedGrows
  <2> QED  BY <1>5, <2>2 DEF GrownParts
<1>19. DeltaFits(x, 0, p)
  BY <1>5, <1>16 DEF DeltaFits
<1> HIDE DEF parts, i, t, b
<1>20. w = Item("delta", i - 1, 0, p, <<>>)
  BY <1>14 DEF w, p
<1>21. Grew(u, i, p, parts, t)
  BY <1>1, <1>5, <1>9, <1>14, <1>17, <1>18, <1>19, <1>20, GrewView DEF x
<1>23. /\ t \in Views /\ Len(t.items) = Len(u.items)
       /\ t.items[i] = [x EXCEPT !.parts = parts]
       /\ \A m \in 1..Len(u.items) : m # i => t.items[m] = u.items[m]
       /\ t.phase = u.phase /\ t.got = Append(u.got, p) /\ t.ok = u.ok /\ t.done = u.done
       /\ t.signatures = u.signatures /\ (t.late <=> u.late \/ ~x.open)
  BY <1>21 DEF Grew, x
<1>24. CallMore(u.items, i, t.items, j, b[j].args + 1)
  <2>1. t.items[i].what = x.what /\ t.items[i].open = x.open /\ t.items[i].part = x.part /\ t.items[i].parts = parts
    BY <1>15, <1>23 DEF Items
  <2> QED  BY <1>23, <2>1 DEF CallMore, parts, x
<1>25. Past(r.item, c, t.items) /\ CallsFit(r.item, c, t.items)
  <2>1. i = b[j].at + 1
    BY DEF i
  <2>2. b \in Seq(Calls)
    BY <1>2 DEF b
  <2> QED  BY <1>2, <1>11, <1>12, <1>24, <1>33, <2>1, <2>2, CallsLonger
<1>26. r.message \/ r.reasoning => t.items[r.item + 1] = u.items[r.item + 1]
  <2>1. r.item + 1 # i
    BY <1>2, <1>14
  <2>2. r.message \/ r.reasoning => r.item + 1 \in 1..Len(u.items)
    BY <1>2, <1>12
  <2> QED  BY <1>23, <2>1, <2>2
<1>27. Layout(q, t)
  <2>1. MessageFits(q, t.items)
    <3>1. CASE r.message
      <4>1. MessageItem(r, u.items[r.item + 1])
        BY <1>12, <3>1 DEF MessageFits
      <4> DEFINE y == u.items[r.item + 1]
      <4>2. MessageItem(r, y) /\ y = t.items[r.item + 1]
        BY <1>26, <3>1, <4>1
      <4> HIDE DEF y
      <4>3. \A a : Accumulated(q, a) = Accumulated(r, a)
        BY <1>4, <1>10 DEF Accumulated
      <4>4. MessageItem(q, y)
        BY <1>4, <1>10, <4>2, <4>3 DEF MessageItem
      <4>5. MessageItem(q, t.items[r.item + 1])
        BY <4>2, <4>4
      <4> QED  BY <1>4, <1>10, <3>1, <4>5 DEF MessageFits
    <3>2. CASE ~r.message
      BY <1>4, <1>10, <1>12, <3>2 DEF MessageFits
    <3> QED  BY <3>1, <3>2
  <2>2. ReasoningFits(q, t.items)
    <3>1. CASE r.reasoning
      BY <1>4, <1>10, <1>12, <1>26, <3>1 DEF ReasoningFits, ReasoningItem
    <3>2. CASE ~r.reasoning
      BY <1>4, <1>10, <1>12, <3>2 DEF ReasoningFits
    <3> QED  BY <3>1, <3>2
  <2> QED  BY <1>4, <1>10, <1>12, <1>23, <1>25, <2>1, <2>2 DEF Layout
<1>28. Steady(r, u, q, t)
  BY <1>4, <1>10, <1>23 DEF Steady
<1>29. \A m \in 1..Len(r.calls) : q.calls[m].open = r.calls[m].open
  BY <1>4, <1>10, <1>33 DEF ArgsMore, b
<1>30. t.late => u.late \/ ~r.calls[n + 1].open
  BY <1>16, <1>23 DEF b, j
<1>31. Len(q.calls) = Len(r.calls)
  BY <1>4, <1>10, <1>34 DEF b
<1> QED  BY <1>4, <1>9, <1>10, <1>23, <1>27, <1>28, <1>29, <1>30, <1>31 DEF ArgsGiven, Gains, Well, u, t, q, p

LEMMA KeptSteady ==
  ASSUME NEW r, NEW q, NEW v, Kept(r, q, v)
  PROVE  Steady(r, ResponsesSeen(r, v), q, ResponsesSeen(q, v))
  BY DEF Kept, Keeps, Steady

ReasoningEnsured(r, q, v) == Well(q, v) /\ Kept(r, q, v) /\ q.reasoning

LEMMA EnsuresReasoning ==
  ASSUME NEW r, NEW v, Well(r, v), ResponsesSeen(r, v).phase = "open"
  PROVE  ReasoningEnsured(r, EnsureReasoning(r), v)
<1>1. CASE r.reasoning
  <2>1. EnsureReasoning(r) = r /\ r \in ResponsesEncoders
    BY <1>1 DEF EnsureReasoning, Well
  <2> QED  BY <1>1, <2>1, KeptSame DEF ReasoningEnsured
<1>2. CASE ~r.reasoning
  <2> DEFINE a == CloseOutputItem(r)
             q == OpenReasoning(a)
  <2>1. OutputShut(r, a, v)
    BY OutputClosed
  <2>2. Well(a, v) /\ Kept(r, a, v) /\ ~a.message /\ ~a.reasoning /\ ResponsesSeen(a, v).phase = "open"
    BY <2>1 DEF OutputShut, Kept, Keeps
  <2>3. EnsureReasoning(r) = q
    BY <1>2 DEF EnsureReasoning
  <2> HIDE DEF a
  <2>4. ReasoningOpens(a, q, v)
    BY <2>2, ReasoningOpened
  <2> HIDE DEF q
  <2>5. Well(q, v) /\ Kept(a, q, v) /\ q.reasoning
    BY <2>4 DEF ReasoningOpens
  <2>6. Kept(r, q, v)
    BY <2>2, <2>5, KeptOn
  <2> QED  BY <2>3, <2>5, <2>6 DEF ReasoningEnsured
<1> QED  BY <1>1, <1>2

CallAgain(r, q, v) == Well(q, v) /\ Kept(r, q, v) /\ ~q.message /\ ~q.reasoning /\ q.calls = r.calls

LEMMA CallBegun ==
  ASSUME NEW r, NEW v, Well(r, v), ResponsesSeen(r, v).phase # "failed"
  PROVE  CallAgain(r, CloseReasoningItem(CloseMessageItem(r)), v)
<1> DEFINE a == CloseMessageItem(r)
           b == CloseReasoningItem(a)
<1>1. MessageShut(r, a, v)
  BY MessageClosed
<1>2. Well(a, v) /\ Kept(r, a, v) /\ ~a.message /\ a.calls = r.calls /\ ResponsesSeen(a, v).phase # "failed"
  BY <1>1 DEF MessageShut, Kept, Keeps
<1> HIDE DEF a
<1>3. ReasoningShut(a, b, v)
  BY <1>2, ReasoningClosed
<1> HIDE DEF b
<1>4. Well(b, v) /\ Kept(a, b, v) /\ ~b.reasoning /\ ~b.message /\ b.calls = r.calls
  BY <1>2, <1>3 DEF ReasoningShut
<1>5. Kept(r, b, v)
  BY <1>2, <1>4, KeptOn
<1> QED  BY <1>4, <1>5 DEF CallAgain, a, b

LEMMA CallResumed ==
  ASSUME NEW r, NEW v, Well(r, v), ResponsesSeen(r, v).phase = "open", NEW n \in Nat, n < Len(r.calls)
  PROVE  CallAgain(r, HandleToolCall(r, n), v)
<1> DEFINE b == CloseReasoningItem(CloseMessageItem(r))
<1>1. CallAgain(r, b, v)
  BY CallBegun
<1>2. HandleToolCall(r, n) = StartCall(b, n)
  BY DEF HandleToolCall
<1> HIDE DEF b
<1>3. StartCall(b, n) = b
  BY <1>1 DEF StartCall, CallAgain
<1> QED  BY <1>1, <1>2, <1>3

LEMMA CallStarted ==
  ASSUME NEW r, NEW v, Well(r, v), ResponsesSeen(r, v).phase = "open", NEW n, n = Len(r.calls)
  PROVE  CallOpens(r, n, HandleToolCall(r, n), v)
<1> DEFINE b == CloseReasoningItem(CloseMessageItem(r))
           c == CloseContentPart(b)
           d == CloseOutputItem(c)
           q == OpenCall(d, n)
<1>1. CallAgain(r, b, v)
  BY CallBegun
<1>2. Well(b, v) /\ Kept(r, b, v) /\ Len(b.calls) = n /\ ResponsesSeen(b, v).phase = "open"
  BY <1>1 DEF CallAgain, Kept, Keeps
<1>3. n \in Nat
  BY <1>2 DEF Well, ResponsesEncoders
<1>4. HandleToolCall(r, n) = q
  <2>1. HandleToolCall(r, n) = StartCall(b, n)
    BY DEF HandleToolCall
  <2> HIDE DEF b
  <2>2. ~(n < Len(b.calls))
    BY <1>2, <1>3
  <2> QED  BY <2>1, <2>2 DEF StartCall
<1> HIDE DEF b
<1>5. PartShut(b, c, v)
  BY <1>2, PartClosed
<1>6. Well(c, v) /\ Kept(b, c, v) /\ ResponsesSeen(c, v).phase = "open"
  BY <1>2, <1>5 DEF PartShut, Kept, Keeps
<1> HIDE DEF c
<1>7. OutputShut(c, d, v)
  BY <1>6, OutputClosed
<1>8. Well(d, v) /\ Kept(c, d, v) /\ ~d.message /\ ~d.reasoning /\ NoneOpen(d.calls)
      /\ ResponsesSeen(d, v).phase = "open"
  BY <1>6, <1>7 DEF OutputShut, Kept, Keeps
<1> HIDE DEF d
<1>9. Kept(r, c, v)
  BY <1>2, <1>6, KeptOn
<1>10. Kept(r, d, v)
  BY <1>8, <1>9, KeptOn
<1>11. n = Len(d.calls)
  BY <1>10 DEF Kept, Keeps
<1>12. CallOpens(d, n, q, v)
  BY <1>8, <1>11, CallOpened
<1> HIDE DEF q
<1>13. Keeps(r, ResponsesSeen(r, v), d, ResponsesSeen(d, v))
  BY <1>10 DEF Kept
<1>14. CallOpens(r, n, q, v)
  BY <1>12, <1>13 DEF CallOpens, Keeps, Steady
<1> QED  BY <1>4, <1>14

\* Where the response is, as its fields and the client tell it.
ResponsesMarks(r, u, a, k) ==
  /\ u.ok \/ a.bare
  /\ u.late => a.strayed
  /\ r.created = a.begun /\ r.finished = a.finished /\ r.completed = a.usage
  /\ r.completed => r.finished
  /\ a.finished => a.begun \/ a.bare
  /\ u.phase = IF r.completed THEN "ended" ELSE IF r.created THEN "open" ELSE "new"
  /\ u.signatures + r.signatures = a.signed
  /\ u.got = Pieces(a.got, k)
  /\ r.reasoning \/ r.signatures = 0
  /\ r.finished => ~r.message /\ ~r.reasoning /\ NoneOpen(r.calls)
  /\ Len(r.calls) = a.told
  /\ a.hot => a.told > 0 /\ r.calls[a.told].open

ResponsesCoupled(r, u, a, k) ==
  IF a.failed THEN r.completed /\ u.phase = "failed" /\ (u.ok \/ a.bare) /\ (u.late => a.strayed)
  ELSE Layout(r, u) /\ ResponsesMarks(r, u, a, k)

\* A Responses encoder, the client and the answer (inbound/openai/response.go).
ResponsesTied(r, v, a, k) ==
  r \in ResponsesEncoders /\ ResponsesSeen(r, v) \in Views /\ ResponsesCoupled(r, ResponsesSeen(r, v), a, k)

\* The pieces a Responses client has room for.
ResponsesKinds(k) ==
  /\ "text" \in k /\ "refusal" \in k /\ "thinking" \in k /\ "call" \in k
  /\ "signature" \notin k /\ "redacted" \notin k
Suits(e, k) == (e.kind = "toolargs" => "args" \in k) /\ (e.kind = "tooldelta" => "args" \notin k)

\* The answer is as far as it was but for its pieces and calls.
SameAnswer(a, b) ==
  /\ b.begun = a.begun /\ b.finished = a.finished /\ b.usage = a.usage /\ b.bare = a.bare /\ b.signed = a.signed
  /\ b.failed = a.failed

LEMMA MarksOn ==
  ASSUME NEW r, NEW u, NEW a, NEW k, NEW q, NEW t, NEW b,
         ResponsesMarks(r, u, a, k), Steady(r, u, q, t), ~r.finished, SameAnswer(a, b),
         t.got = Pieces(b.got, k), t.late => b.strayed, Len(q.calls) = b.told,
         b.hot => b.told > 0 /\ q.calls[b.told].open
  PROVE  ResponsesMarks(q, t, b, k)
<1>1. /\ q.created = b.begun /\ q.finished = b.finished /\ q.completed = b.usage /\ ~q.finished /\ ~q.completed
      /\ t.phase = u.phase /\ t.ok = u.ok /\ q.completed = r.completed /\ q.created = r.created
  BY DEF ResponsesMarks, Steady, SameAnswer
<1>2. t.signatures + q.signatures = b.signed
  BY DEF ResponsesMarks, Steady, SameAnswer
<1>3. q.reasoning \/ q.signatures = 0
  BY DEF ResponsesMarks, Steady
<1>4. t.ok \/ b.bare
  BY DEF ResponsesMarks, Steady, SameAnswer
<1>5. t.phase = IF q.completed THEN "ended" ELSE IF q.created THEN "open" ELSE "new"
  BY <1>1 DEF ResponsesMarks
<1>6. b.finished => b.begun \/ b.bare
  BY DEF ResponsesMarks, SameAnswer
<1> QED  BY <1>1, <1>2, <1>3, <1>4, <1>5, <1>6 DEF ResponsesMarks

\* What is known before an event of an answer that has begun and goes on.
Going(r, v, a, k) ==
  /\ Well(r, v) /\ ResponsesSeen(r, v).phase = "open" /\ ~r.finished
  /\ ResponsesMarks(r, ResponsesSeen(r, v), a, k)

LEMMA IsGoing ==
  ASSUME NEW r, NEW v, NEW a, NEW k, ResponsesTied(r, v, a, k), a.begun, ~a.finished, ~a.failed
  PROVE  Going(r, v, a, k)
<1> DEFINE u == ResponsesSeen(r, v)
<1>1. r \in ResponsesEncoders /\ u \in Views /\ Layout(r, u) /\ ResponsesMarks(r, u, a, k)
  BY DEF ResponsesTied, ResponsesCoupled
<1> HIDE DEF u
<1>2. u.phase = "open" /\ ~r.finished
  BY <1>1 DEF ResponsesMarks
<1> QED  BY <1>1, <1>2 DEF Going, Well, u

LEMMA GoesOn ==
  ASSUME NEW q, NEW v, NEW b, NEW k, Well(q, v), ~b.failed, ResponsesMarks(q, ResponsesSeen(q, v), b, k)
  PROVE  ResponsesTied(q, v, b, k)
  BY DEF Well, ResponsesTied, ResponsesCoupled

\* A piece of content is shown.
LEMMA PieceMore ==
  ASSUME NEW a \in Answers, NEW p \in Pairs, NEW k
  PROVE  Pieces(Append(a.got, p), k) = IF p[1] \in k THEN Append(Pieces(a.got, k), p) ELSE Pieces(a.got, k)
<1>1. a.got \in Seq(Pairs)
  BY DEF Answers
<1> QED  BY ZenonT(60), <1>1, PiecesAppend

LEMMA AfterContent ==
  ASSUME NEW a \in Answers, NEW e \in Occurrences, e.kind \in Contents, e.kind # "signature"
  PROVE  /\ SameAnswer(a, After(a, e)) /\ ~After(a, e).hot /\ After(a, e).told = a.told
         /\ After(a, e).strayed = a.strayed /\ After(a, e).got = Append(a.got, <<e.kind, 0>>)
         /\ <<e.kind, 0>> \in Pairs /\ <<e.kind, 0>>[1] = e.kind
<1> DEFINE got == Append(a.got, <<e.kind, 0>>)
           b == After(a, e)
<1>1. b = [a EXCEPT !.got = got, !.hot = FALSE, !.signed = IF e.kind = "signature" THEN a.signed + 1 ELSE a.signed]
  BY DEF After, Contents
<1> HIDE DEF b, got
<1>2. b = [a EXCEPT !.got = got, !.hot = FALSE]
  BY <1>1 DEF Answers
<1>3. /\ b.begun = a.begun /\ b.finished = a.finished /\ b.usage = a.usage /\ b.bare = a.bare /\ b.signed = a.signed
      /\ b.failed = a.failed /\ b.hot = FALSE /\ b.told = a.told /\ b.strayed = a.strayed /\ b.got = got
  BY <1>2 DEF Answers
<1>4. <<e.kind, 0>> \in Pairs /\ <<e.kind, 0>>[1] = e.kind
  BY DEF Pairs, Words, Contents
<1> QED  BY <1>3, <1>4 DEF SameAnswer, b, got

LEMMA ResponsesText ==
  ASSUME NEW r, NEW v, NEW a \in Answers, NEW k, ResponsesTied(r, v, a, k), ResponsesKinds(k), Settled(a), a.legal,
         NEW e \in Occurrences, Allowed(a, e), ~a.failed, e.kind \in {"text", "refusal"}
  PROVE  ResponsesTied(EncodeResponses(r, e), v, After(a, e), k)
<1> DEFINE u == ResponsesSeen(r, v)
           b == After(a, e)
           p == <<e.kind, 0>>
           what == e.kind
           q == EncodeResponses(r, e)
           t == ResponsesSeen(q, v)
<1>1. a.begun /\ ~a.finished
  BY DEF Allowed, Contents
<1>2. Going(r, v, a, k)
  BY <1>1, IsGoing
<1>3. Well(r, v) /\ u.phase = "open" /\ ~r.finished /\ ResponsesMarks(r, u, a, k)
  BY <1>2 DEF Going
<1>4. q = HandleContent(r, what)
  BY DEF EncodeResponses
<1> HIDE DEF q, what
<1>5. ContentHandled(r, what, q, v)
  BY <1>3, <1>4, HandlesContent DEF what
<1>6. Gains(r, q, v, p) /\ t.late = u.late
  BY <1>5 DEF ContentHandled, what
<1>7. /\ SameAnswer(a, b) /\ ~b.hot /\ b.told = a.told /\ b.strayed = a.strayed /\ b.got = Append(a.got, p)
      /\ p \in Pairs /\ p[1] = e.kind
  BY AfterContent DEF Contents
<1>8. e.kind \in k
  BY DEF ResponsesKinds
<1> HIDE DEF b, p, t, u
<1>9. Pieces(b.got, k) = Append(Pieces(a.got, k), p)
  BY <1>7, <1>8, PieceMore
<1>10. Well(q, v) /\ Steady(r, u, q, t) /\ t.got = Append(u.got, p) /\ Len(q.calls) = Len(r.calls)
  BY <1>6 DEF Gains, u, t
<1>11. u.got = Pieces(a.got, k) /\ (u.late => a.strayed) /\ Len(r.calls) = a.told
  BY <1>3 DEF ResponsesMarks
<1>12. ResponsesMarks(q, t, b, k)
  BY <1>3, <1>6, <1>7, <1>9, <1>10, <1>11, MarksOn
<1>13. ~b.failed
  BY <1>7 DEF SameAnswer
<1> QED  BY <1>10, <1>12, <1>13, GoesOn DEF q, b, t

LEMMA ResponsesThinking ==
  ASSUME NEW r, NEW v, NEW a \in Answers, NEW k, ResponsesTied(r, v, a, k), ResponsesKinds(k), Settled(a), a.legal,
         NEW e \in Occurrences, Allowed(a, e), ~a.failed, e.kind = "thinking"
  PROVE  ResponsesTied(EncodeResponses(r, e), v, After(a, e), k)
<1> DEFINE u == ResponsesSeen(r, v)
           b == After(a, e)
           p == <<"thinking", 0>>
           m == EnsureReasoning(r)
           q == EncodeResponses(r, e)
           t == ResponsesSeen(q, v)
<1>1. a.begun /\ ~a.finished
  BY DEF Allowed, Contents
<1>2. Going(r, v, a, k)
  BY <1>1, IsGoing
<1>3. Well(r, v) /\ u.phase = "open" /\ ~r.finished /\ ResponsesMarks(r, u, a, k)
  BY <1>2 DEF Going
<1>4. q = HandleReasoning(m)
  BY DEF EncodeResponses
<1>5. ReasoningEnsured(r, m, v)
  BY <1>3, EnsuresReasoning
<1> HIDE DEF q, m
<1>6. Well(m, v) /\ Kept(r, m, v) /\ m.reasoning /\ ResponsesSeen(m, v).phase = "open"
      /\ ResponsesSeen(m, v).late = u.late
  BY <1>3, <1>5 DEF ReasoningEnsured, Kept, Keeps
<1>66. Gains(m, q, v, p) /\ t.late = ResponsesSeen(m, v).late
  BY <1>4, <1>6, ThinkingGrown
<1>7. /\ SameAnswer(a, b) /\ ~b.hot /\ b.told = a.told /\ b.strayed = a.strayed /\ b.got = Append(a.got, p)
      /\ p \in Pairs /\ p[1] = "thinking"
  BY AfterContent DEF Contents
<1> HIDE DEF b, p, t, u
<1>67. Gains(r, q, v, p) /\ t.late = u.late
  BY <1>6, <1>66, KeepsSteady
<1>8. "thinking" \in k
  BY DEF ResponsesKinds
<1>9. Pieces(b.got, k) = Append(Pieces(a.got, k), p)
  BY ZenonT(60), <1>7, <1>8, PieceMore
<1>10. Well(q, v) /\ Steady(r, u, q, t) /\ t.got = Append(u.got, p) /\ Len(q.calls) = Len(r.calls)
  BY <1>67 DEF Gains, u, t
<1>11. u.got = Pieces(a.got, k) /\ (u.late => a.strayed) /\ Len(r.calls) = a.told
  BY <1>3 DEF ResponsesMarks
<1>12. ResponsesMarks(q, t, b, k)
  BY <1>3, <1>67, <1>7, <1>9, <1>10, <1>11, MarksOn
<1>13. ~b.failed
  BY <1>7 DEF SameAnswer
<1> QED  BY <1>10, <1>12, <1>13, GoesOn DEF q, b, t

LEMMA ResponsesRedacted ==
  ASSUME NEW r, NEW v, NEW a \in Answers, NEW k, ResponsesTied(r, v, a, k), ResponsesKinds(k), Settled(a), a.legal,
         NEW e \in Occurrences, Allowed(a, e), ~a.failed, e.kind = "redacted"
  PROVE  ResponsesTied(EncodeResponses(r, e), v, After(a, e), k)
<1> DEFINE u == ResponsesSeen(r, v)
           b == After(a, e)
           p == <<"redacted", 0>>
           q == EncodeResponses(r, e)
           t == ResponsesSeen(q, v)
<1>1. a.begun /\ ~a.finished
  BY DEF Allowed, Contents
<1>2. Going(r, v, a, k)
  BY <1>1, IsGoing
<1>3. Well(r, v) /\ u.phase = "open" /\ ~r.finished /\ ResponsesMarks(r, u, a, k)
  BY <1>2 DEF Going
<1>4. q = EnsureReasoning(r)
  BY DEF EncodeResponses
<1> HIDE DEF q
<1>5. ReasoningEnsured(r, q, v)
  BY <1>3, <1>4, EnsuresReasoning
<1>6. Well(q, v) /\ Kept(r, q, v)
  BY <1>5 DEF ReasoningEnsured
<1>7. /\ SameAnswer(a, b) /\ ~b.hot /\ b.told = a.told /\ b.strayed = a.strayed /\ b.got = Append(a.got, p)
      /\ p \in Pairs /\ p[1] = "redacted"
  BY AfterContent DEF Contents
<1> HIDE DEF b, p, t, u
<1>8. Pieces(b.got, k) = Pieces(a.got, k)
  BY <1>7, PieceMore DEF ResponsesKinds
<1>9. Steady(r, u, q, t) /\ t.got = u.got /\ Len(q.calls) = Len(r.calls) /\ t.late = u.late
  <2>1. Steady(r, u, q, t)
    BY <1>6, KeptSteady DEF u, t
  <2> QED  BY <1>6, <2>1 DEF Kept, Keeps, u, t
<1>11. u.got = Pieces(a.got, k) /\ (u.late => a.strayed) /\ Len(r.calls) = a.told
  BY <1>3 DEF ResponsesMarks
<1>12. ResponsesMarks(q, t, b, k)
  BY <1>3, <1>7, <1>8, <1>9, <1>11, MarksOn
<1>13. ~b.failed
  BY <1>7 DEF SameAnswer
<1> QED  BY <1>6, <1>12, <1>13, GoesOn DEF q, b, t

LEMMA ResponsesSignature ==
  ASSUME NEW r, NEW v, NEW a \in Answers, NEW k, ResponsesTied(r, v, a, k), ResponsesKinds(k), Settled(a), a.legal,
         NEW e \in Occurrences, Allowed(a, e), ~a.failed, e.kind = "signature"
  PROVE  ResponsesTied(EncodeResponses(r, e), v, After(a, e), k)
<1> DEFINE u == ResponsesSeen(r, v)
           b == After(a, e)
           p == <<"signature", 0>>
           n == r.signatures + 1
           m == [r EXCEPT !.signatures = n]
           q == EncodeResponses(r, e)
           t == ResponsesSeen(q, v)
<1>1. a.begun /\ ~a.finished
  BY DEF Allowed, Contents
<1>2. Going(r, v, a, k)
  BY <1>1, IsGoing
<1>3. Well(r, v) /\ u.phase = "open" /\ ~r.finished /\ ResponsesMarks(r, u, a, k)
  BY <1>2 DEF Going
<1>33. r \in ResponsesEncoders /\ u \in Views /\ Layout(r, u)
  BY <1>3 DEF Well
<1>4. q = EnsureReasoning(m)
  BY DEF EncodeResponses
<1>34. n \in Nat /\ n = r.signatures + 1
  BY <1>33 DEF ResponsesEncoders
<1> HIDE DEF q, n, u
<1>5. /\ m \in ResponsesEncoders /\ m.out = r.out /\ m.created = r.created /\ m.finished = r.finished
      /\ m.completed = r.completed /\ m.why = r.why /\ m.message = r.message /\ m.reasoning = r.reasoning
      /\ m.calls = r.calls
      /\ m.item = r.item /\ m.part = r.part /\ m.content = r.content /\ m.order = r.order /\ m.text = r.text
      /\ m.refusal = r.refusal /\ m.thinking = r.thinking /\ m.signatures = n /\ m.echo = r.echo
  BY <1>33, <1>34 DEF ResponsesEncoders
<1> HIDE DEF m
<1>6. ResponsesSeen(m, v) = u
  BY <1>5 DEF ResponsesSeen, u
<1>7. Well(m, v)
  <2>1. MessageFits(r, u.items) /\ ReasoningFits(r, u.items) /\ r.echo = u.done
       /\ Past(r.item, r.calls, u.items) /\ CallsFit(r.item, r.calls, u.items) /\ ~(r.message /\ r.reasoning)
       /\ Len(u.items) = IF r.message \/ r.reasoning THEN r.item + 1 ELSE r.item
    BY <1>33 DEF Layout
  <2>2. MessageFits(m, u.items)
    <3>1. \A x : Accumulated(m, x) = Accumulated(r, x)
      BY <1>5 DEF Accumulated
    <3>2. CASE r.message
      <4> DEFINE x == u.items[r.item + 1]
      <4>1. MessageItem(r, x)
        BY <2>1, <3>2 DEF MessageFits
      <4> HIDE DEF x
      <4>2. MessageItem(m, x)
        BY <1>5, <3>1, <4>1 DEF MessageItem
      <4> QED  BY <1>5, <3>2, <4>2 DEF MessageFits, x
    <3>3. CASE ~r.message
      BY <1>5, <2>1, <3>3 DEF MessageFits
    <3> QED  BY <3>2, <3>3
  <2>3. ReasoningFits(m, u.items)
    BY <1>5, <2>1 DEF ReasoningFits, ReasoningItem
  <2>4. Layout(m, u)
    BY <1>5, <2>1, <2>2, <2>3 DEF Layout
  <2> QED  BY <1>5, <1>6, <1>33, <2>4 DEF Well
<1>8. ReasoningEnsured(m, q, v)
  BY <1>3, <1>4, <1>6, <1>7, EnsuresReasoning
<1>9. Well(q, v) /\ Kept(m, q, v) /\ q.reasoning
  BY <1>8 DEF ReasoningEnsured
<1>10. /\ b.begun = a.begun /\ b.finished = a.finished /\ b.usage = a.usage /\ b.bare = a.bare
       /\ b.signed = a.signed + 1 /\ b.failed = a.failed /\ ~b.hot /\ b.told = a.told /\ b.strayed = a.strayed
       /\ Pieces(b.got, k) = Pieces(a.got, k)
  <2> DEFINE got == Append(a.got, p)
  <2>1. b = [a EXCEPT !.got = got, !.hot = FALSE, !.signed = a.signed + 1]
    BY DEF After, Contents
  <2>2. p \in Pairs /\ p[1] = "signature"
    BY DEF Pairs, Words
  <2> HIDE DEF b, p
  <2>3. Pieces(got, k) = Pieces(a.got, k)
    BY <2>2, PieceMore DEF ResponsesKinds
  <2> HIDE DEF got
  <2> QED  BY <2>1, <2>3 DEF Answers
<1> HIDE DEF b, t, p
<1>11. /\ q.created = r.created /\ q.finished = r.finished /\ q.completed = r.completed
       /\ t.phase = u.phase /\ t.got = u.got /\ t.late = u.late /\ t.ok = u.ok
       /\ t.signatures + q.signatures = u.signatures + m.signatures /\ Len(q.calls) = Len(r.calls)
  BY <1>5, <1>6, <1>9 DEF Kept, Keeps, t
<1>12. u.signatures + r.signatures = a.signed
  BY <1>3 DEF ResponsesMarks
<1>13. t.signatures + q.signatures = b.signed
  <2>1. u.signatures \in Nat /\ r.signatures \in Nat
    BY <1>33 DEF Views, ResponsesEncoders
  <2> QED  BY <1>5, <1>10, <1>11, <1>12, <1>34, <2>1
<1>14. ResponsesMarks(q, t, b, k)
  BY <1>3, <1>9, <1>10, <1>11, <1>13 DEF ResponsesMarks
<1>15. ~b.failed
  BY <1>10
<1> QED  BY <1>9, <1>14, <1>15, GoesOn DEF q, b, t

(* ---- a Responses client: a call's events ---- *)

AfterCallStarts(a, e, b) ==
  /\ SameAnswer(a, b) /\ b.strayed = a.strayed
  /\ IF e.tool = a.told
     THEN b.got = Append(a.got, <<"call", e.tool>>) /\ b.told = a.told + 1
     ELSE b = a

LEMMA AfterToolStart ==
  ASSUME NEW a \in Answers, NEW e \in Occurrences, e.kind = "toolstart"
  PROVE  AfterCallStarts(a, e, After(a, e))
<1> DEFINE got == Append(a.got, <<"call", e.tool>>)
           n == a.told + 1
           b == After(a, e)
<1>1. b = IF e.tool = a.told THEN [a EXCEPT !.got = got, !.told = n, !.hot = TRUE] ELSE a
  BY DEF After, Contents
<1> HIDE DEF b, got, n
<1>2. CASE e.tool = a.told
  <2>1. b = [a EXCEPT !.got = got, !.told = n, !.hot = TRUE]
    BY <1>1, <1>2
  <2>2. /\ b.begun = a.begun /\ b.finished = a.finished /\ b.usage = a.usage /\ b.bare = a.bare /\ b.signed = a.signed
        /\ b.failed = a.failed /\ b.told = n /\ b.strayed = a.strayed /\ b.got = got
    BY <2>1 DEF Answers
  <2> QED  BY <1>2, <2>2 DEF AfterCallStarts, SameAnswer, b, got, n
<1>3. CASE e.tool # a.told
  <2>1. b = a
    BY <1>1, <1>3
  <2> QED  BY <1>3, <2>1 DEF AfterCallStarts, SameAnswer, b
<1> QED  BY <1>2, <1>3

LEMMA ResponsesToolStart ==
  ASSUME NEW r, NEW v, NEW a \in Answers, NEW k, ResponsesTied(r, v, a, k), ResponsesKinds(k), Settled(a), a.legal,
         NEW e \in Occurrences, Allowed(a, e), ~a.failed, e.kind = "toolstart"
  PROVE  ResponsesTied(EncodeResponses(r, e), v, After(a, e), k)
<1> DEFINE u == ResponsesSeen(r, v)
           b == After(a, e)
           n == e.tool
           p == <<"call", n>>
           q == EncodeResponses(r, e)
           t == ResponsesSeen(q, v)
<1>1. a.begun /\ ~a.finished /\ (n = a.told \/ (n + 1 = a.told /\ a.hot))
  BY DEF Allowed, Contents
<1>2. Going(r, v, a, k)
  BY <1>1, IsGoing
<1>3. Well(r, v) /\ u.phase = "open" /\ ~r.finished /\ ResponsesMarks(r, u, a, k)
  BY <1>2 DEF Going
<1>4. q = HandleToolCall(r, n)
  BY DEF EncodeResponses
<1>5. n \in Nat /\ a.told \in Nat
  BY DEF Occurrences, Answers
<1>6. AfterCallStarts(a, e, b)
  BY AfterToolStart
<1>7. u.got = Pieces(a.got, k) /\ (u.late => a.strayed) /\ Len(r.calls) = a.told
      /\ (a.hot => a.told > 0 /\ r.calls[a.told].open)
  BY <1>3 DEF ResponsesMarks
<1> HIDE DEF b, q, u, t, n
<1>8. CASE n = a.told
  <2>1. CallOpens(r, n, q, v)
    BY <1>3, <1>4, <1>7, <1>8, CallStarted DEF u
  <2>2. /\ Well(q, v) /\ Steady(r, u, q, t) /\ t.got = Append(u.got, p) /\ t.late = u.late
        /\ Len(q.calls) = n + 1 /\ q.calls[n + 1].open
    BY <2>1 DEF CallOpens, u, t
  <2>3. SameAnswer(a, b) /\ b.strayed = a.strayed /\ b.got = Append(a.got, p) /\ b.told = n + 1
    BY <1>6, <1>8 DEF AfterCallStarts, n
  <2>4. p \in Pairs /\ p[1] = "call"
    BY <1>5 DEF Pairs, Words
  <2> HIDE DEF p
  <2>5. Pieces(b.got, k) = Append(Pieces(a.got, k), p)
    BY ZenonT(60), <2>3, <2>4, PieceMore DEF ResponsesKinds
  <2>8. /\ t.got = Pieces(b.got, k) /\ (t.late => b.strayed) /\ Len(q.calls) = b.told
        /\ b.told > 0 /\ q.calls[b.told].open
    BY <1>5, <1>7, <2>2, <2>3, <2>5
  <2>6. ResponsesMarks(q, t, b, k)
    BY <1>3, <2>2, <2>3, <2>8, MarksOn
  <2>7. ~b.failed
    BY <2>3 DEF SameAnswer
  <2> QED  BY <2>2, <2>6, <2>7, GoesOn DEF q, b, t
<1>9. CASE n # a.told
  <2>1. n + 1 = a.told /\ a.hot /\ n < Len(r.calls)
    BY <1>1, <1>5, <1>7, <1>9
  <2>2. CallAgain(r, q, v)
    BY <1>3, <1>4, <1>5, <2>1, CallResumed DEF u
  <2>3. Well(q, v) /\ Kept(r, q, v) /\ q.calls = r.calls
    BY <2>2 DEF CallAgain
  <2>4. SameAnswer(a, b) /\ b = a
    BY <1>6, <1>9 DEF AfterCallStarts, n
  <2>5. Steady(r, u, q, t) /\ t.got = u.got /\ t.late = u.late
    <3>1. Steady(r, u, q, t)
      BY <2>3, KeptSteady DEF u, t
    <3> QED  BY <2>3, <3>1 DEF Kept, Keeps, u, t
  <2>6. ResponsesMarks(q, t, b, k)
    BY <1>3, <1>7, <2>3, <2>4, <2>5, MarksOn
  <2>7. ~b.failed
    BY <2>4
  <2> QED  BY <2>3, <2>6, <2>7, GoesOn DEF q, b, t
<1> QED  BY <1>8, <1>9

AfterArgs(a, e, b) ==
  /\ SameAnswer(a, b) /\ b.told = a.told /\ b.got = Append(a.got, <<"args", e.tool>>) /\ b.hot = a.hot
  /\ b.strayed <=> a.strayed \/ ~(a.hot /\ e.tool + 1 = a.told)

LEMMA AfterArguments ==
  ASSUME NEW a \in Answers, NEW e \in Occurrences, e.kind \in {"toolargs", "tooldelta"}
  PROVE  AfterArgs(a, e, After(a, e))
<1> DEFINE got == Append(a.got, <<"args", e.tool>>)
           z == a.strayed \/ ~(a.hot /\ e.tool + 1 = a.told)
           b == After(a, e)
<1>1. b = [a EXCEPT !.got = got, !.strayed = z]
  BY DEF After, Contents
<1> HIDE DEF b, got, z
<1>2. /\ b.begun = a.begun /\ b.finished = a.finished /\ b.usage = a.usage /\ b.bare = a.bare /\ b.signed = a.signed
      /\ b.failed = a.failed /\ b.told = a.told /\ b.strayed = z /\ b.got = got /\ b.hot = a.hot
  BY <1>1 DEF Answers
<1> QED  BY <1>2 DEF AfterArgs, SameAnswer, b, got, z

\* A Responses provider's arguments open their call again, and are not passed on.
LEMMA ResponsesToolDelta ==
  ASSUME NEW r, NEW v, NEW a \in Answers, NEW k, ResponsesTied(r, v, a, k), ResponsesKinds(k), Settled(a), a.legal,
         NEW e \in Occurrences, Allowed(a, e), ~a.failed, e.kind = "tooldelta", Suits(e, k)
  PROVE  ResponsesTied(EncodeResponses(r, e), v, After(a, e), k)
<1> DEFINE u == ResponsesSeen(r, v)
           b == After(a, e)
           n == e.tool
           p == <<"args", n>>
           q == EncodeResponses(r, e)
           t == ResponsesSeen(q, v)
<1>1. a.begun /\ ~a.finished /\ n \in 0..(a.told - 1)
  BY DEF Allowed, Contents
<1>2. Going(r, v, a, k)
  BY <1>1, IsGoing
<1>3. Well(r, v) /\ u.phase = "open" /\ ~r.finished /\ ResponsesMarks(r, u, a, k)
  BY <1>2 DEF Going
<1>4. q = HandleToolCall(r, n)
  BY DEF EncodeResponses
<1>5. n \in Nat /\ a.told \in Nat
  BY DEF Occurrences, Answers
<1>6. AfterArgs(a, e, b)
  BY AfterArguments
<1>7. u.got = Pieces(a.got, k) /\ (u.late => a.strayed) /\ Len(r.calls) = a.told
      /\ (a.hot => a.told > 0 /\ r.calls[a.told].open)
  BY <1>3 DEF ResponsesMarks
<1> HIDE DEF b, q, u, t, n
<1>8. n < Len(r.calls)
  BY <1>1, <1>5, <1>7
<1>9. CallAgain(r, q, v)
  BY <1>3, <1>4, <1>5, <1>8, CallResumed DEF u
<1>10. Well(q, v) /\ Kept(r, q, v) /\ q.calls = r.calls
  BY <1>9 DEF CallAgain
<1>11. SameAnswer(a, b) /\ b.told = a.told /\ b.got = Append(a.got, p) /\ b.hot = a.hot /\ (a.strayed => b.strayed)
  BY <1>6 DEF AfterArgs, n
<1>12. p \in Pairs /\ p[1] = "args"
  BY <1>5 DEF Pairs, Words
<1> HIDE DEF p
<1>13. Pieces(b.got, k) = Pieces(a.got, k)
  BY <1>11, <1>12, PieceMore DEF Suits
<1>14. Steady(r, u, q, t) /\ t.got = u.got /\ t.late = u.late
  <2>1. Steady(r, u, q, t)
    BY <1>10, KeptSteady DEF u, t
  <2> QED  BY <1>10, <2>1 DEF Kept, Keeps, u, t
<1>15. ResponsesMarks(q, t, b, k)
  BY <1>3, <1>7, <1>10, <1>11, <1>13, <1>14, MarksOn
<1>16. ~b.failed
  BY <1>11 DEF SameAnswer
<1> QED  BY <1>10, <1>15, <1>16, GoesOn DEF q, b, t

LEMMA ResponsesToolArgs ==
  ASSUME NEW r, NEW v, NEW a \in Answers, NEW k, ResponsesTied(r, v, a, k), ResponsesKinds(k), Settled(a), a.legal,
         NEW e \in Occurrences, Allowed(a, e), ~a.failed, e.kind = "toolargs", Suits(e, k)
  PROVE  ResponsesTied(EncodeResponses(r, e), v, After(a, e), k)
<1> DEFINE u == ResponsesSeen(r, v)
           b == After(a, e)
           n == e.tool
           p == <<"args", n>>
           m == HandleToolCall(r, n)
           x == ResponsesSeen(m, v)
           q == EncodeResponses(r, e)
           t == ResponsesSeen(q, v)
<1>1. a.begun /\ ~a.finished /\ n \in 0..(a.told - 1)
  BY DEF Allowed, Contents
<1>2. Going(r, v, a, k)
  BY <1>1, IsGoing
<1>3. Well(r, v) /\ u.phase = "open" /\ ~r.finished /\ ResponsesMarks(r, u, a, k)
  BY <1>2 DEF Going
<1>4. q = CallDelta(m, n)
  BY DEF EncodeResponses
<1>5. n \in Nat /\ a.told \in Nat
  BY DEF Occurrences, Answers
<1>6. AfterArgs(a, e, b)
  BY AfterArguments
<1>7. u.got = Pieces(a.got, k) /\ (u.late => a.strayed) /\ Len(r.calls) = a.told
      /\ (a.hot => a.told > 0 /\ r.calls[a.told].open)
  BY <1>3 DEF ResponsesMarks
<1>17. m = HandleToolCall(r, n)
  OBVIOUS
<1> HIDE DEF b, q, u, t, n, m
<1>8. n < Len(r.calls)
  BY <1>1, <1>5, <1>7
<1>9. CallAgain(r, m, v)
  BY <1>3, <1>5, <1>8, <1>17, CallResumed DEF u
<1>10. Well(m, v) /\ Kept(r, m, v) /\ m.calls = r.calls
  BY <1>9 DEF CallAgain
<1>20. x.phase = "open" /\ x.late = u.late
  BY <1>3, <1>10 DEF Kept, Keeps, u
<1>21. ArgsGiven(m, n, q, v)
  BY <1>4, <1>5, <1>8, <1>10, <1>20, CallGrown
<1>11. SameAnswer(a, b) /\ b.told = a.told /\ b.got = Append(a.got, p) /\ b.hot = a.hot
       /\ (b.strayed <=> a.strayed \/ ~(a.hot /\ n + 1 = a.told))
  BY <1>6 DEF AfterArgs, n
<1>12. p \in Pairs /\ p[1] = "args"
  BY <1>5 DEF Pairs, Words
<1>22. Gains(m, q, v, p)
  BY <1>21 DEF ArgsGiven
<1>23. Gains(r, q, v, p)
  BY <1>10, <1>22, KeepsSteady
<1>26. "args" \in k
  BY DEF Suits
<1> HIDE DEF p
<1>13. Pieces(b.got, k) = Append(Pieces(a.got, k), p)
  <2>1. Pieces(Append(a.got, p), k) = IF p[1] \in k THEN Append(Pieces(a.got, k), p) ELSE Pieces(a.got, k)
    BY <1>12, PieceMore
  <2>2. p[1] \in k
    BY <1>12, <1>26
  <2> QED  BY <1>11, <2>1, <2>2
<1>14. Well(q, v) /\ Steady(r, u, q, t) /\ t.got = Append(u.got, p) /\ Len(q.calls) = Len(r.calls)
  BY <1>23 DEF Gains, u, t
<1>24. t.late => b.strayed
  <2>1. t.late => x.late \/ ~m.calls[n + 1].open
    BY <1>21 DEF ArgsGiven, t
  <2>2. ~r.calls[n + 1].open => ~(a.hot /\ n + 1 = a.told)
    BY <1>7
  <2> QED  BY <1>7, <1>10, <1>11, <1>20, <2>1, <2>2
<1>25. b.hot => b.told > 0 /\ q.calls[b.told].open
  <2> SUFFICES ASSUME a.hot PROVE a.told > 0 /\ q.calls[a.told].open
    BY <1>11
  <2>1. a.told \in 1..Len(m.calls) /\ m.calls[a.told].open
    BY <1>5, <1>7, <1>10
  <2>2. q.calls[a.told].open = m.calls[a.told].open
    BY <1>21, <2>1 DEF ArgsGiven
  <2> QED  BY <1>7, <2>1, <2>2
<1>15. ResponsesMarks(q, t, b, k)
  BY <1>3, <1>7, <1>11, <1>13, <1>14, <1>24, <1>25, MarksOn
<1>16. ~b.failed
  BY <1>11 DEF SameAnswer
<1> QED  BY <1>14, <1>15, <1>16, GoesOn DEF q, b, t

LEMMA ResponsesQuiet ==
  ASSUME NEW r, NEW v, NEW a \in Answers, NEW k, ResponsesTied(r, v, a, k), Settled(a), a.legal,
         NEW e \in Occurrences, Allowed(a, e), ~a.failed, e.kind \in {"blockstart", "blockstop", "toolstop", "done"}
  PROVE  ResponsesTied(EncodeResponses(r, e), v, After(a, e), k)
<1> DEFINE u == ResponsesSeen(r, v)
           b == After(a, e)
<1>1. EncodeResponses(r, e) = r
  BY DEF EncodeResponses
<1>2. /\ b.begun = a.begun /\ b.finished = a.finished /\ b.usage = a.usage /\ b.bare = a.bare /\ b.signed = a.signed
      /\ b.failed = a.failed /\ b.told = a.told /\ b.strayed = a.strayed /\ b.got = a.got /\ (b.hot => a.hot)
  BY DEF After, Contents, Answers
<1> HIDE DEF b
<1>3. r \in ResponsesEncoders /\ u \in Views /\ Layout(r, u) /\ ResponsesMarks(r, u, a, k)
  BY DEF ResponsesTied, ResponsesCoupled
<1>4. ResponsesMarks(r, u, b, k)
  BY <1>2, <1>3 DEF ResponsesMarks
<1> QED  BY <1>1, <1>2, <1>3, <1>4 DEF ResponsesTied, ResponsesCoupled, b

\* The encoder f is e but for its frame, and so it fits the same items.
SameLayout(e, f) ==
  /\ f.message = e.message /\ f.reasoning = e.reasoning /\ f.calls = e.calls /\ f.item = e.item /\ f.part = e.part
  /\ f.content = e.content /\ f.order = e.order /\ f.text = e.text /\ f.refusal = e.refusal
  /\ f.thinking = e.thinking /\ f.echo = e.echo

LEMMA LayoutSame ==
  ASSUME NEW r, NEW u, NEW q, NEW t, Layout(r, u), SameLayout(r, q), t.items = u.items, t.done = u.done
  PROVE  Layout(q, t)
<1>1. MessageFits(r, u.items) /\ ReasoningFits(r, u.items) /\ r.echo = u.done
      /\ Past(r.item, r.calls, u.items) /\ CallsFit(r.item, r.calls, u.items) /\ ~(r.message /\ r.reasoning)
      /\ Len(u.items) = IF r.message \/ r.reasoning THEN r.item + 1 ELSE r.item
  BY DEF Layout
<1>2. MessageFits(q, t.items)
  <2>1. \A x : Accumulated(q, x) = Accumulated(r, x)
    BY DEF Accumulated, SameLayout
  <2>2. CASE r.message
    <3> DEFINE x == u.items[r.item + 1]
    <3>1. MessageItem(r, x)
      BY <1>1, <2>2 DEF MessageFits
    <3>3. t.items[q.item + 1] = x /\ q.message
      BY <2>2 DEF SameLayout
    <3> HIDE DEF x
    <3>2. MessageItem(q, x)
      BY <2>1, <3>1 DEF MessageItem, SameLayout
    <3> QED  BY <3>2, <3>3 DEF MessageFits
  <2>3. CASE ~r.message
    BY <1>1, <2>3 DEF MessageFits, SameLayout
  <2> QED  BY <2>2, <2>3
<1>3. ReasoningFits(q, t.items)
  BY <1>1 DEF ReasoningFits, ReasoningItem, SameLayout
<1> QED  BY <1>1, <1>2, <1>3 DEF Layout, SameLayout

LEMMA ResponsesStart ==
  ASSUME NEW r, NEW v, NEW a \in Answers, NEW k, ResponsesTied(r, v, a, k), Settled(a), a.legal,
         NEW e \in Occurrences, Allowed(a, e), ~a.failed, e.kind = "start"
  PROVE  ResponsesTied(EncodeResponses(r, e), v, After(a, e), k)
<1> DEFINE u == ResponsesSeen(r, v)
           b == After(a, e)
           w == Item("created", 0, 0, NoPiece, <<>>)
           m == [r EXCEPT !.created = TRUE]
           q == EncodeResponses(r, e)
           t == ResponsesSeen(q, v)
<1>1. r \in ResponsesEncoders /\ u \in Views /\ Layout(r, u) /\ ResponsesMarks(r, u, a, k) /\ ~a.finished
  BY DEF ResponsesTied, ResponsesCoupled, Allowed, Contents
<1>2. /\ b.begun = TRUE /\ b.finished = a.finished /\ b.usage = a.usage /\ b.bare = a.bare /\ b.signed = a.signed
      /\ b.failed = a.failed /\ b.told = a.told /\ b.strayed = a.strayed /\ b.got = a.got /\ b.hot = a.hot
  BY DEF After, Contents, Answers
<1>3. q = IF r.created THEN r ELSE Emit(m, w)
  BY DEF EncodeResponses
<1> HIDE DEF b, q, u
<1>4. CASE r.created
  <2>1. q = r /\ a.begun = TRUE
    BY <1>1, <1>3, <1>4 DEF ResponsesMarks, ResponsesEncoders
  <2>2. ResponsesMarks(r, u, b, k)
    BY <1>1, <1>2, <2>1 DEF ResponsesMarks
  <2> QED  BY <1>1, <1>2, <2>1, <2>2 DEF ResponsesTied, ResponsesCoupled, u, q, b
<1>5. CASE ~r.created
  <2>1. /\ m \in ResponsesEncoders /\ m.out = r.out /\ m.created = TRUE /\ m.finished = r.finished
        /\ m.completed = r.completed /\ m.why = r.why /\ m.message = r.message /\ m.reasoning = r.reasoning
        /\ m.calls = r.calls
        /\ m.item = r.item /\ m.part = r.part /\ m.content = r.content /\ m.order = r.order /\ m.text = r.text
        /\ m.refusal = r.refusal /\ m.thinking = r.thinking /\ m.signatures = r.signatures /\ m.echo = r.echo
    BY <1>1 DEF ResponsesEncoders
  <2>2. w \in ItemWires
    <3>1. NoPiece \in Pairs
      BY DEF NoPiece, Pairs, Words
    <3> QED  BY <3>1, BareWire
  <2>3. u.phase = "new"
    BY <1>1, <1>5 DEF ResponsesMarks
  <2>4. ResponsesSeen(m, v) = u
    BY <2>1 DEF ResponsesSeen, u
  <2>5. q = Emit(m, w)
    BY <1>3, <1>5
  <2> HIDE DEF m
  <2>6. ReadResponses(u, w) = [u EXCEPT !.phase = "open"]
    BY <1>1, <2>3, ReadsCreated
  <2> HIDE DEF w
  <2>7. Adds(m, w, v, q)
    BY <2>1, <2>2, <2>5, EmitAdds
  <2> HIDE DEF t
  <2>8. q \in ResponsesEncoders /\ q = [m EXCEPT !.out = q.out] /\ t = [u EXCEPT !.phase = "open"]
    BY <2>4, <2>6, <2>7 DEF Adds, t
  <2>9. /\ q.created = TRUE /\ q.finished = r.finished /\ q.completed = r.completed
        /\ q.message = r.message /\ q.reasoning = r.reasoning /\ q.calls = r.calls
        /\ q.item = r.item /\ q.part = r.part /\ q.content = r.content /\ q.order = r.order /\ q.text = r.text
        /\ q.refusal = r.refusal /\ q.thinking = r.thinking /\ q.signatures = r.signatures /\ q.echo = r.echo
    BY ZenonT(60), <2>1, <2>8 DEF ResponsesEncoders
  <2>10. /\ t \in Views /\ t.phase = "open" /\ t.items = u.items /\ t.done = u.done /\ t.got = u.got
         /\ t.late = u.late /\ t.ok = u.ok /\ t.signatures = u.signatures
    BY <1>1, <2>8 DEF Views
  <2>11. SameLayout(r, q)
    BY <2>9 DEF SameLayout
  <2>12. Layout(q, t)
    BY <1>1, <2>10, <2>11, LayoutSame
  <2>13. ResponsesMarks(q, t, b, k)
    BY <1>1, <1>2, <2>9, <2>10 DEF ResponsesMarks
  <2>14. ~b.failed
    BY <1>2
  <2> QED  BY <2>8, <2>10, <2>12, <2>13, <2>14 DEF ResponsesTied, ResponsesCoupled, t, q, b
<1> QED  BY <1>4, <1>5

LEMMA ResponsesStop ==
  ASSUME NEW r, NEW v, NEW a \in Answers, NEW k, ResponsesTied(r, v, a, k), Settled(a), a.legal,
         NEW e \in Occurrences, Allowed(a, e), ~a.failed, e.kind = "stop"
  PROVE  ResponsesTied(EncodeResponses(r, e), v, After(a, e), k)
<1> DEFINE u == ResponsesSeen(r, v)
           b == After(a, e)
           why == e.why
           m == [r EXCEPT !.finished = TRUE, !.why = why]
           c == CloseContentPart(m)
           q == EncodeResponses(r, e)
           t == ResponsesSeen(q, v)
<1>1. r \in ResponsesEncoders /\ u \in Views /\ Layout(r, u) /\ ResponsesMarks(r, u, a, k) /\ ~a.finished
  BY DEF ResponsesTied, ResponsesCoupled, Allowed, Contents
<1>2. b = [a EXCEPT !.finished = TRUE, !.hot = FALSE, !.bare = a.bare \/ ~(a.begun \/ a.failed)]
  BY DEF After, Contents
<1>3. why \in {"none", "stop", "length", "safety"}
  BY DEF Occurrences
<1>4. ~r.finished /\ ~r.completed
  BY <1>1 DEF ResponsesMarks
<1>5. q = CloseOutputItem(c)
  BY <1>4 DEF EncodeResponses
<1> HIDE DEF b, q, u, why
<1>6. /\ b.begun = a.begun /\ b.finished = TRUE /\ b.usage = a.usage /\ (b.bare <=> a.bare \/ ~a.begun) /\ b.signed = a.signed
      /\ ~b.failed /\ b.told = a.told /\ b.strayed = a.strayed /\ b.got = a.got /\ ~b.hot
  BY <1>2 DEF Answers
<1>7. /\ m \in ResponsesEncoders /\ m.out = r.out /\ m.created = r.created /\ m.finished = TRUE
      /\ m.completed = r.completed /\ m.message = r.message /\ m.reasoning = r.reasoning
      /\ m.calls = r.calls
      /\ m.item = r.item /\ m.part = r.part /\ m.content = r.content /\ m.order = r.order /\ m.text = r.text
      /\ m.refusal = r.refusal /\ m.thinking = r.thinking /\ m.signatures = r.signatures /\ m.echo = r.echo
  BY <1>1, <1>3 DEF ResponsesEncoders
<1> HIDE DEF m
<1>8. ResponsesSeen(m, v) = u
  BY <1>7 DEF ResponsesSeen, u
<1>9. SameLayout(r, m)
  BY <1>7 DEF SameLayout
<1>10. Layout(m, u)
  BY <1>1, <1>9, LayoutSame
<1>11. u.phase # "failed"
  BY <1>1 DEF ResponsesMarks
<1>12. Well(m, v)
  BY <1>1, <1>7, <1>8, <1>10 DEF Well
<1>13. PartShut(m, c, v)
  BY <1>8, <1>11, <1>12, PartClosed
<1> HIDE DEF c
<1>14. Well(c, v) /\ Kept(m, c, v) /\ ResponsesSeen(c, v).phase # "failed"
  BY <1>8, <1>11, <1>13 DEF PartShut, Kept, Keeps
<1>15. OutputShut(c, q, v)
  BY <1>5, <1>14, OutputClosed
<1>16. Well(q, v) /\ Kept(c, q, v) /\ ~q.message /\ ~q.reasoning /\ NoneOpen(q.calls)
  BY <1>15 DEF OutputShut
<1>17. Kept(m, q, v)
  BY <1>14, <1>16, KeptOn
<1> HIDE DEF t
<1>18. /\ q.created = m.created /\ q.finished = m.finished /\ q.completed = m.completed
       /\ t.phase = u.phase /\ t.got = u.got /\ t.late = u.late /\ t.ok = u.ok
       /\ t.signatures + q.signatures = u.signatures + m.signatures
       /\ (m.reasoning \/ m.signatures = 0 => q.reasoning \/ q.signatures = 0)
       /\ Len(q.calls) = Len(m.calls)
  BY <1>8, <1>17 DEF Kept, Keeps, t
<1>19. ResponsesMarks(q, t, b, k)
  BY ZenonT(60), <1>1, <1>4, <1>6, <1>7, <1>16, <1>18 DEF ResponsesMarks
<1>20. ~b.failed
  BY <1>6
<1> QED  BY <1>16, <1>19, <1>20, GoesOn DEF q, b, t

\* The terminal event is in its place.
AllDone(u, content) ==
  u.ok /\ u.phase = "open" /\ content = u.done /\ \A i \in DOMAIN u.items : ~u.items[i].open

EndSeen(u, content, t) ==
  /\ t \in Views /\ t.phase = "ended" /\ t.items = u.items /\ t.done = u.done /\ t.got = u.got
  /\ t.late = u.late /\ t.signatures = u.signatures /\ (t.ok <=> AllDone(u, content))

LEMMA ReadsTheEnd ==
  ASSUME NEW u \in Views, u.phase # "failed", NEW p, NEW content
  PROVE  EndSeen(u, content, ReadResponses(u, Item("terminal", 0, 0, p, content)))
<1> DEFINE ok == AllDone(u, content)
           w == Item("terminal", 0, 0, p, content)
           t == ReadResponses(u, w)
<1>1. ok <=> u.ok /\ u.phase = "open" /\ content = u.done /\ \A i \in DOMAIN u.items : ~u.items[i].open
  BY DEF AllDone
<1>2. ok \in BOOLEAN
  BY DEF AllDone, Views
<1> HIDE DEF ok
<1>3. t = [u EXCEPT !.phase = "ended", !.ok = ok]
  <2>1. w.type = "terminal" /\ w.content = content
    BY DEF Item
  <2> HIDE DEF w
  <2>2. u.ok \in BOOLEAN
    BY DEF Views
  <2>3. (u.ok /\ (/\ u.phase = "open" /\ w.content = u.done /\ \A j \in DOMAIN u.items : ~u.items[j].open)) = ok
    BY <1>1, <1>2, <2>1, <2>2
  <2>4. Must(u, /\ u.phase = "open" /\ w.content = u.done /\ \A j \in DOMAIN u.items : ~u.items[j].open)
        = [u EXCEPT !.ok = ok]
    BY <2>3 DEF Must
  <2>5. t = [[u EXCEPT !.ok = ok] EXCEPT !.phase = "ended"]
    BY <2>1, <2>4 DEF ReadResponses
  <2> QED  BY <2>5 DEF Views
<1> HIDE DEF w, t
<1>4. /\ t \in Views /\ t.phase = "ended" /\ t.items = u.items /\ t.done = u.done /\ t.got = u.got
      /\ t.late = u.late /\ t.signatures = u.signatures /\ t.ok = ok
  BY <1>2, <1>3 DEF Views
<1> QED  BY <1>4 DEF EndSeen, ok, t, w

\* The usage: the terminal event, once the answer has finished.
LEMMA ResponsesUsage ==
  ASSUME NEW r, NEW v, NEW a \in Answers, NEW k, ResponsesTied(r, v, a, k), Settled(a), a.legal,
         NEW e \in Occurrences, Allowed(a, e), ~a.failed, e.kind = "usage"
  PROVE  ResponsesTied(EncodeResponses(r, e), v, After(a, e), k)
<1> DEFINE u == ResponsesSeen(r, v)
           b == After(a, e)
           p == <<TerminalEvent(r.why), 0>>
           w == Item("terminal", 0, 0, p, r.echo)
           m == [r EXCEPT !.completed = TRUE]
           q == EncodeResponses(r, e)
           t == ResponsesSeen(q, v)
           ok == AllDone(u, r.echo)
<1>1. r \in ResponsesEncoders /\ u \in Views /\ Layout(r, u) /\ ResponsesMarks(r, u, a, k)
  BY DEF ResponsesTied, ResponsesCoupled
<1>2. b = [a EXCEPT !.usage = a.usage \/ a.finished]
  BY DEF After, Contents
<1>3. q = IF ~r.finished \/ r.completed THEN r ELSE Emit(m, w)
  BY DEF EncodeResponses
<1> HIDE DEF b, q, u
<1>4. /\ b.begun = a.begun /\ b.finished = a.finished /\ (b.usage <=> a.usage \/ a.finished) /\ b.bare = a.bare /\ b.signed = a.signed
      /\ b.failed = a.failed /\ b.told = a.told /\ b.strayed = a.strayed /\ b.got = a.got /\ b.hot = a.hot
      /\ b.usage \in BOOLEAN /\ a.usage \in BOOLEAN
  BY <1>2 DEF Answers
<1>5. CASE ~r.finished \/ r.completed
  <2>1. q = r
    BY <1>3, <1>5
  <2>2. b.usage = a.usage
    BY <1>1, <1>4, <1>5 DEF ResponsesMarks
  <2>3. ResponsesMarks(r, u, b, k)
    BY <1>1, <1>4, <2>2 DEF ResponsesMarks
  <2> QED  BY <1>1, <1>4, <2>1, <2>3 DEF ResponsesTied, ResponsesCoupled, u, q, b
<1>6. CASE r.finished /\ ~r.completed
  <2>1. /\ m \in ResponsesEncoders /\ m.out = r.out /\ m.created = r.created /\ m.finished = r.finished
        /\ m.completed = TRUE /\ m.message = r.message /\ m.reasoning = r.reasoning
        /\ m.calls = r.calls
        /\ m.item = r.item /\ m.part = r.part /\ m.content = r.content /\ m.order = r.order /\ m.text = r.text
        /\ m.refusal = r.refusal /\ m.thinking = r.thinking /\ m.signatures = r.signatures /\ m.echo = r.echo
    BY <1>1 DEF ResponsesEncoders
  <2>2. w \in ItemWires
    <3>1. TerminalEvent(r.why) \in Words
      BY DEF TerminalEvent, Words
    <3>2. p \in Pairs
      BY <3>1 DEF Pairs
    <3>3. r.echo \in Seq(Pairs) \union Seq(Nat)
      BY <1>1 DEF ResponsesEncoders
    <3> HIDE DEF p
    <3> QED  BY <3>2, <3>3 DEF Item, ItemWires
  <2>3. u.phase # "failed" /\ a.finished = TRUE
    BY <1>1, <1>6 DEF ResponsesMarks, ResponsesEncoders
  <2>5. ok \/ a.bare
    <3> SUFFICES ASSUME ~a.bare PROVE ok
      OBVIOUS
    <3>1. u.ok /\ u.phase = "open"
      BY <1>1, <1>6, <2>3 DEF ResponsesMarks
    <3>2. r.echo = u.done /\ Past(r.item, r.calls, u.items) /\ Len(u.items) = r.item /\ NoneOpen(r.calls)
      BY <1>1, <1>6 DEF ResponsesMarks, Layout
    <3>3. DOMAIN u.items = 1..r.item
      BY <1>1, <3>2 DEF Views
    <3>4. \A i \in 1..r.item : ~u.items[i].open
      BY <3>2 DEF Past, NoneOpen
    <3> QED  BY <3>1, <3>2, <3>3, <3>4 DEF AllDone
  <2>6. ResponsesSeen(m, v) = u
    BY <2>1 DEF ResponsesSeen, u
  <2>7. q = Emit(m, w)
    BY <1>3, <1>6
  <2> HIDE DEF m, ok, p
  <2>9. EndSeen(u, r.echo, ReadResponses(u, w))
    BY <1>1, <2>3, ReadsTheEnd
  <2> HIDE DEF w
  <2>10. Adds(m, w, v, q)
    BY <2>1, <2>2, <2>7, EmitAdds
  <2> HIDE DEF t
  <2>11. q \in ResponsesEncoders /\ q = [m EXCEPT !.out = q.out] /\ EndSeen(u, r.echo, t)
    BY <2>6, <2>9, <2>10 DEF Adds, t
  <2>12. /\ q.created = r.created /\ q.finished = r.finished /\ q.completed = TRUE
        /\ q.message = r.message /\ q.reasoning = r.reasoning /\ q.calls = r.calls
        /\ q.item = r.item /\ q.part = r.part /\ q.content = r.content /\ q.order = r.order /\ q.text = r.text
        /\ q.refusal = r.refusal /\ q.thinking = r.thinking /\ q.signatures = r.signatures /\ q.echo = r.echo
    BY ZenonT(60), <2>1, <2>11 DEF ResponsesEncoders
  <2>13. /\ t \in Views /\ t.phase = "ended" /\ t.items = u.items /\ t.done = u.done /\ t.got = u.got
         /\ t.late = u.late /\ (t.ok <=> ok) /\ t.signatures = u.signatures
    BY <2>11 DEF EndSeen, ok
  <2>14. SameLayout(r, q)
    BY <2>12 DEF SameLayout
  <2>15. Layout(q, t)
    BY <1>1, <2>13, <2>14, LayoutSame
  <2>16. b.usage = TRUE
    BY <1>4, <2>3
  <2>17. ResponsesMarks(q, t, b, k)
    BY <1>1, <1>4, <1>6, <2>5, <2>12, <2>13, <2>16 DEF ResponsesMarks
  <2>18. ~b.failed
    BY <1>4
  <2> QED  BY <2>11, <2>13, <2>15, <2>17, <2>18 DEF ResponsesTied, ResponsesCoupled, t, q, b
<1> QED  BY <1>5, <1>6

\* The provider fails.
LEMMA ResponsesError ==
  ASSUME NEW r, NEW v, NEW a \in Answers, NEW k, ResponsesTied(r, v, a, k), Settled(a), a.legal,
         NEW e \in Occurrences, Allowed(a, e), ~a.failed, e.kind = "error"
  PROVE  ResponsesTied(EncodeResponses(r, e), v, After(a, e), k)
<1> DEFINE u == ResponsesSeen(r, v)
           b == After(a, e)
           w == Item("error", 0, 0, NoPiece, <<>>)
           m == [r EXCEPT !.completed = TRUE]
           q == EncodeResponses(r, e)
           t == ResponsesSeen(q, v)
<1>1. r \in ResponsesEncoders /\ u \in Views /\ ResponsesMarks(r, u, a, k) /\ ~a.finished
  BY DEF ResponsesTied, ResponsesCoupled, Allowed, Contents
<1>2. b = [a EXCEPT !.failed = TRUE, !.hot = FALSE]
  BY DEF After, Contents
<1>3. q = Emit(m, w)
  BY DEF EncodeResponses
<1> HIDE DEF b, q, u
<1>4. b.failed /\ b.bare = a.bare /\ b.strayed = a.strayed
  BY <1>2 DEF Answers
<1>5. m \in ResponsesEncoders /\ m.out = r.out /\ m.completed = TRUE
  BY <1>1 DEF ResponsesEncoders
<1>6. w \in ItemWires
  <2>1. NoPiece \in Pairs
    BY DEF NoPiece, Pairs, Words
  <2> QED  BY <2>1, BareWire
<1>7. u.phase \notin {"ended", "failed"} /\ (u.ok \/ a.bare) /\ (u.late => a.strayed)
  BY <1>1 DEF ResponsesMarks
<1>8. ResponsesSeen(m, v) = u
  BY <1>5 DEF ResponsesSeen, u
<1> HIDE DEF m
<1>9. ReadResponses(u, w) = [u EXCEPT !.phase = "failed"]
  BY <1>1, <1>7, ReadsFailure
<1> HIDE DEF w
<1>10. Adds(m, w, v, q)
  BY <1>3, <1>5, <1>6, EmitAdds
<1> HIDE DEF t
<1>11. q \in ResponsesEncoders /\ q = [m EXCEPT !.out = q.out] /\ t = [u EXCEPT !.phase = "failed"]
  BY <1>8, <1>9, <1>10 DEF Adds, t
<1>12. q.completed = TRUE
  BY <1>5, <1>11 DEF ResponsesEncoders
<1>13. t \in Views /\ t.phase = "failed" /\ t.late = u.late /\ t.ok = u.ok
  BY <1>1, <1>11 DEF Views
<1> QED  BY <1>4, <1>7, <1>11, <1>12, <1>13 DEF ResponsesTied, ResponsesCoupled, t, q, b

(* ---- a Responses client after a failure: it takes no more notice ---- *)

Mute(r, q, v) ==
  /\ q \in ResponsesEncoders /\ ResponsesSeen(q, v) = ResponsesSeen(r, v)
  /\ q.completed = r.completed /\ Len(q.calls) = Len(r.calls)

Deaf(r, v) == r \in ResponsesEncoders /\ ResponsesSeen(r, v) \in Views /\ ResponsesSeen(r, v).phase = "failed"

LEMMA MuteOn ==
  ASSUME NEW r, NEW q, NEW p, NEW v, Mute(r, q, v), Mute(q, p, v)
  PROVE  Mute(r, p, v)
  BY DEF Mute

LEMMA DeafOn ==
  ASSUME NEW r, NEW q, NEW v, Deaf(r, v), Mute(r, q, v)
  PROVE  Deaf(q, v)
  BY DEF Mute, Deaf

LEMMA PartMute ==
  ASSUME NEW r, NEW v, Deaf(r, v)
  PROVE  Mute(r, CloseContentPart(r), v)
<1> DEFINE q == CloseContentPart(r)
           u == ResponsesSeen(r, v)
<1>1. r \in ResponsesEncoders /\ u \in Views /\ u.phase = "failed"
  BY DEF Deaf
<1>2. CASE r.part = "none"
  <2>1. q = r
    BY <1>2 DEF CloseContentPart
  <2> QED  BY <1>1, <2>1 DEF Mute
<1>3. CASE r.part # "none"
  <2> DEFINE w == Item("part_done", r.item, r.content, <<r.part, 0>>, <<<<r.part, Accumulated(r, r.part)>>>>)
             n == r.content + 1
  <2>1. /\ q \in ResponsesEncoders
        /\ q = [r EXCEPT !.part = "none", !.content = n, !.out = q.out]
        /\ ResponsesSeen(q, v) = ReadResponses(u, w)
    BY <1>1, <1>3, PartDone
  <2>2. w.type # "terminal"
    BY DEF Item
  <2> HIDE DEF q, w, u, n
  <2>3. ReadResponses(u, w) = u
    BY <1>1, <2>2, ReadsNothing
  <2>4. q.completed = r.completed /\ q.calls = r.calls
    BY <1>1, <2>1 DEF ResponsesEncoders
  <2> QED  BY <2>1, <2>3, <2>4 DEF Mute, q, u
<1> QED  BY <1>2, <1>3

\* An item that is done says nothing any more.
LEMMA ItemMute ==
  ASSUME NEW r, NEW v, Deaf(r, v), NEW at \in Nat, NEW sub \in Nat, NEW p \in Pairs, NEW content \in Seq(Pairs)
  PROVE  /\ Mute(r, ItemDone(r, at, sub, p, content), v)
         /\ ItemDone(r, at, sub, p, content) = [r EXCEPT !.echo = Append(r.echo, at), !.out = ItemDone(r, at, sub, p, content).out]
<1> DEFINE q == ItemDone(r, at, sub, p, content)
           u == ResponsesSeen(r, v)
           w == Item("item_done", at, sub, p, content)
<1>1. r \in ResponsesEncoders /\ u \in Views /\ u.phase = "failed"
  BY DEF Deaf
<1>2. GivesItem(r, at, sub, p, content, v, q)
  BY <1>1, ItemGiven
<1> HIDE DEF q
<1>3. q \in ResponsesEncoders /\ q = [r EXCEPT !.echo = Append(r.echo, at), !.out = q.out] /\ ResponsesSeen(q, v) = ReadResponses(u, w)
  BY <1>2 DEF GivesItem
<1>4. w.type # "terminal"
  BY DEF Item
<1> HIDE DEF u, w
<1>5. ReadResponses(u, w) = u
  BY <1>1, <1>4, ReadsNothing
<1>6. q.completed = r.completed /\ q.calls = r.calls
  BY <1>1, <1>3 DEF ResponsesEncoders
<1> QED  BY <1>3, <1>5, <1>6 DEF Mute, q, u

LEMMA MessageMute ==
  ASSUME NEW r, NEW v, Deaf(r, v)
  PROVE  Mute(r, CloseMessageItem(r), v)
<1> DEFINE e == [r EXCEPT !.message = FALSE]
           c == CloseContentPart(e)
           p == <<"message", 0>>
           mc == MessageContent(c)
           k == ItemDone(c, c.item, 0, p, mc)
           n == k.item + 1
           none == <<>>
           q == [k EXCEPT !.item = n, !.content = 0, !.text = 0, !.refusal = 0, !.order = none]
<1>1. r \in ResponsesEncoders
  BY DEF Deaf
<1>2. CASE ~r.message
  BY <1>1, <1>2 DEF Mute, CloseMessageItem
<1>3. CASE r.message
  <2>1. CloseMessageItem(r) = q
    BY <1>3 DEF CloseMessageItem, MessageDone
  <2>2. e \in ResponsesEncoders /\ e.out = r.out /\ e.completed = r.completed /\ e.calls = r.calls
    BY <1>1 DEF ResponsesEncoders
  <2>3. Mute(r, e, v)
    BY <2>2 DEF Mute, ResponsesSeen
  <2>4. Deaf(e, v)
    BY <2>3, DeafOn
  <2> HIDE DEF e
  <2>5. Mute(e, c, v)
    BY <2>4, PartMute
  <2>6. Deaf(c, v)
    BY <2>4, <2>5, DeafOn
  <2> HIDE DEF c
  <2>7. c \in ResponsesEncoders
    BY <2>6 DEF Deaf
  <2>8. mc \in Seq(Pairs)
    BY <2>7, MessageContentIs
  <2>9. p \in Pairs /\ c.item \in Nat
    BY <2>7 DEF Pairs, Words, ResponsesEncoders
  <2> HIDE DEF mc, p
  <2>10. Mute(c, k, v)
    BY <2>6, <2>8, <2>9, ItemMute
  <2> HIDE DEF k
  <2>11. k \in ResponsesEncoders
    BY <2>10 DEF Mute
  <2>12. n \in Nat /\ none \in Seq({"text", "refusal"})
    BY <2>11 DEF ResponsesEncoders
  <2> HIDE DEF n, none
  <2>13. q \in ResponsesEncoders /\ q.out = k.out /\ q.completed = k.completed /\ q.calls = k.calls
    BY <2>11, <2>12 DEF ResponsesEncoders
  <2> HIDE DEF q
  <2>14. Mute(k, q, v)
    BY <2>13 DEF Mute, ResponsesSeen
  <2>15. Mute(r, q, v)
    BY <2>3, <2>5, <2>10, <2>14, MuteOn
  <2> QED  BY <2>1, <2>15
<1> QED  BY <1>2, <1>3

LEMMA ReasoningMute ==
  ASSUME NEW r, NEW v, Deaf(r, v)
  PROVE  Mute(r, CloseReasoningItem(r), v)
<1> DEFINE p == <<"reasoning", 0>>
           m == r.thinking
           content == <<<<"thinking", m>>>>
           k == ItemDone(r, r.item, r.signatures, p, content)
           n == k.item + 1
           q == [k EXCEPT !.reasoning = FALSE, !.item = n, !.thinking = 0, !.signatures = 0]
<1>1. r \in ResponsesEncoders
  BY DEF Deaf
<1>2. CASE ~r.reasoning
  BY <1>1, <1>2 DEF Mute, CloseReasoningItem
<1>3. CASE r.reasoning
  <2>1. CloseReasoningItem(r) = q
    BY <1>3 DEF CloseReasoningItem
  <2>2. m \in Nat /\ r.item \in Nat /\ r.signatures \in Nat
    BY <1>1 DEF ResponsesEncoders
  <2> HIDE DEF m
  <2>3. p \in Pairs /\ content \in Seq(Pairs)
    <3>1. <<"thinking", m>> \in Pairs
      BY <2>2 DEF Pairs, Words
    <3> QED  BY <3>1 DEF Pairs, Words
  <2> HIDE DEF p, content
  <2>4. Mute(r, k, v)
    BY <2>2, <2>3, ItemMute
  <2> HIDE DEF k
  <2>5. k \in ResponsesEncoders
    BY <2>4 DEF Mute
  <2>6. n \in Nat
    BY <2>5 DEF ResponsesEncoders
  <2> HIDE DEF n
  <2>7. q \in ResponsesEncoders /\ q.out = k.out /\ q.completed = k.completed /\ q.calls = k.calls
    BY <2>5, <2>6 DEF ResponsesEncoders
  <2> HIDE DEF q
  <2>8. Mute(k, q, v)
    BY <2>7 DEF Mute, ResponsesSeen
  <2>9. Mute(r, q, v)
    BY <2>4, <2>8, MuteOn
  <2> QED  BY <2>1, <2>9
<1> QED  BY <1>2, <1>3

LEMMA CallMute ==
  ASSUME NEW r, NEW v, Deaf(r, v), NEW i \in 1..Len(r.calls)
  PROVE  Mute(r, CloseCall(r, i), v)
<1> DEFINE p == <<"call", i - 1>>
           m == r.calls[i].args
           at == r.calls[i].at
           content == <<<<"args", m>>>>
           k == ItemDone(r, at, 0, p, content)
           calls == [k.calls EXCEPT ![i].open = FALSE]
           q == [k EXCEPT !.calls = calls]
<1>1. r \in ResponsesEncoders
  BY DEF Deaf
<1>2. CASE ~r.calls[i].open
  BY <1>1, <1>2 DEF Mute, CloseCall
<1>3. CASE r.calls[i].open
  <2>1. CloseCall(r, i) = q
    BY <1>3 DEF CloseCall
  <2>2. m \in Nat /\ at \in Nat /\ i - 1 \in Nat
    <3>1. r.calls \in Seq(Calls)
      BY <1>1 DEF ResponsesEncoders
    <3>2. r.calls[i] \in Calls
      BY <3>1
    <3> QED  BY <3>1, <3>2 DEF Calls
  <2> HIDE DEF m, at
  <2>3. p \in Pairs /\ content \in Seq(Pairs)
    <3>1. <<"args", m>> \in Pairs
      BY <2>2 DEF Pairs, Words
    <3> QED  BY <2>2, <3>1 DEF Pairs, Words
  <2> HIDE DEF p, content
  <2>4. Mute(r, k, v)
    BY <2>2, <2>3, ItemMute
  <2> HIDE DEF k
  <2>5. k \in ResponsesEncoders /\ Len(k.calls) = Len(r.calls)
    BY <2>4 DEF Mute
  <2>6. calls \in Seq(Calls) /\ Len(calls) = Len(k.calls)
    <3> DEFINE c == [k.calls[i] EXCEPT !.open = FALSE]
               kc == k.calls
    <3>1. kc \in Seq(Calls)
      BY <2>5 DEF ResponsesEncoders
    <3>2. i \in 1..Len(kc)
      BY <2>5
    <3>3. kc[i] \in Calls
      BY <3>1, <3>2
    <3>4. c \in Calls
      BY <3>3 DEF Calls
    <3>5. calls = [kc EXCEPT ![i] = c]
      OBVIOUS
    <3> HIDE DEF kc, c, calls
    <3>6. calls \in Seq(Calls) /\ Len(calls) = Len(kc)
      BY <3>1, <3>2, <3>4, <3>5, PutCall
    <3> QED  BY <3>6 DEF kc
  <2> HIDE DEF calls
  <2>7. q \in ResponsesEncoders /\ q.out = k.out /\ q.completed = k.completed /\ q.calls = calls
    BY <2>5, <2>6 DEF ResponsesEncoders
  <2> HIDE DEF q
  <2>8. Mute(k, q, v)
    BY <2>6, <2>7 DEF Mute, ResponsesSeen
  <2>9. Mute(r, q, v)
    BY <2>4, <2>8, MuteOn
  <2> QED  BY <2>1, <2>9
<1> QED  BY <1>2, <1>3

LEMMA OutputMute ==
  ASSUME NEW r, NEW v, Deaf(r, v)
  PROVE  Mute(r, CloseOutputItem(r), v)
<1> DEFINE m == CloseMessageItem(r)
           b == CloseReasoningItem(m)
           s == [i \in DOMAIN r.calls |-> i]
           how == By("close")
<1>1. Mute(r, m, v)
  BY MessageMute
<1>2. Deaf(m, v)
  BY <1>1, DeafOn
<1> HIDE DEF m
<1>3. Mute(m, b, v)
  BY <1>2, ReasoningMute
<1> HIDE DEF b
<1>4. Mute(r, b, v)
  BY <1>1, <1>3, MuteOn
<1>6. s \in Seq(Nat) /\ Len(s) = Len(r.calls) /\ \A i \in 1..Len(s) : s[i] = i
  <2>1. DOMAIN r.calls = 1..Len(r.calls) /\ Len(r.calls) \in Nat
    BY DEF Deaf, ResponsesEncoders
  <2> QED  BY <2>1
<1>7. CloseOutputItem(r) = FoldLeft(CloseCall, b, s)
  BY DEF CloseOutputItem, b, m
<1>5. s \in Seq(Nat)
  BY <1>6
<1> HIDE DEF s, how
<1>8. PICK x : /\ x[0] = b /\ x[Len(s)] = Folded(how, b, s)
               /\ \A k \in 1..Len(s) : x[k] = StepOf(how, x[k - 1], s[k])
  BY <1>5, FoldedGoes
<1>9. \A k \in 1..Len(s) : x[k] = CloseCall(x[k - 1], k)
  BY <1>6, <1>8 DEF StepOf, By, how
<1> DEFINE G == {k \in Nat : k <= Len(s) => Mute(r, x[k], v)}
<1>10. 0 \in G
  BY <1>4, <1>8
<1>11. ASSUME NEW k \in Nat, k \in G PROVE k + 1 \in G
  <2> SUFFICES ASSUME k + 1 <= Len(s) PROVE Mute(r, x[k + 1], v)
    OBVIOUS
  <2> DEFINE y == x[k]
             i == k + 1
             z == CloseCall(y, i)
  <2>1. Mute(r, y, v)
    BY <1>6, <1>11
  <2>2. x[i] = z
    <3>1. i \in 1..Len(s) /\ i - 1 = k
      BY <1>6
    <3> QED  BY <1>9, <3>1
  <2> HIDE DEF y
  <2>3. Deaf(y, v) /\ Len(y.calls) = Len(r.calls)
    BY <2>1, DeafOn DEF Mute
  <2>4. i \in 1..Len(y.calls)
    BY <1>6, <2>3
  <2> HIDE DEF i
  <2>5. Mute(y, z, v)
    BY <2>3, <2>4, CallMute
  <2> HIDE DEF z
  <2>6. Mute(r, z, v)
    BY <2>1, <2>5, MuteOn
  <2> QED  BY <2>2, <2>6 DEF i
<1> HIDE DEF G
<1>12. Len(s) \in Nat
  BY <1>6
<1>13. Len(s) \in G
  BY <1>10, <1>11, <1>12, Upward
<1>14. Mute(r, x[Len(s)], v)
  BY <1>12, <1>13 DEF G
<1>15. CloseOutputItem(r) = x[Len(s)]
  BY <1>6, <1>7, <1>8, FoldCloseCall DEF how
<1> QED  BY <1>14, <1>15

LEMMA ResponsesFailed ==
  ASSUME NEW r, NEW v, NEW a \in Answers, NEW k, ResponsesTied(r, v, a, k), Settled(a),
         NEW e \in Occurrences, Allowed(a, e), a.failed
  PROVE  ResponsesTied(EncodeResponses(r, e), v, After(a, e), k)
<1> DEFINE u == ResponsesSeen(r, v)
           b == After(a, e)
           why == e.why
           m == [r EXCEPT !.finished = TRUE, !.why = why]
           c == CloseContentPart(m)
           q == EncodeResponses(r, e)
           d == CloseOutputItem(c)
<1>1. r \in ResponsesEncoders /\ u \in Views /\ u.phase = "failed" /\ r.completed /\ (u.ok \/ a.bare) /\ (u.late => a.strayed)
  BY DEF ResponsesTied, ResponsesCoupled
<1>2. e.kind = "stop"
  BY DEF Allowed, Contents, Occurrences, Kinds
<1>3. b = [a EXCEPT !.finished = TRUE, !.hot = FALSE, !.bare = @ \/ ~(a.begun \/ a.failed)]
  BY <1>2 DEF After, Contents
<1>4. b.failed /\ (b.strayed <=> a.strayed) /\ (b.bare <=> a.bare)
  BY <1>3 DEF Answers
<1>5. q = IF r.finished THEN r ELSE d
  BY <1>2 DEF EncodeResponses
<1>6. why \in {"none", "stop", "length", "safety"}
  BY DEF Occurrences
<1> HIDE DEF b, q, why
<1>7. Deaf(r, v)
  BY <1>1 DEF Deaf
<1>8. m \in ResponsesEncoders /\ m.out = r.out /\ m.completed = r.completed /\ m.calls = r.calls
  BY <1>1, <1>6 DEF ResponsesEncoders
<1>9. Mute(r, m, v)
  BY <1>8 DEF Mute, ResponsesSeen
<1> HIDE DEF m
<1>10. Deaf(m, v)
  BY <1>7, <1>9, DeafOn
<1>11. Mute(m, c, v)
  BY <1>10, PartMute
<1>12. Deaf(c, v)
  BY <1>10, <1>11, DeafOn
<1> HIDE DEF c
<1>13. Mute(c, d, v)
  BY <1>12, OutputMute
<1> HIDE DEF d
<1>14. Mute(r, d, v)
  BY <1>9, <1>11, <1>13, MuteOn
<1>15. Mute(r, r, v)
  BY <1>1 DEF Mute
<1>16. Mute(r, q, v)
  BY <1>5, <1>14, <1>15
<1>17. q \in ResponsesEncoders /\ ResponsesSeen(q, v) = u /\ q.completed
  BY <1>1, <1>16 DEF Mute, u
<1> HIDE DEF u
<1>18. ResponsesTied(q, v, b, k)
  BY <1>1, <1>4, <1>17 DEF ResponsesTied, ResponsesCoupled
<1> QED  BY <1>18 DEF q, b

\* One internal event, whatever its kind.
LEMMA ResponsesStep ==
  ASSUME NEW r, NEW v, NEW a \in Answers, NEW k, ResponsesTied(r, v, a, k), ResponsesKinds(k), Settled(a), a.legal,
         NEW e \in Occurrences, Allowed(a, e), Suits(e, k)
  PROVE  ResponsesTied(EncodeResponses(r, e), v, After(a, e), k)
<1>1. e.kind \in Kinds
  BY DEF Occurrences
<1>2. CASE a.failed
  BY <1>2, ResponsesFailed
<1>3. CASE ~a.failed /\ e.kind \in {"text", "refusal"}
  BY <1>3, ResponsesText
<1>4. CASE ~a.failed /\ e.kind = "thinking"
  BY <1>4, ResponsesThinking
<1>5. CASE ~a.failed /\ e.kind = "redacted"
  BY <1>5, ResponsesRedacted
<1>6. CASE ~a.failed /\ e.kind = "signature"
  BY <1>6, ResponsesSignature
<1>7. CASE ~a.failed /\ e.kind = "toolstart"
  BY <1>7, ResponsesToolStart
<1>8. CASE ~a.failed /\ e.kind = "tooldelta"
  BY <1>8, ResponsesToolDelta
<1>9. CASE ~a.failed /\ e.kind = "toolargs"
  BY <1>9, ResponsesToolArgs
<1>10. CASE ~a.failed /\ e.kind \in {"blockstart", "blockstop", "toolstop", "done"}
  BY <1>10, ResponsesQuiet
<1>11. CASE ~a.failed /\ e.kind = "start"
  BY <1>11, ResponsesStart
<1>12. CASE ~a.failed /\ e.kind = "stop"
  BY <1>12, ResponsesStop
<1>13. CASE ~a.failed /\ e.kind = "usage"
  BY <1>13, ResponsesUsage
<1>14. CASE ~a.failed /\ e.kind = "error"
  BY <1>14, ResponsesError
<1> QED  BY <1>1, <1>2, <1>3, <1>4, <1>5, <1>6, <1>7, <1>8, <1>9, <1>10, <1>11, <1>12, <1>13, <1>14 DEF Kinds

\* The Responses encoder keeps up with all the events the decoder gives at once.
LEMMA ResponsesRun ==
  ASSUME NEW r, NEW v, NEW a \in Answers, NEW k, ResponsesTied(r, v, a, k), ResponsesKinds(k), Settled(a),
         NEW s \in Seq(Occurrences), Took(a, s).legal, \A i \in 1..Len(s) : Suits(s[i], k)
  PROVE  /\ ResponsesTied(FoldLeft(EncodeResponses, r, s), v, Took(a, s), k)
         /\ Took(a, s) \in Answers /\ Settled(Took(a, s))
<1> DEFINE hr == By("responses")
           ha == By("take")
<1>1. PICK x : /\ x[0] = r /\ x[Len(s)] = Folded(hr, r, s)
               /\ \A i \in 1..Len(s) : x[i] = StepOf(hr, x[i - 1], s[i])
  BY FoldedGoes
<1>2. PICK y : /\ y[0] = a /\ y[Len(s)] = Folded(ha, a, s)
               /\ \A i \in 1..Len(s) : y[i] = StepOf(ha, y[i - 1], s[i])
  BY FoldedGoes
<1>3. \A i \in 1..Len(s) : x[i] = EncodeResponses(x[i - 1], s[i]) /\ y[i] = Take(y[i - 1], s[i])
  BY <1>1, <1>2 DEF StepOf, By
<1> DEFINE G == {i \in Nat : i <= Len(s) /\ y[i].legal => ResponsesTied(x[i], v, y[i], k) /\ y[i] \in Answers /\ Settled(y[i])}
<1>4. 0 \in G
  BY <1>1, <1>2
<1>5. ASSUME NEW i \in Nat, i \in G PROVE i + 1 \in G
  <2> SUFFICES ASSUME i + 1 <= Len(s), y[i + 1].legal
               PROVE  ResponsesTied(x[i + 1], v, y[i + 1], k) /\ y[i + 1] \in Answers /\ Settled(y[i + 1])
    OBVIOUS
  <2> DEFINE e == s[i + 1]
             b == y[i]
             n == x[i]
  <2>1. e \in Occurrences /\ Suits(e, k) /\ x[i + 1] = EncodeResponses(n, e) /\ y[i + 1] = Take(b, e)
    <3>1. i + 1 \in 1..Len(s) /\ (i + 1) - 1 = i
      OBVIOUS
    <3> QED  BY <1>3, <3>1
  <2>2. b.legal /\ Allowed(b, e)
    BY <2>1, TakeLegal
  <2>3. ResponsesTied(n, v, b, k) /\ b \in Answers /\ Settled(b)
    BY <1>5, <2>2
  <2> HIDE DEF e, b, n
  <2>4. Take(b, e) = After(b, e) /\ After(b, e) \in Answers
    BY <2>1, <2>2, <2>3, TakeLawful
  <2>5. ResponsesTied(EncodeResponses(n, e), v, After(b, e), k)
    BY <2>1, <2>2, <2>3, ResponsesStep
  <2>6. Settled(After(b, e))
    BY <2>1, <2>2, <2>3, SettledAfter
  <2> QED  BY <2>1, <2>4, <2>5, <2>6
<1> HIDE DEF G
<1>6. Len(s) \in G
  BY <1>4, <1>5, Upward
<1>7. FoldLeft(EncodeResponses, r, s) = x[Len(s)] /\ Took(a, s) = y[Len(s)]
  BY <1>1, <1>2, FoldEncodeResponses DEF Took
<1> QED  BY <1>6, <1>7 DEF G

(* ---- a Chat client: the events of one provider event are one chunk ---- *)

Chunks == [start : BOOLEAN, thinking : {0, 1}, text : {0, 1}, refusal : {0, 1}, calls : Seq(Pairs),
           finish : BOOLEAN, usage : BOOLEAN, error : BOOLEAN, done : BOOLEAN, empty : BOOLEAN]

\* A field of the chunk holds the last piece of its kind: the one there is.
Told(n, got, what) ==
  IF n = 0 THEN Pieces(got, {what}) = <<>>
  ELSE /\ Len(Pieces(got, {what})) >= 1
       /\ Len(Pieces(got, {what})) = 1 => Pieces(got, {what}) = <<<<what, 0>>>>

CallKinds == {"call", "args"}

FieldsTold(c, got) == Told(c.text, got, "text") /\ Told(c.refusal, got, "refusal") /\ Told(c.thinking, got, "thinking")

\* The client that reads the chunk's calls after w.
CallsRead(c, w, a) ==
  Folded(By("readCall"), w, c.calls) = [w EXCEPT !.got = w.got \o Pieces(a.got, CallKinds), !.next = a.told]

ChunkMarks(c, b, a) ==
  /\ ~c.done
  /\ c.empty => a = b
  /\ a.failed <=> c.error
  /\ IF b.finished THEN a.finished /\ ~a.failed /\ a.got = <<>> /\ ~c.finish ELSE a.finished <=> c.finish

ChunkTied(c, w, b, a) == c \in Chunks /\ FieldsTold(c, a.got) /\ CallsRead(c, w, a) /\ ChunkMarks(c, b, a)

LEMMA ToldMore ==
  ASSUME NEW got \in Seq(Pairs), NEW n \in {0, 1}, NEW what \in Words, Told(n, got, what)
  PROVE  Told(1, Append(got, <<what, 0>>), what)
<1> DEFINE p == <<what, 0>>
           one == {what}
           k == Pieces(got, one)
<1>1. p \in Pairs /\ p[1] \in one
  BY DEF Pairs
<1>2. k \in Seq(Pairs)
  BY PiecesSeq
<1> HIDE DEF p, one
<1>3. Pieces(Append(got, p), one) = IF p[1] \in one THEN Append(k, p) ELSE k
  BY <1>1, PiecesAppend
<1> HIDE DEF k
<1>4. Pieces(Append(got, p), one) = Append(k, p) /\ Len(Append(k, p)) = Len(k) + 1 /\ Len(k) \in Nat
  BY <1>1, <1>2, <1>3
<1>5. Len(k) = 0 => Append(k, p) = <<p>>
  BY <1>2
<1> DEFINE kk == Pieces(Append(got, p), one)
<1>6. Len(kk) >= 1 /\ (Len(kk) = 1 => kk = <<p>>)
  BY <1>4, <1>5
<1> HIDE DEF kk
<1>7. kk = Pieces(Append(got, <<what, 0>>), {what}) /\ <<p>> = <<<<what, 0>>>>
  BY DEF kk, p, one
<1> QED  BY <1>6, <1>7 DEF Told

LEMMA ToldSame ==
  ASSUME NEW got \in Seq(Pairs), NEW n, NEW what, Told(n, got, what), NEW p \in Pairs, p[1] # what
  PROVE  Told(n, Append(got, p), what)
<1> DEFINE one == {what}
<1>1. ~(p[1] \in one)
  OBVIOUS
<1> HIDE DEF one
<1>2. Pieces(Append(got, p), one) = IF p[1] \in one THEN Append(Pieces(got, one), p) ELSE Pieces(got, one)
  BY PiecesAppend
<1>3. Pieces(Append(got, p), one) = Pieces(got, one)
  BY <1>1, <1>2
<1> QED  BY <1>3 DEF Told, one

\* Neither a text, a refusal nor a thought.
LEMMA FieldsSame ==
  ASSUME NEW c, NEW got \in Seq(Pairs), FieldsTold(c, got), NEW p \in Pairs, p[1] \notin {"text", "refusal", "thinking"},
         NEW d, d.text = c.text, d.refusal = c.refusal, d.thinking = c.thinking
  PROVE  FieldsTold(d, Append(got, p))
<1>1. Told(c.text, Append(got, p), "text")
  BY ToldSame DEF FieldsTold
<1>2. Told(c.refusal, Append(got, p), "refusal")
  BY ToldSame DEF FieldsTold
<1>3. Told(c.thinking, Append(got, p), "thinking")
  BY ToldSame DEF FieldsTold
<1> QED  BY <1>1, <1>2, <1>3 DEF FieldsTold

LEMMA CallsSame ==
  ASSUME NEW c, NEW w, NEW a, CallsRead(c, w, a), NEW d, d.calls = c.calls, NEW b, b.told = a.told,
         Pieces(b.got, CallKinds) = Pieces(a.got, CallKinds)
  PROVE  CallsRead(d, w, b)
  BY DEF CallsRead

LEMMA ChunkContent ==
  ASSUME NEW w \in Views, NEW b \in Answers, NEW a \in Answers, NEW c, ChunkTied(c, w, b, a), a.legal, Settled(a),
         NEW e \in Occurrences, Allowed(a, e), e.kind \in Contents
  PROVE  ChunkTied(ChunkWith(c, e), w, b, After(a, e))
<1> DEFINE d == ChunkWith(c, e)
           z == After(a, e)
           p == <<e.kind, 0>>
           got == Append(a.got, p)
<1>1. z = [a EXCEPT !.got = got, !.hot = FALSE, !.signed = IF e.kind = "signature" THEN a.signed + 1 ELSE a.signed]
  BY DEF After, Contents
<1> HIDE DEF z, got
<1>2. z.told = a.told /\ z.failed = a.failed /\ z.finished = a.finished /\ z.got = got
  BY <1>1 DEF Answers
<1>3. ~a.finished /\ ~a.failed
  BY DEF Allowed, Contents
<1>4. c \in Chunks /\ FieldsTold(c, a.got) /\ CallsRead(c, w, a) /\ ChunkMarks(c, b, a)
  BY DEF ChunkTied
<1>5. a.got \in Seq(Pairs)
  BY DEF Answers
<1>6. p \in Pairs /\ p[1] = e.kind /\ ~(p[1] \in CallKinds)
  BY DEF Pairs, Words, Contents, CallKinds
<1>7. Pieces(got, CallKinds) = Pieces(a.got, CallKinds)
  <2>1. Pieces(got, CallKinds) = IF p[1] \in CallKinds THEN Append(Pieces(a.got, CallKinds), p) ELSE Pieces(a.got, CallKinds)
    BY <1>6, PieceMore DEF got
  <2> QED  BY <1>6, <2>1
<1>8. d \in Chunks /\ d.calls = c.calls /\ d.finish = c.finish /\ d.error = c.error /\ d.done = c.done /\ d.empty = FALSE
  BY <1>4 DEF ChunkWith, Contents, Chunks
<1>9. FieldsTold(d, got)
  <2>1. CASE e.kind = "text"
    <3>1. d.text = 1 /\ d.refusal = c.refusal /\ d.thinking = c.thinking
      BY <1>4, <2>1 DEF ChunkWith, Chunks
    <3>2. Told(c.text, a.got, "text") /\ Told(c.refusal, a.got, "refusal") /\ Told(c.thinking, a.got, "thinking")
          /\ c.text \in {0, 1} /\ "text" \in Words
      BY <1>4 DEF FieldsTold, Chunks, Words
    <3>3. Told(1, got, "text")
      BY <1>5, <2>1, <3>2, ToldMore DEF got, p
    <3>4. Told(c.refusal, got, "refusal")
      BY <1>5, <1>6, <2>1, <3>2, ToldSame DEF got
    <3>5. Told(c.thinking, got, "thinking")
      BY <1>5, <1>6, <2>1, <3>2, ToldSame DEF got
    <3> QED  BY <3>1, <3>3, <3>4, <3>5 DEF FieldsTold
  <2>2. CASE e.kind = "refusal"
    <3>1. d.text = c.text /\ d.refusal = 1 /\ d.thinking = c.thinking
      BY <1>4, <2>2 DEF ChunkWith, Chunks
    <3>2. Told(c.text, a.got, "text") /\ Told(c.refusal, a.got, "refusal") /\ Told(c.thinking, a.got, "thinking")
          /\ c.refusal \in {0, 1} /\ "refusal" \in Words
      BY <1>4 DEF FieldsTold, Chunks, Words
    <3>3. Told(1, got, "refusal")
      BY <1>5, <2>2, <3>2, ToldMore DEF got, p
    <3>4. Told(c.text, got, "text")
      BY <1>5, <1>6, <2>2, <3>2, ToldSame DEF got
    <3>5. Told(c.thinking, got, "thinking")
      BY <1>5, <1>6, <2>2, <3>2, ToldSame DEF got
    <3> QED  BY <3>1, <3>3, <3>4, <3>5 DEF FieldsTold
  <2>3. CASE e.kind = "thinking"
    <3>1. d.text = c.text /\ d.refusal = c.refusal /\ d.thinking = 1
      BY <1>4, <2>3 DEF ChunkWith, Chunks
    <3>2. Told(c.text, a.got, "text") /\ Told(c.refusal, a.got, "refusal") /\ Told(c.thinking, a.got, "thinking")
          /\ c.thinking \in {0, 1} /\ "thinking" \in Words
      BY <1>4 DEF FieldsTold, Chunks, Words
    <3>3. Told(1, got, "thinking")
      BY <1>5, <2>3, <3>2, ToldMore DEF got, p
    <3>4. Told(c.text, got, "text")
      BY <1>5, <1>6, <2>3, <3>2, ToldSame DEF got
    <3>5. Told(c.refusal, got, "refusal")
      BY <1>5, <1>6, <2>3, <3>2, ToldSame DEF got
    <3> QED  BY <3>1, <3>3, <3>4, <3>5 DEF FieldsTold
  <2>4. CASE e.kind \in {"signature", "redacted"}
    <3>1. d.text = c.text /\ d.refusal = c.refusal /\ d.thinking = c.thinking
      BY <1>4, <2>4 DEF ChunkWith, Chunks
    <3>2. p[1] \notin {"text", "refusal", "thinking"}
      BY <1>6, <2>4
    <3> HIDE DEF d, p
    <3> QED  BY <1>4, <1>5, <1>6, <3>1, <3>2, FieldsSame DEF got
  <2> QED  BY <2>1, <2>2, <2>3, <2>4 DEF Contents
<1> HIDE DEF d
<1>10. CallsRead(d, w, z)
  BY <1>2, <1>4, <1>7, <1>8, CallsSame
<1>11. ChunkMarks(d, b, z)
  BY <1>2, <1>3, <1>4, <1>8 DEF ChunkMarks
<1> QED  BY <1>2, <1>8, <1>9, <1>10, <1>11 DEF ChunkTied, d, z

CallsGrown(d, w, got, told) ==
  Folded(By("readCall"), w, d.calls) = [w EXCEPT !.got = got, !.next = told]

\* One call's piece more.
LEMMA CallsMore ==
  ASSUME NEW c \in Chunks, NEW w \in Views, NEW a \in Answers, CallsRead(c, w, a), NEW x \in Pairs,
         NEW d, d.calls = Append(c.calls, x)
  PROVE  /\ x[1] = "args" => CallsGrown(d, w, w.got \o Append(Pieces(a.got, CallKinds), x), a.told)
         /\ x[1] = "call" /\ x[2] = a.told => CallsGrown(d, w, w.got \o Append(Pieces(a.got, CallKinds), x), a.told + 1)
         /\ x[1] = "call" /\ x[2] + 1 = a.told => CallsGrown(d, w, w.got \o Pieces(a.got, CallKinds), a.told)
<1> DEFINE k == Pieces(a.got, CallKinds)
           g == w.got \o k
           h == w.got \o Append(k, x)
           y == [w EXCEPT !.got = g, !.next = a.told]
<1>1. c.calls \in Seq(Pairs)
  BY DEF Chunks
<1>2. \A s, z : StepOf(By("readCall"), s, z) = ReadCall(s, z)
  BY DEF StepOf, By
<1>3. Folded(By("readCall"), w, Append(c.calls, x)) = StepOf(By("readCall"), Folded(By("readCall"), w, c.calls), x)
  BY <1>1, FoldedAppend
<1>4. Folded(By("readCall"), w, d.calls) = ReadCall(y, x)
  BY <1>2, <1>3 DEF CallsRead
<1>5. w.got \in Seq(Pairs) /\ a.got \in Seq(Pairs) /\ a.told \in Nat /\ x[2] \in Nat
  BY DEF Views, Answers, Pairs
<1>6. k \in Seq(Pairs)
  BY <1>5, PiecesSeq
<1> HIDE DEF k
<1>7. h = Append(g, x)
  <2>1. \A s \in Seq(Pairs), z \in Seq(Pairs) : s \o Append(z, x) = Append(s \o z, x)
    OBVIOUS
  <2> QED  BY <1>5, <1>6, <2>1
<1>8. g \in Seq(Pairs)
  BY <1>5, <1>6
<1> HIDE DEF g, h
<1>9. y.got = g /\ y.next = a.told
  BY DEF Views
<1>10. x[1] = "args" => ReadCall(y, x) = [w EXCEPT !.got = h, !.next = a.told]
  <2>1. x[1] = "args" => ReadCall(y, x) = [y EXCEPT !.got = h]
    BY <1>7, <1>9 DEF ReadCall, Got
  <2> QED  BY <2>1 DEF Views
<1> DEFINE n == a.told + 1
<1>11. x[1] = "call" /\ x[2] = a.told => ReadCall(y, x) = [w EXCEPT !.got = h, !.next = n]
  <2>1. x[1] = "call" /\ x[2] = a.told => ReadCall(y, x) = [Got(y, x) EXCEPT !.next = Got(y, x).next + 1]
    BY <1>5, <1>9 DEF ReadCall
  <2>2. Got(y, x) = [y EXCEPT !.got = h]
    BY <1>7, <1>9 DEF Got
  <2>3. Got(y, x).next = a.told
    BY <1>9, <2>2 DEF Views
  <2>4. x[1] = "call" /\ x[2] = a.told => ReadCall(y, x) = [Got(y, x) EXCEPT !.next = n]
    BY <2>1, <2>3
  <2> HIDE DEF n
  <2> QED  BY ZenonT(60), <2>2, <2>4 DEF Views
<1>12. x[1] = "call" /\ x[2] + 1 = a.told => ReadCall(y, x) = y
  BY <1>5, <1>9 DEF ReadCall
<1> QED  BY <1>4, <1>10, <1>11, <1>12 DEF CallsGrown, n, h, g, k

LEMMA ChunkToolStart ==
  ASSUME NEW w \in Views, NEW b \in Answers, NEW a \in Answers, NEW c, ChunkTied(c, w, b, a), a.legal, Settled(a),
         NEW e \in Occurrences, Allowed(a, e), e.kind = "toolstart"
  PROVE  ChunkTied(ChunkWith(c, e), w, b, After(a, e))
<1> DEFINE d == ChunkWith(c, e)
           z == After(a, e)
           p == <<"call", e.tool>>
           k == Pieces(a.got, CallKinds)
<1>1. c \in Chunks /\ FieldsTold(c, a.got) /\ CallsRead(c, w, a) /\ ChunkMarks(c, b, a)
  BY DEF ChunkTied
<1>2. p \in Pairs /\ p[1] = "call" /\ p[2] = e.tool /\ p[1] \in CallKinds /\ p[1] \notin {"text", "refusal", "thinking"}
  BY DEF Pairs, Words, CallKinds, Occurrences
<1>3. ~a.finished /\ ~a.failed /\ (e.tool = a.told \/ e.tool + 1 = a.told)
  BY DEF Allowed, Contents
<1>4. a.got \in Seq(Pairs) /\ a.told \in Nat
  BY DEF Answers
<1>5. /\ d \in Chunks /\ d.calls = Append(c.calls, p) /\ d.finish = c.finish /\ d.error = c.error /\ d.done = c.done
      /\ d.empty = FALSE /\ d.text = c.text /\ d.refusal = c.refusal /\ d.thinking = c.thinking
  <2> DEFINE calls == Append(c.calls, p)
  <2>1. calls \in Seq(Pairs)
    BY <1>1, <1>2 DEF Chunks
  <2>2. d = [c EXCEPT !.empty = FALSE, !.calls = calls]
    BY <1>1 DEF ChunkWith, Chunks
  <2> HIDE DEF calls, d
  <2> QED  BY <1>1, <2>1, <2>2 DEF Chunks, calls
<1> HIDE DEF d, p
<1>6. /\ p[2] = a.told => CallsGrown(d, w, w.got \o Append(k, p), a.told + 1)
      /\ p[2] + 1 = a.told => CallsGrown(d, w, w.got \o k, a.told)
  BY <1>1, <1>2, <1>5, CallsMore
<1>7. CASE e.tool = a.told
  <2> DEFINE got == Append(a.got, p)
             n == a.told + 1
  <2>1. z = [a EXCEPT !.got = got, !.told = n, !.hot = TRUE]
    BY <1>7 DEF After, Contents, p
  <2>2. Pieces(got, CallKinds) = IF p[1] \in CallKinds THEN Append(k, p) ELSE k
    BY <1>2, PieceMore
  <2>3. FieldsTold(d, got)
    BY <1>1, <1>2, <1>4, <1>5, FieldsSame
  <2> HIDE DEF z, got, n
  <2>4. z.told = n /\ z.failed = a.failed /\ z.finished = a.finished /\ z.got = got
    BY <2>1 DEF Answers
  <2>5. CallsRead(d, w, z)
    BY <1>2, <1>6, <1>7, <2>2, <2>4 DEF CallsRead, CallsGrown, n
  <2>6. ChunkMarks(d, b, z)
    BY <1>1, <1>3, <1>5, <2>4 DEF ChunkMarks
  <2> QED  BY <1>5, <2>3, <2>4, <2>5, <2>6 DEF ChunkTied, d, z
<1>8. CASE e.tool + 1 = a.told
  <2>1. z = a
    BY <1>4, <1>8 DEF After, Contents, Occurrences
  <2> HIDE DEF z
  <2>2. CallsRead(d, w, z)
    BY <1>2, <1>6, <1>8, <2>1 DEF CallsRead, CallsGrown
  <2>3. FieldsTold(d, z.got)
    BY <1>1, <1>5, <2>1 DEF FieldsTold
  <2>4. ChunkMarks(d, b, z)
    BY <1>1, <1>3, <1>5, <2>1 DEF ChunkMarks
  <2> QED  BY <1>5, <2>2, <2>3, <2>4 DEF ChunkTied, d, z
<1> QED  BY <1>3, <1>7, <1>8

LEMMA ChunkArguments ==
  ASSUME NEW w \in Views, NEW b \in Answers, NEW a \in Answers, NEW c, ChunkTied(c, w, b, a), a.legal, Settled(a),
         NEW e \in Occurrences, Allowed(a, e), e.kind \in {"toolargs", "tooldelta"}
  PROVE  ChunkTied(ChunkWith(c, e), w, b, After(a, e))
<1> DEFINE d == ChunkWith(c, e)
           z == After(a, e)
           p == <<"args", e.tool>>
           k == Pieces(a.got, CallKinds)
           got == Append(a.got, p)
           strayed == a.strayed \/ ~(a.hot /\ e.tool + 1 = a.told)
<1>1. c \in Chunks /\ FieldsTold(c, a.got) /\ CallsRead(c, w, a) /\ ChunkMarks(c, b, a)
  BY DEF ChunkTied
<1>2. p \in Pairs /\ p[1] = "args" /\ p[1] \in CallKinds /\ p[1] \notin {"text", "refusal", "thinking"}
  BY DEF Pairs, Words, CallKinds, Occurrences
<1>3. ~a.finished /\ ~a.failed
  BY DEF Allowed, Contents
<1>4. a.got \in Seq(Pairs)
  BY DEF Answers
<1>5. /\ d \in Chunks /\ d.calls = Append(c.calls, p) /\ d.finish = c.finish /\ d.error = c.error /\ d.done = c.done
      /\ d.empty = FALSE /\ d.text = c.text /\ d.refusal = c.refusal /\ d.thinking = c.thinking
  <2> DEFINE calls == Append(c.calls, p)
  <2>1. calls \in Seq(Pairs)
    BY <1>1, <1>2 DEF Chunks
  <2>2. d = [c EXCEPT !.empty = FALSE, !.calls = calls]
    BY <1>1 DEF ChunkWith, Chunks
  <2> HIDE DEF calls, d
  <2> QED  BY <1>1, <2>1, <2>2 DEF Chunks, calls
<1>6. z = [a EXCEPT !.got = got, !.strayed = strayed]
  BY DEF After, Contents
<1> HIDE DEF d, p, strayed
<1>7. CallsGrown(d, w, w.got \o Append(k, p), a.told)
  BY <1>1, <1>2, <1>5, CallsMore
<1>8. Pieces(got, CallKinds) = IF p[1] \in CallKinds THEN Append(k, p) ELSE k
  BY <1>2, PieceMore
<1>9. FieldsTold(d, got)
  BY <1>1, <1>2, <1>4, <1>5, FieldsSame
<1> HIDE DEF z, got
<1>10. z.told = a.told /\ z.failed = a.failed /\ z.finished = a.finished /\ z.got = got
  BY <1>6 DEF Answers
<1>11. CallsRead(d, w, z)
  BY <1>2, <1>7, <1>8, <1>10 DEF CallsRead, CallsGrown
<1>12. ChunkMarks(d, b, z)
  BY <1>1, <1>3, <1>5, <1>10 DEF ChunkMarks
<1> QED  BY <1>5, <1>9, <1>10, <1>11, <1>12 DEF ChunkTied, d, z

LEMMA ChunkOther ==
  ASSUME NEW w \in Views, NEW b \in Answers, NEW a \in Answers, NEW c, ChunkTied(c, w, b, a), a.legal, Settled(a),
         NEW e \in Occurrences, Allowed(a, e),
         e.kind \in {"start", "toolstop", "blockstart", "blockstop", "stop", "usage", "error"}
  PROVE  ChunkTied(ChunkWith(c, e), w, b, After(a, e))
<1> DEFINE d == ChunkWith(c, e)
           z == After(a, e)
<1>1. c \in Chunks /\ FieldsTold(c, a.got) /\ CallsRead(c, w, a) /\ ChunkMarks(c, b, a)
  BY DEF ChunkTied
<1>2. /\ d \in Chunks /\ d.calls = c.calls /\ d.done = c.done /\ d.empty = FALSE
      /\ d.text = c.text /\ d.refusal = c.refusal /\ d.thinking = c.thinking
      /\ (d.finish <=> c.finish \/ e.kind = "stop") /\ (d.error <=> c.error \/ e.kind = "error")
  BY <1>1 DEF ChunkWith, Chunks
<1>3. /\ z.told = a.told /\ z.got = a.got
      /\ (z.finished <=> a.finished \/ e.kind = "stop") /\ (z.failed <=> a.failed \/ e.kind = "error")
  BY DEF After, Contents, Answers
<1>4. e.kind = "stop" => a.failed \/ ~a.finished
  BY DEF Allowed, Contents
<1>5. e.kind = "error" => ~a.finished
  BY DEF Allowed, Contents
<1> HIDE DEF d, z
<1>6. FieldsTold(d, z.got)
  BY <1>1, <1>2, <1>3 DEF FieldsTold
<1>7. CallsRead(d, w, z)
  BY <1>1, <1>2, <1>3, CallsSame
<1>8. ChunkMarks(d, b, z)
  BY <1>1, <1>2, <1>3, <1>4, <1>5 DEF ChunkMarks
<1> QED  BY <1>2, <1>6, <1>7, <1>8 DEF ChunkTied, d, z

LEMMA ChunkStep ==
  ASSUME NEW w \in Views, NEW b \in Answers, NEW a \in Answers, NEW c, ChunkTied(c, w, b, a), a.legal, Settled(a),
         NEW e \in Occurrences, Allowed(a, e), e.kind # "done"
  PROVE  ChunkTied(ChunkWith(c, e), w, b, After(a, e))
<1>1. e.kind \in Kinds
  BY DEF Occurrences
<1>2. CASE e.kind \in Contents
  BY <1>2, ChunkContent
<1>3. CASE e.kind = "toolstart"
  BY <1>3, ChunkToolStart
<1>4. CASE e.kind \in {"toolargs", "tooldelta"}
  BY <1>4, ChunkArguments
<1>5. CASE e.kind \in {"start", "toolstop", "blockstart", "blockstop", "stop", "usage", "error"}
  BY <1>5, ChunkOther
<1> QED  BY <1>1, <1>2, <1>3, <1>4, <1>5 DEF Kinds, Contents

\* The chunk of all the events the decoder gives at once.
LEMMA ChunkRun ==
  ASSUME NEW w \in Views, NEW b \in Answers, b.got = <<>>, ~b.failed, Settled(b), w.next = b.told,
         NEW s \in Seq(Occurrences), Took(b, s).legal, b.legal, \A i \in 1..Len(s) : s[i].kind # "done"
  PROVE  /\ ChunkTied(FoldLeft(ChunkWith, Chunk, s), w, b, Took(b, s))
         /\ Took(b, s) \in Answers /\ Settled(Took(b, s))
<1> DEFINE hr == By("chunk")
           ha == By("take")
           c0 == Chunk
<1>1. ChunkTied(c0, w, b, b)
  <2> DEFINE none == <<>>
             calls == none
  <2>1. c0.text = 0 /\ c0.refusal = 0 /\ c0.thinking = 0 /\ c0.calls = none /\ c0.finish = FALSE /\ c0.error = FALSE
        /\ c0.done = FALSE /\ c0.empty = TRUE
    BY DEF Chunk
  <2>2. none \in Seq(Pairs)
    OBVIOUS
  <2>3. c0 \in Chunks
    BY <2>2 DEF Chunk, Chunks
  <2>4. \A kinds : Pieces(none, kinds) = none
    BY PiecesNone
  <2>5. Folded(By("readCall"), w, none) = w
    BY FoldedEmpty
  <2> HIDE DEF c0
  <2>6. FieldsTold(c0, b.got)
    BY <2>1, <2>4 DEF FieldsTold, Told
  <2>7. w.got \o none = w.got
    BY DEF Views
  <2>8. CallsRead(c0, w, b)
    <3>1. Pieces(b.got, CallKinds) = none
      BY <2>4
    <3>2. [w EXCEPT !.got = w.got, !.next = w.next] = w
      BY DEF Views
    <3> HIDE DEF none
    <3>3. w.got \o Pieces(b.got, CallKinds) = w.got
      BY <2>7, <3>1
    <3> QED  BY <2>1, <2>5, <3>2, <3>3 DEF CallsRead
  <2>9. ChunkMarks(c0, b, b)
    BY <2>1 DEF ChunkMarks, Answers
  <2> QED  BY <2>3, <2>6, <2>8, <2>9 DEF ChunkTied
<1> HIDE DEF c0
<1>2. PICK x : /\ x[0] = c0 /\ x[Len(s)] = Folded(hr, c0, s)
               /\ \A i \in 1..Len(s) : x[i] = StepOf(hr, x[i - 1], s[i])
  BY FoldedGoes
<1>3. PICK y : /\ y[0] = b /\ y[Len(s)] = Folded(ha, b, s)
               /\ \A i \in 1..Len(s) : y[i] = StepOf(ha, y[i - 1], s[i])
  BY FoldedGoes
<1>4. \A i \in 1..Len(s) : x[i] = ChunkWith(x[i - 1], s[i]) /\ y[i] = Take(y[i - 1], s[i])
  BY <1>2, <1>3 DEF StepOf, By
<1> DEFINE G == {i \in Nat : i <= Len(s) /\ y[i].legal => ChunkTied(x[i], w, b, y[i]) /\ y[i] \in Answers /\ Settled(y[i])}
<1>5. 0 \in G
  BY <1>1, <1>2, <1>3
<1>6. ASSUME NEW i \in Nat, i \in G PROVE i + 1 \in G
  <2> SUFFICES ASSUME i + 1 <= Len(s), y[i + 1].legal
               PROVE  ChunkTied(x[i + 1], w, b, y[i + 1]) /\ y[i + 1] \in Answers /\ Settled(y[i + 1])
    OBVIOUS
  <2> DEFINE e == s[i + 1]
             a == y[i]
             n == x[i]
  <2>1. e \in Occurrences /\ e.kind # "done" /\ x[i + 1] = ChunkWith(n, e) /\ y[i + 1] = Take(a, e)
    <3>1. i + 1 \in 1..Len(s) /\ (i + 1) - 1 = i
      OBVIOUS
    <3> QED  BY <1>4, <3>1
  <2>2. a.legal /\ Allowed(a, e)
    BY <2>1, TakeLegal
  <2>3. ChunkTied(n, w, b, a) /\ a \in Answers /\ Settled(a)
    BY <1>6, <2>2
  <2> HIDE DEF e, a, n
  <2>4. Take(a, e) = After(a, e) /\ After(a, e) \in Answers
    BY <2>1, <2>2, <2>3, TakeLawful
  <2>5. ChunkTied(ChunkWith(n, e), w, b, After(a, e))
    BY <2>1, <2>2, <2>3, ChunkStep
  <2>6. Settled(After(a, e))
    BY <2>1, <2>2, <2>3, SettledAfter
  <2> QED  BY <2>1, <2>4, <2>5, <2>6
<1> HIDE DEF G
<1>7. Len(s) \in Nat
  OBVIOUS
<1>8. Len(s) \in G
  BY <1>5, <1>6, <1>7, Upward
<1>9. FoldLeft(ChunkWith, Chunk, s) = x[Len(s)] /\ Took(b, s) = y[Len(s)]
  BY <1>2, <1>3, FoldChunkWith DEF Took, c0
<1> QED  BY <1>7, <1>8, <1>9 DEF G

Field(n, what) == If(n > 0, <<<<what, 0>>>>)
Texts(c) == Field(c.thinking, "thinking") \o Field(c.text, "text") \o Field(c.refusal, "refusal")
TextKinds == {"text", "refusal", "thinking"}

\* No text, refusal or thought twice.
Single(got) == \A what \in TextKinds : Len(Pieces(got, {what})) <= 1

LEMMA PiecesNobody == ASSUME NEW S PROVE \A s \in Seq(S) : Pieces(s, {}) = <<>>
<1> DEFINE none == <<>>
           G == {n \in Nat : \A s \in Seq(S) : Len(s) = n => Pieces(s, {}) = none}
<1>1. 0 \in G
  <2>1. \A s \in Seq(S) : Len(s) = 0 => s = <<>>
    OBVIOUS
  <2> QED  BY <2>1, PiecesNone
<1>2. ASSUME NEW n \in Nat, n \in G PROVE n + 1 \in G
  <2> SUFFICES ASSUME NEW s \in Seq(S), Len(s) = n + 1 PROVE Pieces(s, {}) = none
    OBVIOUS
  <2>1. PICK f \in Seq(S), x \in S : s = Append(f, x) /\ Len(s) = Len(f) + 1
    BY SplitLast
  <2>2. Len(f) = n
    BY <2>1
  <2>3. Pieces(f, {}) = none
    BY <1>2, <2>2
  <2> DEFINE kinds == {}
  <2>4. ~(x[1] \in kinds)
    OBVIOUS
  <2> HIDE DEF kinds, none
  <2>5. Pieces(Append(f, x), kinds) = IF x[1] \in kinds THEN Append(Pieces(f, kinds), x) ELSE Pieces(f, kinds)
    BY PiecesAppend
  <2>6. Pieces(s, kinds) = Pieces(f, kinds)
    BY <2>1, <2>4, <2>5
  <2> QED  BY <2>3, <2>6 DEF kinds
<1> HIDE DEF G
<1>3. \A n \in Nat : n \in G
  BY <1>1, <1>2, Upward
<1> SUFFICES ASSUME NEW s \in Seq(S) PROVE Pieces(s, {}) = none
  OBVIOUS
<1>4. Len(s) \in Nat
  OBVIOUS
<1> QED  BY <1>3, <1>4 DEF G

LEMMA FieldPieces ==
  ASSUME NEW n \in Nat, NEW what \in Words, NEW kinds
  PROVE  /\ Field(n, what) \in Seq(Pairs)
         /\ Pieces(Field(n, what), kinds) = IF what \in kinds THEN Field(n, what) ELSE <<>>
<1> DEFINE none == <<>>
           p == <<what, 0>>
           one == Append(none, p)
<1>1. p \in Pairs /\ p[1] = what
  BY DEF Pairs
<1>2. none \in Seq(Pairs) /\ Pieces(none, kinds) = none
  BY PiecesNone
<1>3. Field(n, what) = IF n > 0 THEN one ELSE none
  BY DEF Field, If
<1> HIDE DEF none, p
<1>4. one \in Seq(Pairs)
  BY <1>1, <1>2
<1>5. Pieces(one, kinds) = IF p[1] \in kinds THEN Append(Pieces(none, kinds), p) ELSE Pieces(none, kinds)
  BY <1>1, <1>2, PiecesAppend
<1> HIDE DEF one
<1>6. Pieces(one, kinds) = IF what \in kinds THEN one ELSE none
  BY <1>1, <1>2, <1>5 DEF one
<1>7. none = <<>>
  BY DEF none
<1> QED  BY <1>2, <1>3, <1>4, <1>6, <1>7

LEMMA TextsPieces ==
  ASSUME NEW c \in Chunks, NEW kinds
  PROVE  /\ Texts(c) \in Seq(Pairs)
         /\ Pieces(Texts(c), kinds) = (Pieces(Field(c.thinking, "thinking"), kinds) \o Pieces(Field(c.text, "text"), kinds))
                                       \o Pieces(Field(c.refusal, "refusal"), kinds)
<1> DEFINE th == Field(c.thinking, "thinking")
           tx == Field(c.text, "text")
           rf == Field(c.refusal, "refusal")
<1>1. c.thinking \in Nat /\ c.text \in Nat /\ c.refusal \in Nat /\ "thinking" \in Words /\ "text" \in Words /\ "refusal" \in Words
  BY DEF Chunks, Words
<1>2. th \in Seq(Pairs)
  BY <1>1, FieldPieces
<1>3. tx \in Seq(Pairs)
  BY <1>1, FieldPieces
<1>4. rf \in Seq(Pairs)
  BY <1>1, FieldPieces
<1>5. Texts(c) = (th \o tx) \o rf
  BY DEF Texts
<1> HIDE DEF th, tx, rf
<1> DEFINE tt == th \o tx
<1>6. tt \in Seq(Pairs)
  BY <1>2, <1>3
<1>7. Pieces(tt, kinds) = Pieces(th, kinds) \o Pieces(tx, kinds)
  BY <1>2, <1>3, PiecesOn
<1> HIDE DEF tt
<1>8. Pieces(tt \o rf, kinds) = Pieces(tt, kinds) \o Pieces(rf, kinds)
  BY <1>4, <1>6, PiecesOn
<1>9. Texts(c) = tt \o rf /\ Texts(c) \in Seq(Pairs)
  BY <1>4, <1>5, <1>6 DEF tt
<1>10. Pieces(Texts(c), kinds) = (Pieces(th, kinds) \o Pieces(tx, kinds)) \o Pieces(rf, kinds)
  BY <1>7, <1>8, <1>9
<1> QED  BY <1>9, <1>10 DEF th, tx, rf

LEMMA FieldIs ==
  ASSUME NEW n \in {0, 1}, NEW got, NEW what, Told(n, got, what), Len(Pieces(got, {what})) <= 1,
         Len(Pieces(got, {what})) \in Nat
  PROVE  Pieces(got, {what}) = Field(n, what)
<1>1. CASE n = 0
  BY <1>1 DEF Told, Field, If
<1>2. CASE n = 1
  <2>1. Field(n, what) = <<<<what, 0>>>>
    BY <1>2 DEF Field, If
  <2> DEFINE k == Pieces(got, {what})
  <2>2. Len(k) >= 1 /\ (Len(k) = 1 => k = <<<<what, 0>>>>)
    BY <1>2 DEF Told
  <2>3. Len(k) <= 1 /\ Len(k) \in Nat
    OBVIOUS
  <2> HIDE DEF k
  <2>4. Len(k) = 1
    BY SMTT(30), <2>2, <2>3
  <2> QED  BY <2>1, <2>2, <2>4 DEF k
<1> QED  BY <1>1, <1>2

\* The chunk shows the client what it has, when no field had to hold two pieces.
ShowsAll(g, got) == \A kinds \in ChatFields : Pieces(g, kinds) = Pieces(got, kinds)

LEMMA ChunkShows ==
  ASSUME NEW got \in Seq(Pairs), NEW c \in Chunks, FieldsTold(c, got), Single(got)
  PROVE  ShowsAll(Texts(c) \o Pieces(got, CallKinds), got)
<1> DEFINE t == Texts(c)
           k == Pieces(got, CallKinds)
           none == <<>>
<1>1. k \in Seq(Pairs)
  BY PiecesSeq
<1>2. \A kinds : t \in Seq(Pairs) /\ Pieces(t, kinds) = (Pieces(Field(c.thinking, "thinking"), kinds) \o Pieces(Field(c.text, "text"), kinds))
                                       \o Pieces(Field(c.refusal, "refusal"), kinds)
  BY TextsPieces
<1>3. /\ c.thinking \in {0, 1} /\ c.text \in {0, 1} /\ c.refusal \in {0, 1}
      /\ c.thinking \in Nat /\ c.text \in Nat /\ c.refusal \in Nat
      /\ "thinking" \in Words /\ "text" \in Words /\ "refusal" \in Words
  BY DEF Chunks, Words
<1>4. \A kinds : /\ Field(c.thinking, "thinking") \in Seq(Pairs)
                 /\ Pieces(Field(c.thinking, "thinking"), kinds) = IF "thinking" \in kinds THEN Field(c.thinking, "thinking") ELSE none
  BY <1>3, FieldPieces
<1>5. \A kinds : /\ Field(c.text, "text") \in Seq(Pairs)
                 /\ Pieces(Field(c.text, "text"), kinds) = IF "text" \in kinds THEN Field(c.text, "text") ELSE none
  BY <1>3, FieldPieces
<1>6. \A kinds : /\ Field(c.refusal, "refusal") \in Seq(Pairs)
                 /\ Pieces(Field(c.refusal, "refusal"), kinds) = IF "refusal" \in kinds THEN Field(c.refusal, "refusal") ELSE none
  BY <1>3, FieldPieces
<1>7. \A kinds : Pieces(t \o k, kinds) = Pieces(t, kinds) \o Pieces(k, kinds)
  <2> SUFFICES ASSUME NEW kinds PROVE Pieces(t \o k, kinds) = Pieces(t, kinds) \o Pieces(k, kinds)
    OBVIOUS
  <2>1. t \in Seq(Pairs)
    BY <1>2
  <2> HIDE DEF t, k
  <2> QED  BY <1>1, <2>1, PiecesOn
<1>8. \A what \in TextKinds : Len(Pieces(got, {what})) <= 1 /\ Len(Pieces(got, {what})) \in Nat
  <2>1. \A what : Pieces(got, {what}) \in Seq(Pairs)
    BY PiecesSeq
  <2> QED  BY <2>1 DEF Single
<1>9. Pieces(k, {"text"}) = none /\ Pieces(k, {"refusal"}) = none /\ Pieces(k, {"thinking"}) = none
  <2>1. \A what \in TextKinds : Pieces(k, {what}) = none
    <3> SUFFICES ASSUME NEW what \in TextKinds PROVE Pieces(k, {what}) = none
      OBVIOUS
    <3> DEFINE some == {what}
               both == {}
    <3>1. \A x : x \in both <=> x \in CallKinds /\ x \in some
      BY DEF TextKinds, CallKinds
    <3> HIDE DEF some, both
    <3>2. Pieces(Pieces(got, CallKinds), some) = Pieces(got, both)
      BY <3>1, PiecesOf
    <3>3. Pieces(got, both) = <<>>
      BY PiecesNobody DEF both
    <3> QED  BY <3>2, <3>3 DEF some
  <2> QED  BY <2>1 DEF TextKinds
<1>10. Pieces(k, CallKinds) = k
  <2>1. \A x : x \in CallKinds <=> x \in CallKinds /\ x \in CallKinds
    OBVIOUS
  <2> DEFINE kk == CallKinds
  <2>2. \A x : x \in kk <=> x \in CallKinds /\ x \in kk
    OBVIOUS
  <2> HIDE DEF kk
  <2>3. Pieces(Pieces(got, CallKinds), kk) = Pieces(got, kk)
    BY <2>2, PiecesOf
  <2> QED  BY <2>3 DEF kk
<1>11. Pieces(got, {"text"}) = Field(c.text, "text")
  <2>1. Len(Pieces(got, {"text"})) <= 1 /\ Len(Pieces(got, {"text"})) \in Nat /\ Told(c.text, got, "text")
    BY <1>8 DEF TextKinds, FieldsTold
  <2> QED  BY <1>3, <2>1, FieldIs
<1>12. Pieces(got, {"refusal"}) = Field(c.refusal, "refusal")
  <2>1. Len(Pieces(got, {"refusal"})) <= 1 /\ Len(Pieces(got, {"refusal"})) \in Nat /\ Told(c.refusal, got, "refusal")
    BY <1>8 DEF TextKinds, FieldsTold
  <2> QED  BY <1>3, <2>1, FieldIs
<1>13. Pieces(got, {"thinking"}) = Field(c.thinking, "thinking")
  <2>1. Len(Pieces(got, {"thinking"})) <= 1 /\ Len(Pieces(got, {"thinking"})) \in Nat /\ Told(c.thinking, got, "thinking")
    BY <1>8 DEF TextKinds, FieldsTold
  <2> QED  BY <1>3, <2>1, FieldIs
<1>14. \A x \in Seq(Pairs) : x \o none = x /\ none \o x = x
  OBVIOUS
<1>15. none \in Seq(Pairs)
  OBVIOUS
<1>16. /\ Pieces(t, {"text"}) = (none \o Field(c.text, "text")) \o none
       /\ Pieces(t, {"refusal"}) = (none \o none) \o Field(c.refusal, "refusal")
       /\ Pieces(t, {"thinking"}) = (Field(c.thinking, "thinking") \o none) \o none
       /\ Pieces(t, CallKinds) = (none \o none) \o none
  <2>1. \A what \in TextKinds :
          Pieces(t, {what}) = (Pieces(Field(c.thinking, "thinking"), {what}) \o Pieces(Field(c.text, "text"), {what}))
                              \o Pieces(Field(c.refusal, "refusal"), {what})
    BY <1>2
  <2>2. Pieces(t, CallKinds) = (Pieces(Field(c.thinking, "thinking"), CallKinds) \o Pieces(Field(c.text, "text"), CallKinds))
                              \o Pieces(Field(c.refusal, "refusal"), CallKinds)
    BY <1>2
  <2>3. /\ "thinking" \notin CallKinds /\ "text" \notin CallKinds /\ "refusal" \notin CallKinds
        /\ "thinking" \in TextKinds /\ "text" \in TextKinds /\ "refusal" \in TextKinds
    BY DEF CallKinds, TextKinds
  <2> HIDE DEF t, none
  <2>4. Pieces(t, {"text"}) = (none \o Field(c.text, "text")) \o none
    BY <1>4, <1>5, <1>6, <2>1, <2>3
  <2>5. Pieces(t, {"refusal"}) = (none \o none) \o Field(c.refusal, "refusal")
    BY <1>4, <1>5, <1>6, <2>1, <2>3
  <2>6. Pieces(t, {"thinking"}) = (Field(c.thinking, "thinking") \o none) \o none
    BY <1>4, <1>5, <1>6, <2>1, <2>3
  <2>7. Pieces(t, CallKinds) = (none \o none) \o none
    BY <1>4, <1>5, <1>6, <2>2, <2>3
  <2> QED  BY <2>4, <2>5, <2>6, <2>7
<1> HIDE DEF t, none, k
<1>17. Pieces(t \o k, {"text"}) = Pieces(got, {"text"})
  <2>1. Pieces(t, {"text"}) = Field(c.text, "text")
    BY <1>5, <1>14, <1>16
  <2> QED  BY <1>5, <1>7, <1>9, <1>11, <1>14, <2>1
<1>18. Pieces(t \o k, {"refusal"}) = Pieces(got, {"refusal"})
  <2>1. Pieces(t, {"refusal"}) = Field(c.refusal, "refusal")
    BY <1>6, <1>14, <1>15, <1>16
  <2> QED  BY <1>6, <1>7, <1>9, <1>12, <1>14, <2>1
<1>19. Pieces(t \o k, {"thinking"}) = Pieces(got, {"thinking"})
  <2>1. Pieces(t, {"thinking"}) = Field(c.thinking, "thinking")
    BY <1>4, <1>14, <1>15, <1>16
  <2> QED  BY <1>4, <1>7, <1>9, <1>13, <1>14, <2>1
<1>20. Pieces(t \o k, CallKinds) = Pieces(got, CallKinds)
  <2>1. Pieces(t, CallKinds) = none
    BY <1>14, <1>15, <1>16
  <2>2. none \o k = k
    BY <1>1, <1>14
  <2> QED  BY <1>7, <1>10, <2>1, <2>2 DEF k
<1> QED  BY <1>17, <1>18, <1>19, <1>20 DEF ShowsAll, ChatFields, t, k, CallKinds

ChatPhase(phase, a) ==
  IF a.failed THEN phase = "failed"
  ELSE IF a.finished THEN phase \in {"finished", "ended"} ELSE phase \in {"new", "open"}

\* A Chat client and the answer: the chunks keep nothing (inbound/openai/chat.go).
ChatTied(v, a) ==
  /\ v \in Views /\ v.ok /\ ~v.late /\ v.next = a.told /\ ChatPhase(v.phase, a)
  /\ Single(a.got) => ShowsAll(v.got, a.got)

LEMMA ReadsDone ==
  ASSUME NEW v
  PROVE  FoldLeft(ReadChat, v, <<[Chunk EXCEPT !.done = TRUE]>>) = [v EXCEPT !.phase = "ended"]
<1> DEFINE d == [Chunk EXCEPT !.done = TRUE]
           S == {d}
           s == <<d>>
<1>1. d.done
  BY DEF Chunk
<1>2. ReadChat(v, d) = [v EXCEPT !.phase = "ended"]
  BY <1>1 DEF ReadChat
<1>3. s \in Seq(S)
  OBVIOUS
<1> HIDE DEF d, S
<1>4. FoldLeft(ReadChat, v, s) = Folded(By("readChat"), v, s)
  BY <1>3, FoldReadChat
<1>5. Folded(By("readChat"), v, s) = StepOf(By("readChat"), v, d)
  BY FoldedOne
<1>6. StepOf(By("readChat"), v, d) = ReadChat(v, d)
  BY DEF StepOf, By
<1> QED  BY <1>2, <1>4, <1>5, <1>6 DEF s, d

LEMMA ReadsOne ==
  ASSUME NEW v, NEW c
  PROVE  FoldLeft(ReadChat, v, <<c>>) = ReadChat(v, c)
<1> DEFINE S == {c}
           s == <<c>>
<1>1. s \in Seq(S)
  OBVIOUS
<1> HIDE DEF S
<1>2. FoldLeft(ReadChat, v, s) = Folded(By("readChat"), v, s)
  BY <1>1, FoldReadChat
<1>3. Folded(By("readChat"), v, s) = StepOf(By("readChat"), v, c)
  BY FoldedOne
<1>4. StepOf(By("readChat"), v, c) = ReadChat(v, c)
  BY DEF StepOf, By
<1> QED  BY <1>2, <1>3, <1>4 DEF s

LEMMA ReadsNone ==
  ASSUME NEW v
  PROVE  FoldLeft(ReadChat, v, <<>>) = v
<1> DEFINE S == {}
           s == <<>>
<1>1. s \in Seq(S)
  OBVIOUS
<1> HIDE DEF S, s
<1>2. FoldLeft(ReadChat, v, s) = Folded(By("readChat"), v, s)
  BY <1>1, FoldReadChat
<1>3. Folded(By("readChat"), v, <<>>) = v
  BY FoldedEmpty
<1> QED  BY <1>2, <1>3 DEF s

\* What the client makes of a chunk, from the calls it reads.
ChunkRead(v, c, read) ==
  ReadChat(v, c) = [Must(read, read.got # v.got \/ c.finish => v.phase \in {"new", "open"})
               EXCEPT !.phase = IF c.error THEN "failed"
                                ELSE IF c.finish THEN "finished" ELSE IF read.phase = "new" THEN "open" ELSE read.phase]

LEMMA ReadsChunk ==
  ASSUME NEW v, NEW c \in Chunks, ~c.done, NEW read \in Views,
         read = Folded(By("readCall"), [v EXCEPT !.got = v.got \o Texts(c)], c.calls)
  PROVE  ChunkRead(v, c, read)
<1>1. c.calls \in Seq(Pairs)
  BY DEF Chunks
<1>2. FoldLeft(ReadCall, [v EXCEPT !.got = v.got \o Texts(c)], c.calls) = read
  BY <1>1, FoldReadCall
<1>3. Texts(c) = If(c.thinking > 0, <<<<"thinking", 0>>>>) \o If(c.text > 0, <<<<"text", 0>>>>) \o If(c.refusal > 0, <<<<"refusal", 0>>>>)
  BY DEF Texts, Field
<1> DEFINE t == Texts(c)
<1>4. ReadChat(v, c) = LET r == FoldLeft(ReadCall, [v EXCEPT !.got = v.got \o t], c.calls)
         IN [Must(r, r.got # v.got \/ c.finish => v.phase \in {"new", "open"})
               EXCEPT !.phase = IF c.error THEN "failed"
                                ELSE IF c.finish THEN "finished" ELSE IF Must(r, r.got # v.got \/ c.finish => v.phase \in {"new", "open"}).phase = "new" THEN "open"
                 ELSE Must(r, r.got # v.got \/ c.finish => v.phase \in {"new", "open"}).phase]
  BY <1>3 DEF ReadChat
<1>5. \A cond : Must(read, cond).phase = read.phase
  BY DEF Must, Views
<1> QED  BY <1>2, <1>4, <1>5 DEF ChunkRead

\* A chunk that is not empty.
LEMMA ChatChunkTied ==
  ASSUME NEW v \in Views, v.got = <<>>, NEW b \in Answers, b.got = <<>>, ~b.failed, ChatTied(v, b),
         NEW a \in Answers, NEW c, ChunkTied(c, [v EXCEPT !.got = v.got \o Texts(c)], b, a)
  PROVE  ChatTied(ReadChat(v, c), a)
<1> DEFINE t == Texts(c)
           k == Pieces(a.got, CallKinds)
           g == t \o k
           w == [v EXCEPT !.got = v.got \o Texts(c)]
           read == [w EXCEPT !.got = w.got \o k, !.next = a.told]
           none == <<>>
<1>1. c \in Chunks /\ FieldsTold(c, a.got) /\ CallsRead(c, w, a) /\ ChunkMarks(c, b, a)
  BY DEF ChunkTied
<1>2. v.ok /\ ~v.late /\ v.next = b.told /\ ChatPhase(v.phase, b)
  BY DEF ChatTied
<1>3. a.got \in Seq(Pairs) /\ a.told \in Nat
  BY DEF Answers
<1>4. k \in Seq(Pairs)
  BY <1>3, PiecesSeq
<1>5. t \in Seq(Pairs)
  BY <1>1, TextsPieces
<1> HIDE DEF t, k
<1>6. none \o t = t /\ g \in Seq(Pairs) /\ v.got = none
  BY <1>4, <1>5
<1>7. w = [v EXCEPT !.got = t]
  BY <1>6 DEF t
<1> HIDE DEF w, none
<1>8. w \in Views /\ w.got = t
  BY <1>5, <1>7 DEF Views
<1>9. read = [v EXCEPT !.got = g, !.next = a.told]
  BY <1>7, <1>8 DEF Views
<1> HIDE DEF g
<1>10. Folded(By("readCall"), w, c.calls) = read
  BY <1>1 DEF CallsRead, k
<1> HIDE DEF read
<1>11. read \in Views /\ read.phase = v.phase /\ read.ok /\ ~read.late /\ read.got = g /\ read.next = a.told
  BY <1>2, <1>3, <1>6, <1>9 DEF Views
<1> DEFINE cond == read.got # v.got \/ c.finish => v.phase \in {"new", "open"}
           phase == IF c.error THEN "failed"
                    ELSE IF c.finish THEN "finished" ELSE IF read.phase = "new" THEN "open" ELSE read.phase
           z == ReadChat(v, c)
<1>12. z = [Must(read, cond) EXCEPT !.phase = phase]
  <2>1. ~c.done
    BY <1>1 DEF ChunkMarks
  <2>2. read = Folded(By("readCall"), [v EXCEPT !.got = v.got \o Texts(c)], c.calls)
    BY <1>10 DEF w
  <2>3. c \in Chunks /\ read \in Views
    BY <1>1, <1>11
  <2>4. ChunkRead(v, c, read)
    BY <2>1, <2>2, <2>3, ReadsChunk
  <2> QED  BY <2>4 DEF ChunkRead
<1>13. cond
  <2>1. CASE b.finished
    <3>1. a.got = none /\ ~c.finish
      BY <1>1, <2>1 DEF ChunkMarks, none
    <3>2. \A kinds : Pieces(a.got, kinds) = none
      BY <3>1, PiecesNone DEF none
    <3>3. Len(none) = 0 /\ none \o none = none
      BY DEF none
    <3>4. c.text = 0 /\ c.refusal = 0 /\ c.thinking = 0
      BY <1>1, <3>2, <3>3 DEF FieldsTold, Told, Chunks
    <3>5. Field(c.text, "text") = none /\ Field(c.refusal, "refusal") = none /\ Field(c.thinking, "thinking") = none
      BY <3>4 DEF Field, If, none
    <3>6. t = none
      BY <3>3, <3>5 DEF t, Texts
    <3>7. k = none
      BY <3>2 DEF k
    <3>8. g = none
      BY <3>3, <3>6, <3>7 DEF g
    <3> QED  BY <1>6, <1>11, <3>1, <3>8
  <2>2. CASE ~b.finished
    BY <1>2, <2>2 DEF ChatPhase
  <2> QED  BY <2>1, <2>2
<1> HIDE DEF cond
<1>14. Must(read, cond) = read
  BY <1>11, <1>13 DEF Must, Views
<1>15. ChatPhase(phase, a) /\ phase \in {"new", "open", "finished", "ended", "failed"}
  BY <1>1, <1>2, <1>11 DEF ChatPhase, ChunkMarks, Chunks, Answers
<1> HIDE DEF phase
<1>16. z = [read EXCEPT !.phase = phase]
  BY <1>12, <1>14
<1> HIDE DEF z
<1>17. z \in Views /\ z.phase = phase /\ z.ok /\ ~z.late /\ z.got = g /\ z.next = a.told
  BY <1>11, <1>15, <1>16 DEF Views
<1>18. Single(a.got) => ShowsAll(g, a.got)
  BY <1>1, <1>3, ChunkShows DEF g, t, k
<1> QED  BY <1>15, <1>17, <1>18 DEF ChatTied, z

\* The Chat client keeps up with all the events the decoder gives at once.
LEMMA ChatRun ==
  ASSUME NEW v \in Views, v.got = <<>>, NEW b \in Answers, b.got = <<>>, ~b.failed, b.legal, Settled(b), ChatTied(v, b),
         NEW s \in Seq(Occurrences), Took(b, s).legal,
         (\E i \in 1..Len(s) : s[i].kind = "done") => s = <<Event("done")>>
  PROVE  ChatTied(FoldLeft(ReadChat, v, EncodeChat(s)), Took(b, s)) /\ Took(b, s) \in Answers /\ Settled(Took(b, s))
<1> DEFINE a == Took(b, s)
<1>1. CASE \E i \in 1..Len(s) : s[i].kind = "done"
  <2> DEFINE e == Event("done")
             d == [Chunk EXCEPT !.done = TRUE]
             z == [v EXCEPT !.phase = "ended"]
  <2>1. s = <<e>>
    BY <1>1
  <2>2. e \in Occurrences /\ e.kind = "done"
    BY DEF Event, Occurrences, Kinds
  <2>3. EncodeChat(s) = <<d>>
    <3>1. DOMAIN s = 1..Len(s)
      OBVIOUS
    <3> QED  BY <1>1, <3>1 DEF EncodeChat
  <2>4. FoldLeft(ReadChat, v, EncodeChat(s)) = z
    BY <2>3, ReadsDone
  <2> HIDE DEF e
  <2>5. a = Take(b, e)
    BY <2>1, TookOne
  <2>6. Allowed(b, e)
    BY <2>5, TakeLegal
  <2>7. a = After(b, e) /\ a \in Answers /\ Settled(a)
    BY <2>2, <2>5, <2>6, TakeLawful, SettledAfter
  <2>8. a = [b EXCEPT !.done = TRUE] /\ b.finished
    BY <2>2, <2>6, <2>7 DEF After, Allowed, Contents
  <2> HIDE DEF a
  <2>9. a.got = b.got /\ a.finished = b.finished /\ a.failed = b.failed /\ a.told = b.told
    BY <2>8 DEF Answers
  <2>10. z \in Views /\ z.ok = v.ok /\ z.late = v.late /\ z.next = v.next /\ z.phase = "ended" /\ z.got = v.got
    BY DEF Views
  <2> HIDE DEF z
  <2>11. ChatTied(z, a)
    BY <2>8, <2>9, <2>10 DEF ChatTied, ChatPhase, ShowsAll
  <2> QED  BY <2>4, <2>7, <2>11 DEF a
<1>2. CASE ~(\E i \in 1..Len(s) : s[i].kind = "done")
  <2> DEFINE c == FoldLeft(ChunkWith, Chunk, s)
             w == [v EXCEPT !.got = v.got \o Texts(c)]
  <2>1. DOMAIN s = 1..Len(s)
    OBVIOUS
  <2>2. EncodeChat(s) = IF c.empty THEN <<>> ELSE <<c>>
    BY <1>2, <2>1 DEF EncodeChat
  <2>3. \A i \in 1..Len(s) : s[i].kind # "done"
    BY <1>2
  <2>4. v.next = b.told
    BY DEF ChatTied
  <2>5. ChunkTied(c, v, b, a) /\ a \in Answers /\ Settled(a)
    BY <2>3, <2>4, ChunkRun
  <2>6. c \in Chunks
    BY <2>5 DEF ChunkTied
  <2>7. Texts(c) \in Seq(Pairs)
    BY <2>6, TextsPieces
  <2> HIDE DEF c
  <2>8. w \in Views /\ w.next = b.told
    <3> DEFINE g == v.got \o Texts(c)
    <3>1. g \in Seq(Pairs)
      <4>1. v.got \in Seq(Pairs)
        BY DEF Views
      <4> HIDE DEF c
      <4> QED  BY <2>7, <4>1
    <3> HIDE DEF g
    <3>2. [v EXCEPT !.got = g] \in Views /\ [v EXCEPT !.got = g].next = v.next
      BY <3>1 DEF Views
    <3> QED  BY <2>4, <3>2 DEF g
  <2> HIDE DEF w
  <2>9. ChunkTied(c, w, b, a)
    BY <2>3, <2>8, ChunkRun DEF c
  <2>10. CASE c.empty
    <3>1. FoldLeft(ReadChat, v, EncodeChat(s)) = v
      BY <2>2, <2>10, ReadsNone
    <3>2. a = b
      BY <2>5, <2>10 DEF ChunkTied, ChunkMarks
    <3> QED  BY <2>5, <3>1, <3>2
  <2>11. CASE ~c.empty
    <3>1. FoldLeft(ReadChat, v, EncodeChat(s)) = ReadChat(v, c)
      BY <2>2, <2>11, ReadsOne
    <3> HIDE DEF a
    <3>2. ChatTied(ReadChat(v, c), a)
      BY <2>5, <2>9, ChatChunkTied DEF w
    <3> QED  BY <2>5, <3>1, <3>2 DEF a
  <2> QED  BY <2>10, <2>11
<1> QED  BY <1>1, <1>2

(* ---- between two events of the provider ---- *)

LEMMA SeenNothing ==
  ASSUME NEW v
  PROVE  FoldLeft(ReadMessages, v, <<>>) = v /\ FoldLeft(ReadResponses, v, <<>>) = v
<1> DEFINE S == {}
           s == <<>>
<1>1. s \in Seq(S)
  OBVIOUS
<1> HIDE DEF S, s
<1>2. FoldLeft(ReadMessages, v, s) = Folded(By("readMessages"), v, s)
  BY <1>1, FoldReadMessages
<1>3. FoldLeft(ReadResponses, v, s) = Folded(By("readResponses"), v, s)
  BY <1>1, FoldReadResponses
<1>4. \A how : Folded(how, v, <<>>) = v
  BY FoldedEmpty
<1> QED  BY <1>2, <1>3, <1>4 DEF s

\* Between two events of the provider the frames have been written.
LEMMA MessagesRest ==
  ASSUME NEW m, NEW v, NEW a, MessagesTied(m, v, a)
  PROVE  MessagesTied([m EXCEPT !.out = <<>>], MessagesSeen(m, v), a)
<1> DEFINE none == <<>>
           q == [m EXCEPT !.out = none]
           u == MessagesSeen(m, v)
<1>1. m \in MessageEncoders /\ u \in Views /\ MessagesCoupled(m, u, a)
  BY DEF MessagesTied
<1>2. none \in Seq(MessageWires) /\ FoldLeft(ReadMessages, u, none) = u
  BY SeenNothing
<1> HIDE DEF none, u
<1>3. q \in MessageEncoders /\ q.out = none
  BY <1>1, <1>2 DEF MessageEncoders
<1>4. /\ q.started = m.started /\ q.index = m.index /\ q.open = m.open /\ q.tools = m.tools
      /\ q.finished = m.finished /\ q.stopped = m.stopped
  BY <1>1 DEF MessageEncoders
<1> HIDE DEF q
<1>5. MessagesSeen(q, u) = u
  BY <1>2, <1>3 DEF MessagesSeen
<1>6. MessagesCoupled(q, u, a)
  BY <1>1, <1>4 DEF MessagesCoupled, MessagesShape, MessagesShown, Opens
<1> QED  BY <1>1, <1>3, <1>5, <1>6 DEF MessagesTied, q, u, none

\* The next event's pieces are counted from none.
LEMMA MessagesFresh ==
  ASSUME NEW m, NEW v, NEW a \in Answers, MessagesTied(m, v, a), m.out = <<>>
  PROVE  MessagesTied(m, [v EXCEPT !.got = <<>>], [a EXCEPT !.got = <<>>])
<1> DEFINE none == <<>>
           u == [v EXCEPT !.got = none]
           b == [a EXCEPT !.got = none]
<1>1. FoldLeft(ReadMessages, v, none) = v /\ FoldLeft(ReadMessages, u, none) = u
  BY SeenNothing
<1>2. m.out = none
  OBVIOUS
<1>3. none \in Seq(Pairs) /\ Pieces(none, MessagesKinds) = none
  BY PiecesNone
<1> HIDE DEF none
<1>4. m \in MessageEncoders /\ v \in Views /\ MessagesCoupled(m, v, a)
  BY <1>1, <1>2 DEF MessagesTied, MessagesSeen
<1>5. u \in Views /\ u.got = none
  BY <1>3, <1>4 DEF Views
<1>6. /\ u.phase = v.phase /\ u.next = v.next /\ u.open = v.open /\ u.late = v.late /\ u.ok = v.ok
  BY <1>4 DEF Views
<1>7. /\ b.got = none /\ b.told = a.told /\ b.hot = a.hot /\ b.finished = a.finished /\ b.usage = a.usage
      /\ b.done = a.done /\ b.failed = a.failed /\ b.strayed = a.strayed
  BY DEF Answers
<1> HIDE DEF u, b
<1>8. MessagesCoupled(m, u, b)
  BY <1>3, <1>4, <1>5, <1>6, <1>7 DEF MessagesCoupled, MessagesShape, MessagesShown, Opens
<1>9. MessagesSeen(m, u) = u
  BY <1>1, <1>2 DEF MessagesSeen
<1> QED  BY <1>4, <1>5, <1>8, <1>9 DEF MessagesTied, u, b, none

EncoderKept(r, q) ==
  /\ q.created = r.created /\ q.message = r.message /\ q.reasoning = r.reasoning /\ q.part = r.part
  /\ q.finished = r.finished /\ q.completed = r.completed /\ q.why = r.why /\ q.item = r.item /\ q.content = r.content
  /\ q.order = r.order /\ q.text = r.text /\ q.refusal = r.refusal /\ q.thinking = r.thinking
  /\ q.signatures = r.signatures /\ q.calls = r.calls /\ q.echo = r.echo

LEMMA LayoutKept ==
  ASSUME NEW r \in ResponsesEncoders, NEW u, NEW q \in ResponsesEncoders, NEW t, Layout(r, u), EncoderKept(r, q), t.items = u.items, t.done = u.done
  PROVE  Layout(q, t)
<1>1. /\ q.message = r.message /\ q.reasoning = r.reasoning /\ q.item = r.item /\ q.calls = r.calls /\ q.echo = r.echo
  BY DEF EncoderKept
<1>0. r.message \in BOOLEAN /\ r.reasoning \in BOOLEAN /\ q.message \in BOOLEAN /\ q.reasoning \in BOOLEAN
  BY DEF ResponsesEncoders
<1>2. MessageFits(q, t.items)
  <2>1. \A what : Accumulated(q, what) = Accumulated(r, what)
    BY DEF Accumulated, EncoderKept
  <2>2. \A x : MessageItem(r, x) => MessageItem(q, x)
    BY <2>1 DEF MessageItem, EncoderKept
  <2> QED  BY <2>2 DEF Layout, MessageFits, EncoderKept
<1>3. ReasoningFits(q, t.items)
  BY DEF Layout, ReasoningFits, ReasoningItem, EncoderKept
<1>4. ~(q.message /\ q.reasoning) /\ q.echo = t.done
  BY <1>0, <1>1 DEF Layout
<1>5. Len(t.items) = IF q.message \/ q.reasoning THEN q.item + 1 ELSE q.item
  <2>1. Len(u.items) = IF r.message \/ r.reasoning THEN r.item + 1 ELSE r.item
    BY DEF Layout
  <2> QED  BY <1>0, <1>1, <2>1
<1>6. Past(q.item, q.calls, t.items) /\ CallsFit(q.item, q.calls, t.items)
  <2>1. Past(r.item, r.calls, u.items) /\ CallsFit(r.item, r.calls, u.items)
    BY DEF Layout
  <2> QED  BY <1>1, <2>1
<1> QED  BY <1>2, <1>3, <1>4, <1>5, <1>6 DEF Layout

LEMMA ResponsesRest ==
  ASSUME NEW r, NEW v, NEW a, NEW k, ResponsesTied(r, v, a, k)
  PROVE  ResponsesTied([r EXCEPT !.out = <<>>], ResponsesSeen(r, v), a, k)
<1> DEFINE none == <<>>
           q == [r EXCEPT !.out = none]
           u == ResponsesSeen(r, v)
<1>1. r \in ResponsesEncoders /\ u \in Views /\ ResponsesCoupled(r, u, a, k)
  BY DEF ResponsesTied
<1>2. none \in Seq(ItemWires) /\ FoldLeft(ReadResponses, u, none) = u
  BY SeenNothing
<1> HIDE DEF none, u
<1>3. q \in ResponsesEncoders /\ q.out = none
  BY <1>1, <1>2 DEF ResponsesEncoders
<1>4. EncoderKept(r, q)
  BY <1>1 DEF ResponsesEncoders, EncoderKept
<1> HIDE DEF q
<1>5. ResponsesSeen(q, u) = u
  BY <1>2, <1>3 DEF ResponsesSeen
<1>6. Layout(r, u) => Layout(q, u)
  <2> DEFINE t == u
  <2>1. t.items = u.items /\ t.done = u.done
    OBVIOUS
  <2> HIDE DEF t
  <2>2. ASSUME Layout(r, u) PROVE Layout(q, t)
    BY <1>1, <1>3, <1>4, <2>1, <2>2, LayoutKept
  <2> QED  BY <2>2 DEF t
<1>7. ResponsesCoupled(q, u, a, k)
  BY <1>1, <1>4, <1>6 DEF ResponsesCoupled, ResponsesMarks, EncoderKept
<1> QED  BY <1>1, <1>3, <1>5, <1>7 DEF ResponsesTied, q, u, none

LEMMA ResponsesFresh ==
  ASSUME NEW r, NEW v, NEW a \in Answers, NEW k, ResponsesTied(r, v, a, k), r.out = <<>>
  PROVE  ResponsesTied(r, [v EXCEPT !.got = <<>>], [a EXCEPT !.got = <<>>], k)
<1> DEFINE none == <<>>
           u == [v EXCEPT !.got = none]
           b == [a EXCEPT !.got = none]
<1>1. FoldLeft(ReadResponses, v, none) = v /\ FoldLeft(ReadResponses, u, none) = u
  BY SeenNothing
<1>2. r.out = none
  OBVIOUS
<1>3. none \in Seq(Pairs) /\ Pieces(none, k) = none
  BY PiecesNone
<1> HIDE DEF none
<1>4. r \in ResponsesEncoders /\ v \in Views /\ ResponsesCoupled(r, v, a, k)
  BY <1>1, <1>2 DEF ResponsesTied, ResponsesSeen
<1>5. u \in Views /\ u.got = none
  BY <1>3, <1>4 DEF Views
<1>6. /\ u.phase = v.phase /\ u.late = v.late /\ u.ok = v.ok /\ u.items = v.items /\ u.done = v.done
      /\ u.signatures = v.signatures
  BY <1>4 DEF Views
<1>7. /\ b.got = none /\ b.told = a.told /\ b.hot = a.hot /\ b.finished = a.finished /\ b.usage = a.usage
      /\ b.begun = a.begun /\ b.failed = a.failed /\ b.strayed = a.strayed /\ b.bare = a.bare /\ b.signed = a.signed
  BY DEF Answers
<1> HIDE DEF u, b
<1>8. EncoderKept(r, r)
  BY DEF EncoderKept
<1>9. Layout(r, v) => Layout(r, u)
  <2> DEFINE q == r
  <2>1. EncoderKept(r, q) /\ q \in ResponsesEncoders
    BY <1>4, <1>8
  <2> HIDE DEF q
  <2>2. ASSUME Layout(r, v) PROVE Layout(q, u)
    BY <1>4, <1>6, <2>1, <2>2, LayoutKept
  <2> QED  BY <2>2 DEF q
<1>10. ResponsesCoupled(r, u, b, k)
  BY <1>3, <1>4, <1>5, <1>6, <1>7, <1>9 DEF ResponsesCoupled, ResponsesMarks
<1>11. ResponsesSeen(r, u) = u
  BY <1>1, <1>2 DEF ResponsesSeen
<1> QED  BY <1>4, <1>5, <1>10, <1>11 DEF ResponsesTied, u, b, none

LEMMA ChatFresh ==
  ASSUME NEW v, NEW a \in Answers, ChatTied(v, a)
  PROVE  ChatTied([v EXCEPT !.got = <<>>], [a EXCEPT !.got = <<>>])
<1> DEFINE none == <<>>
           u == [v EXCEPT !.got = none]
           b == [a EXCEPT !.got = none]
<1>1. none \in Seq(Pairs)
  OBVIOUS
<1> HIDE DEF none
<1>2. v \in Views
  BY DEF ChatTied
<1>3. u \in Views /\ u.got = none
  BY <1>1, <1>2 DEF Views
<1>4. u.phase = v.phase /\ u.late = v.late /\ u.ok = v.ok /\ u.next = v.next
  BY <1>2 DEF Views
<1>5. b.got = none /\ b.told = a.told /\ b.finished = a.finished /\ b.failed = a.failed
  BY DEF Answers
<1> HIDE DEF u, b
<1>6. ChatTied(u, b)
  BY <1>3, <1>4, <1>5 DEF ChatTied, ChatPhase, ShowsAll
<1> QED  BY <1>6 DEF u, b, none

LEMMA AnswerFresh ==
  ASSUME NEW a \in Answers
  PROVE  /\ [a EXCEPT !.got = <<>>] \in Answers /\ [a EXCEPT !.got = <<>>].got = <<>>
         /\ Settled(a) => Settled([a EXCEPT !.got = <<>>])
         /\ [a EXCEPT !.got = <<>>].failed = a.failed /\ [a EXCEPT !.got = <<>>].legal = a.legal
<1> DEFINE none == <<>>
           b == [a EXCEPT !.got = none]
<1>1. none \in Seq(Pairs)
  OBVIOUS
<1> HIDE DEF none
<1>2. b \in Answers /\ b.got = none /\ b.failed = a.failed /\ b.legal = a.legal
  BY <1>1 DEF Answers
<1>3. b.told = a.told /\ b.hot = a.hot /\ b.finished = a.finished /\ b.usage = a.usage /\ b.done = a.done /\ b.bare = a.bare
  BY DEF Answers
<1> HIDE DEF b
<1>4. Settled(a) => Settled(b)
  BY <1>3 DEF Settled
<1> QED  BY <1>2, <1>4 DEF b, none

\* The pieces after those of the events so far: the signatures are counted one by one.
LEMMA SignedAfter ==
  ASSUME NEW a \in Answers, NEW n, a.signed = Folded(By("signed"), n, a.got), NEW e \in Occurrences
  PROVE  After(a, e).signed = Folded(By("signed"), n, After(a, e).got)
<1>1. \A x, y : StepOf(By("signed"), x, y) = Signed(x, y)
  BY DEF StepOf, By
<1>2. a.got \in Seq(Pairs)
  BY DEF Answers
<1>3. \A p \in Pairs : Folded(By("signed"), n, Append(a.got, p)) = Signed(a.signed, p)
  BY <1>1, <1>2, FoldedAppend
<1>4. CASE e.kind \in Contents
  <2> DEFINE p == <<e.kind, 0>>
             got == Append(a.got, p)
  <2>1. p \in Pairs /\ p[1] = e.kind
    BY <1>4 DEF Pairs, Words, Contents
  <2>2. After(a, e) = [a EXCEPT !.got = got, !.hot = FALSE, !.signed = IF e.kind = "signature" THEN a.signed + 1 ELSE a.signed]
    BY <1>4 DEF After, Contents
  <2>3. Folded(By("signed"), n, got) = Signed(a.signed, p)
    BY <1>3, <2>1
  <2> HIDE DEF got, p
  <2>4. After(a, e).got = got /\ After(a, e).signed = IF e.kind = "signature" THEN a.signed + 1 ELSE a.signed
    BY <2>2 DEF Answers
  <2> QED  BY <2>1, <2>3, <2>4 DEF Signed
<1>5. CASE e.kind = "toolstart"
  <2> DEFINE p == <<"call", e.tool>>
             got == Append(a.got, p)
             told == a.told + 1
  <2>1. p \in Pairs /\ p[1] = "call"
    BY DEF Pairs, Words, Occurrences
  <2>2. After(a, e) = IF e.tool = a.told THEN [a EXCEPT !.got = got, !.told = told, !.hot = TRUE] ELSE a
    BY <1>5 DEF After, Contents
  <2>3. Folded(By("signed"), n, got) = Signed(a.signed, p)
    BY <1>3, <2>1
  <2> HIDE DEF got, p, told
  <2>4. e.tool = a.told => After(a, e).got = got /\ After(a, e).signed = a.signed
    BY <2>2 DEF Answers
  <2> QED  BY <2>1, <2>2, <2>3, <2>4 DEF Signed
<1>6. CASE e.kind \in {"toolargs", "tooldelta"}
  <2> DEFINE p == <<"args", e.tool>>
             got == Append(a.got, p)
             strayed == a.strayed \/ ~(a.hot /\ e.tool + 1 = a.told)
  <2>1. p \in Pairs /\ p[1] = "args"
    BY DEF Pairs, Words, Occurrences
  <2>2. After(a, e) = [a EXCEPT !.got = got, !.strayed = strayed]
    BY <1>6 DEF After, Contents
  <2>3. Folded(By("signed"), n, got) = Signed(a.signed, p)
    BY <1>3, <2>1
  <2> HIDE DEF got, p, strayed
  <2>4. After(a, e).got = got /\ After(a, e).signed = a.signed
    BY <2>2 DEF Answers
  <2> QED  BY <2>1, <2>3, <2>4 DEF Signed
<1>7. CASE e.kind \notin Contents \union {"toolstart", "toolargs", "tooldelta"}
  <2>1. After(a, e).got = a.got /\ After(a, e).signed = a.signed
    BY <1>7 DEF After, Answers
  <2> QED  BY <2>1
<1> QED  BY <1>4, <1>5, <1>6, <1>7
===============================================================================
