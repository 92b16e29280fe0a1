---------------------------- MODULE FileToolsProofs ----------------------------
(***************************************************************************)
(* Proofs about FileTools.  The invariant follows the thread of a call:    *)
(* what it is going to write is short enough and what the call was meant   *)
(* to make, whatever others do; if nobody else changed the file it is what *)
(* it was until the call opens it, and empty from then until it is         *)
(* written.                                                                *)
(*                                                                         *)
(* The second part is about texts: the lines of a text make the text with  *)
(* newlines for its line breaks, and pages that meet make the lines        *)
(* between them.  What Lines, AsNewlines and Join are is shown from their  *)
(* recursion (Recursion), and what holds of all texts by its least         *)
(* counterexample (Least).                                                 *)
(***************************************************************************)
EXTENDS FileTools, TLAPS, SequenceTheorems, WellFoundedInduction

SizeInv ==
    /\ SizeBounded
    /\ \A r \in Runs : /\ thread[r] \in Working => Len(data[r]) <= MaxWrite
                       /\ thread[r] = "opened" => file \in Seq(Chars) /\ Len(file) <= MaxWrite

(* What the call was meant to make of the text it read. *)
Meant(r) ==
    /\ args[r].tool = "write_file" => data[r] = args[r].content
    /\ args[r].tool = "edit_file" => Edited(base[r], data[r], args[r].old, args[r].new)

TruthOf(r) ==
    /\ result[r] = "refused" \/ args[r].tool = "read_file" => file = base[r]
    /\ result[r] = "ok" =>
           /\ args[r].tool = "write_file" => file = args[r].content
           /\ args[r].tool = "edit_file" => Edited(base[r], file, args[r].old, args[r].new)

ThreadInv(r) ==
    /\ thread[r] \in Working => args[r].tool \in {"write_file", "edit_file"}
    /\ thread[r] = "begun" /\ alone[r] => file = base[r]
    /\ thread[r] = "checked" /\ alone[r] => file = base[r]
    /\ thread[r] \in Working => Meant(r)
    /\ thread[r] = "opened" /\ alone[r] => file = <<>>
    /\ thread[r] = "done" /\ alone[r] => TruthOf(r)

Inv == TypeOK /\ SizeInv /\ \A r \in Runs : ThreadInv(r)

-----------------------------------------------------------------------------
(* Texts *)

LEMMA OverlayType ==
    ASSUME NEW a \in Seq(Chars), NEW b \in Seq(Chars)
    PROVE  /\ Overlay(a, b) \in Seq(Chars)
           /\ Len(Overlay(a, b)) = IF Len(a) >= Len(b) THEN Len(a) ELSE Len(b)
           /\ b = <<>> => Overlay(a, b) = a
<1>1. CASE Len(a) >= Len(b)
  <2>1. SubSeq(b, Len(a) + 1, Len(b)) = <<>>
    BY <1>1, SubSeqEmpty
  <2> QED
    BY <1>1, <2>1 DEF Overlay
<1>2. CASE Len(a) < Len(b)
  <2>1. /\ SubSeq(b, Len(a) + 1, Len(b)) \in Seq(Chars)
        /\ Len(SubSeq(b, Len(a) + 1, Len(b))) = Len(b) - Len(a)
    BY <1>2, SubSeqProperties
  <2> QED
    BY <1>2, <2>1 DEF Overlay
<1> QED
  BY <1>1, <1>2

(* An edit at the first occurrence of an unambiguous text is exact. *)
LEMMA ReplacedIsEdited ==
    ASSUME NEW text \in Seq(Chars), NEW old \in Seq(Chars), NEW new \in Seq(Chars),
           NEW i \in Occurrences(text, old), ~Ambiguous(text, old)
    PROVE  /\ ReplacedAt(text, i, old, new) \in Seq(Chars)
           /\ Edited(text, ReplacedAt(text, i, old, new), old, new)
<1> DEFINE k == i - 1
<1> DEFINE rest == SubSeq(text, k + Len(old) + 1, Len(text))
<1>1. /\ i \in 1 .. Len(text) - Len(old) + 1
      /\ SubSeq(text, i, i + Len(old) - 1) = old
  BY DEF Occurrences
<1>2. k \in 0 .. Len(text) - Len(old) /\ k + 1 = i /\ k + Len(old) + 1 = i + Len(old)
  BY <1>1
<1>3. SubSeq(text, 1, k) \in Seq(Chars) /\ rest \in Seq(Chars)
  BY <1>2, SubSeqProperties
<1>4. SubSeq(text, k + 1, k + Len(old)) = old
  BY <1>1, <1>2
<1>5. text = SubSeq(text, 1, k) \o old \o rest
  <2>0. /\ 1 \in 1 .. Len(text) + 1
        /\ k \in 1 - 1 .. Len(text)
        /\ k + Len(old) \in k .. Len(text)
        /\ k + Len(old) \in 1 - 1 .. Len(text)
        /\ Len(text) \in k + Len(old) .. Len(text)
    BY <1>2
  <2> HIDE DEF k
  <2>1. SubSeq(text, 1, k) \o SubSeq(text, k + 1, k + Len(old)) = SubSeq(text, 1, k + Len(old))
    BY <2>0, ConcatAdjacentSubSeq
  <2>2. SubSeq(text, 1, k + Len(old)) \o rest = SubSeq(text, 1, Len(text))
    BY <2>0, ConcatAdjacentSubSeq
  <2> QED
    BY <1>4, <2>1, <2>2, SubSeqFull DEF k
<1>6. ReplacedAt(text, i, old, new) = SubSeq(text, 1, k) \o new \o rest
  BY <1>2 DEF ReplacedAt
<1>7. Edited(text, ReplacedAt(text, i, old, new), old, new)
  BY <1>2, <1>5, <1>6 DEF Edited
<1> QED
  BY <1>3, <1>6, <1>7

-----------------------------------------------------------------------------
(* The steps *)

LEMMA InitInv == Init => Inv
<1> SUFFICES ASSUME Init PROVE Inv
  OBVIOUS
<1>1. TypeOK
  BY FileToolsAssumption DEF Init, TypeOK, Working
<1>2. SizeInv
  BY FileToolsAssumption DEF Init, SizeInv, SizeBounded, Working
<1>3. \A r \in Runs : ThreadInv(r)
  BY DEF Init, ThreadInv, Working
<1> QED
  BY <1>1, <1>2, <1>3 DEF Inv

(* What a call that reads the file may do to its history. *)
Looks(r) ==
    \/ UNCHANGED <<base, alone>>
    \/ base' = [base EXCEPT ![r] = file] /\ alone' = [alone EXCEPT ![r] = TRUE]

LEMMA LooksAt ==
    ASSUME TypeOK, NEW r \in Runs, Looks(r)
    PROVE  /\ alone' \in [Runs -> BOOLEAN] /\ DOMAIN base' = Runs
           /\ \A s \in Runs \ {r} : base'[s] = base[s] /\ alone'[s] = alone[s]
           /\ (alone[r] => file = base[r]) => (alone'[r] => file = base'[r])
<1>1. CASE UNCHANGED <<base, alone>>
  BY <1>1 DEF TypeOK
<1>2. CASE base' = [base EXCEPT ![r] = file] /\ alone' = [alone EXCEPT ![r] = TRUE]
  BY <1>2 DEF TypeOK
<1> QED
  BY <1>1, <1>2 DEF Looks

(* A call ends without a change of the file. *)
LEMMA DoneKeepsInv ==
    ASSUME Inv, NEW r \in Runs, NEW what \in {"ok", "refused"}, Finish(r, what),
           thread[r] \in {"begun", "checked"},
           DOMAIN data' = Runs, \A s \in Runs \ {r} : data'[s] = data[s],
           UNCHANGED <<file, run, calls, args, pages>>, Looks(r),
           what = "refused" \/ args[r].tool = "read_file"
    PROVE  Inv'
<1>1. /\ thread' \in [Runs -> {"none", "queued", "begun", "checked", "opened", "done"}]
      /\ result' \in [Runs -> {None, "ok", "refused", "failed"}]
      /\ thread'[r] = "done" /\ result'[r] = what
      /\ \A s \in Runs \ {r} : /\ thread'[s] = thread[s] /\ result'[s] = result[s]
                               /\ base'[s] = base[s] /\ alone'[s] = alone[s]
      /\ alone' \in [Runs -> BOOLEAN] /\ DOMAIN base' = Runs
  BY LooksAt DEF Inv, TypeOK, Finish
<1>2. TypeOK'
  <2>1. \A s \in Runs : /\ thread'[s] \in Working => data'[s] \in Seq(Chars)
                        /\ thread'[s] # "none" => args[s] \in Calls
                        /\ run[s] = "waiting" => thread'[s] # "none"
    BY <1>1 DEF Inv, TypeOK, Working
  <2> QED
    BY <1>1, <2>1 DEF Inv, TypeOK, Working
<1>3. SizeInv'
  <2>1. \A s \in Runs : /\ thread'[s] \in Working => Len(data'[s]) <= MaxWrite
                        /\ thread'[s] = "opened" => file \in Seq(Chars) /\ Len(file) <= MaxWrite
    BY <1>1 DEF Inv, SizeInv, Working
  <2> QED
    BY <2>1 DEF Inv, SizeInv, SizeBounded, Working
<1>4. ASSUME NEW s \in Runs PROVE ThreadInv(s)'
  <2>1. CASE s # r
    BY <1>1, <1>4, <2>1 DEF Inv, ThreadInv, TruthOf, Meant, Working
  <2>2. CASE s = r
    <3>1. alone'[r] => file = base'[r]
      BY LooksAt DEF Inv, ThreadInv
    <3>2. alone'[r] => TruthOf(r)'
      BY <1>1, <3>1 DEF TruthOf
    <3> QED
      BY <1>1, <2>2, <3>2 DEF ThreadInv, Working
  <2> QED
    BY <2>1, <2>2
<1> QED
  BY <1>2, <1>3, <1>4 DEF Inv

(* A call that is checked: what is to be written is as short and as exact  *)
(* as the text that was checked.                                           *)
LEMMA GuardedKeepsInv ==
    ASSUME Inv, NEW r \in Runs, NEW text \in Seq(Chars),
           thread[r] = "begun", args[r].tool \in {"write_file", "edit_file"},
           Guarded(r, text),
           UNCHANGED <<file, run, calls, args, pages>>, Looks(r),
           args[r].tool = "write_file" => text = args[r].content,
           args[r].tool = "edit_file" => /\ base'[r] = file
                                         /\ Edited(file, text, args[r].old, args[r].new)
    PROVE  Inv'
<1>1. CASE Finish(r, "refused") /\ UNCHANGED data
  BY <1>1, DoneKeepsInv DEF Inv, TypeOK
<1>2. CASE /\ Len(text) <= MaxWrite
           /\ thread' = [thread EXCEPT ![r] = "checked"]
           /\ data' = [data EXCEPT ![r] = text]
           /\ UNCHANGED result
  <2>0. /\ alone' \in [Runs -> BOOLEAN] /\ DOMAIN base' = Runs
        /\ \A s \in Runs \ {r} : base'[s] = base[s] /\ alone'[s] = alone[s]
        /\ alone'[r] => file = base'[r]
    BY LooksAt DEF Inv, ThreadInv
  <2>1. TypeOK'
    BY <1>2, <2>0 DEF Inv, TypeOK, Working
  <2>2. SizeInv'
    BY <1>2 DEF Inv, TypeOK, SizeInv, SizeBounded, Working
  <2>3. ASSUME NEW s \in Runs PROVE ThreadInv(s)'
    <3>1. CASE s = r
      BY <1>2, <2>0, <3>1 DEF Inv, TypeOK, ThreadInv, Working, Meant
    <3>2. CASE s # r
      BY <1>2, <2>0, <3>2 DEF Inv, TypeOK, ThreadInv, Working, TruthOf, Meant
    <3> QED
      BY <3>1, <3>2
  <2> QED
    BY <2>1, <2>2, <2>3 DEF Inv
<1>3. Len(text) \in Nat
  OBVIOUS
<1> QED
  BY <1>1, <1>2, <1>3, FileToolsAssumption DEF Guarded

(* The file changes: the others are not alone any more. *)
LEMMA ChangeKeepsInv ==
    ASSUME Inv, NEW r \in Runs, NEW text \in Seq(Chars), thread[r] \in Working,
           Len(text) <= MaxWrite, file' = text, alone' \in [Runs -> BOOLEAN],
           \A s \in Runs \ {r} : ~alone'[s], DOMAIN pages' = Runs,
           thread' \in [Runs -> {"none", "queued", "begun", "checked", "opened", "done"}],
           result' \in [Runs -> {None, "ok", "refused", "failed"}],
           \A s \in Runs \ {r} : thread'[s] = thread[s] /\ result'[s] = result[s],
           thread'[r] \in {"opened", "done"},
           UNCHANGED <<run, calls, args, data, base>>,
           thread'[r] = "opened" => text = <<>>,
           thread'[r] = "done" /\ alone'[r] => TruthOf(r)'
    PROVE  Inv'
<1>1. TypeOK'
  BY DEF Inv, TypeOK, Working
<1>2. SizeInv'
  BY DEF Inv, TypeOK, SizeInv, SizeBounded, Working
<1>3. ASSUME NEW s \in Runs PROVE ThreadInv(s)'
  BY DEF Inv, TypeOK, ThreadInv, Working, Meant
<1> QED
  BY <1>1, <1>2, <1>3 DEF Inv

LEMMA NextInv == Inv /\ [Next]_vars => Inv'
<1> SUFFICES ASSUME Inv, [Next]_vars PROVE Inv'
  OBVIOUS
<1> USE FileToolsAssumption
<1>0. ASSUME NEW r \in Runs, NEW text, NEW undisturbed \in BOOLEAN, Change(r, text, undisturbed)
      PROVE  /\ file' = text /\ alone' \in [Runs -> BOOLEAN] /\ DOMAIN pages' = Runs
             /\ \A s \in Runs \ {r} : ~alone'[s]
             /\ alone'[r] = undisturbed
  BY <1>0 DEF Change
<1>1. ASSUME NEW r \in Runs, NEW what \in Calls, Call(r, what) PROVE Inv'
  <2>1. TypeOK'
    BY <1>1 DEF Inv, TypeOK, Call, Working
  <2>2. SizeInv'
    BY <1>1 DEF Inv, TypeOK, SizeInv, SizeBounded, Call, Working
  <2>3. ASSUME NEW s \in Runs PROVE ThreadInv(s)'
    BY <1>1 DEF Inv, TypeOK, ThreadInv, Call, Working, TruthOf, Meant
  <2> QED
    BY <2>1, <2>2, <2>3 DEF Inv
<1>2. ASSUME NEW r \in Runs, Return(r) PROVE Inv'
  <2>1. TypeOK'
    BY <1>2 DEF Inv, TypeOK, Return, Working
  <2>2. SizeInv'
    BY <1>2 DEF Inv, TypeOK, SizeInv, SizeBounded, Return, Working
  <2>3. ASSUME NEW s \in Runs PROVE ThreadInv(s)'
    BY <1>2 DEF Inv, TypeOK, ThreadInv, Return, Working, TruthOf, Meant
  <2> QED
    BY <2>1, <2>2, <2>3 DEF Inv
<1>3. ASSUME NEW r \in Runs, Cancel(r) PROVE Inv'
  <2>1. TypeOK'
    BY <1>3 DEF Inv, TypeOK, Cancel, Working
  <2>2. SizeInv'
    BY <1>3 DEF Inv, TypeOK, SizeInv, SizeBounded, Cancel, Working
  <2>3. ASSUME NEW s \in Runs PROVE ThreadInv(s)'
    BY <1>3 DEF Inv, TypeOK, ThreadInv, Cancel, Working, TruthOf, Meant
  <2> QED
    BY <2>1, <2>2, <2>3 DEF Inv
<1>4. ASSUME NEW r \in Runs, Begin(r) PROVE Inv'
  <2>1. TypeOK'
    BY <1>4 DEF Inv, TypeOK, Begin, Working
  <2>2. SizeInv'
    BY <1>4 DEF Inv, TypeOK, SizeInv, SizeBounded, Begin, Working
  <2>3. ASSUME NEW s \in Runs PROVE ThreadInv(s)'
    BY <1>4 DEF Inv, TypeOK, ThreadInv, Begin, Working, TruthOf, Meant
  <2> QED
    BY <2>1, <2>2, <2>3 DEF Inv
<1>5. ASSUME NEW r \in Runs, Read(r) PROVE Inv'
  <2>1. DOMAIN data' = Runs /\ \A s \in Runs \ {r} : data'[s] = data[s]
    BY <1>5 DEF Inv, TypeOK, Read
  <2>2. PICK what \in {"ok", "refused"} : Finish(r, what)
    BY <1>5 DEF Read
  <2> QED
    BY <1>5, <2>1, <2>2, DoneKeepsInv DEF Read, Looks
<1>6. ASSUME NEW r \in Runs, Write(r) PROVE Inv'
  <2>1. args[r].content \in Seq(Chars)
    BY <1>6 DEF Inv, TypeOK, Calls, Write
  <2> QED
    BY <1>6, <2>1, GuardedKeepsInv DEF Write, Looks
<1>7. ASSUME NEW r \in Runs, Edit(r) PROVE Inv'
  <2>0. Looks(r) /\ base'[r] = file
    BY <1>7 DEF Inv, TypeOK, Edit, Looks
  <2>1. CASE Finish(r, "refused") /\ UNCHANGED data
    BY <1>7, <2>0, <2>1, DoneKeepsInv DEF Inv, TypeOK, Edit
  <2>2. CASE /\ IsText /\ ~Ambiguous(file, args[r].old)
             /\ \E i \in First(file, args[r].old) :
                    Guarded(r, ReplacedAt(file, i, args[r].old, args[r].new))
    <3>1. PICK i \in First(file, args[r].old) :
              Guarded(r, ReplacedAt(file, i, args[r].old, args[r].new))
      BY <2>2
    <3>2. args[r].old \in Seq(Chars) /\ args[r].new \in Seq(Chars)
      BY <1>7 DEF Inv, TypeOK, Calls, Edit
    <3>3. /\ ReplacedAt(file, i, args[r].old, args[r].new) \in Seq(Chars)
          /\ Edited(file, ReplacedAt(file, i, args[r].old, args[r].new), args[r].old, args[r].new)
      BY <2>2, <3>2, ReplacedIsEdited DEF IsText, First
    <3> QED
      BY <1>7, <2>0, <3>1, <3>3, GuardedKeepsInv DEF Edit
  <2> QED
    BY <1>7, <2>1, <2>2 DEF Edit
<1>8. ASSUME NEW r \in Runs, Open(r) PROVE Inv'
  <2>1. CASE Change(r, <<>>, TRUE) /\ thread' = [thread EXCEPT ![r] = "opened"] /\ UNCHANGED result
    <3>1. Len(<<>>) <= MaxWrite /\ <<>> \in Seq(Chars)
      OBVIOUS
    <3> QED
      BY <1>0, <1>8, <2>1, <3>1, ChangeKeepsInv DEF Inv, TypeOK, Open, Working
  <2>2. CASE Finish(r, "refused") /\ UNCHANGED <<file, alone, pages>>
    BY <1>8, <2>2, DoneKeepsInv DEF Inv, TypeOK, Open, Looks
  <2> QED
    BY <1>8, <2>1, <2>2 DEF Open
<1>9. ASSUME NEW r \in Runs, WriteOut(r) PROVE Inv'
  <2>0. alone[r] \in BOOLEAN
    BY DEF Inv, TypeOK
  <2>1. /\ data[r] \in Seq(Chars) /\ Len(data[r]) <= MaxWrite
        /\ file \in Seq(Chars) /\ Len(file) <= MaxWrite
    BY <1>9 DEF Inv, TypeOK, SizeInv, WriteOut, Working
  <2>4. ASSUME NEW what \in {"ok", "failed"}, Finish(r, what)
        PROVE  /\ thread' \in [Runs -> {"none", "queued", "begun", "checked", "opened", "done"}]
               /\ result' \in [Runs -> {None, "ok", "refused", "failed"}]
               /\ \A s \in Runs \ {r} : thread'[s] = thread[s] /\ result'[s] = result[s]
               /\ thread'[r] = "done" /\ thread[r] \in Working
               /\ UNCHANGED <<run, calls, args, data, base>>
    BY <1>9, <2>4 DEF Inv, TypeOK, WriteOut, Finish, Working
  <2>2. CASE Change(r, Overlay(data[r], file), alone[r]) /\ Finish(r, "ok")
    <3>1. /\ Overlay(data[r], file) \in Seq(Chars)
          /\ Len(Overlay(data[r], file)) <= MaxWrite
          /\ file = <<>> => Overlay(data[r], file) = data[r]
      BY <2>1, OverlayType
    <3>2. alone[r] => TruthOf(r)'
      BY <1>9, <2>2, <3>1 DEF Inv, TypeOK, ThreadInv, WriteOut, Finish, Change, Working, TruthOf, Meant
    <3> QED
      BY <1>0, <2>0, <2>1, <2>2, <2>4, <3>1, <3>2, ChangeKeepsInv
  <2>3. CASE \E n \in 0 .. Len(data[r]) - 1 :
                 /\ Change(r, Overlay(SubSeq(data[r], 1, n), file), alone[r])
                 /\ Finish(r, "failed")
    <3>1. PICK n \in 0 .. Len(data[r]) - 1 :
              /\ Change(r, Overlay(SubSeq(data[r], 1, n), file), alone[r])
              /\ Finish(r, "failed")
      BY <2>3
    <3>2. SubSeq(data[r], 1, n) \in Seq(Chars) /\ Len(SubSeq(data[r], 1, n)) <= MaxWrite
      BY <2>1, <3>1, SubSeqProperties
    <3>3. /\ Overlay(SubSeq(data[r], 1, n), file) \in Seq(Chars)
          /\ Len(Overlay(SubSeq(data[r], 1, n), file)) <= MaxWrite
      BY <2>1, <3>2, OverlayType
    <3>4. TruthOf(r)'
      <4>1. result'[r] = "failed"
        BY <3>1 DEF Inv, TypeOK, Finish
      <4>2. args'[r].tool # "read_file"
        BY <1>9 DEF Inv, ThreadInv, WriteOut, Working
      <4> QED
        BY <4>1, <4>2 DEF TruthOf
    <3> QED
      BY <1>0, <2>0, <2>1, <2>4, <3>1, <3>3, <3>4, ChangeKeepsInv
  <2> QED
    BY <1>9, <2>2, <2>3 DEF WriteOut
<1>10. CASE UNCHANGED vars
  BY <1>10 DEF vars, Inv, TypeOK, SizeInv, SizeBounded, ThreadInv, TruthOf, Meant, Working
<1>11. ASSUME NEW r \in Runs, CallRead(r) \/ CallWrite(r) \/ CallEdit(r) PROVE Inv'
  <2>1. CASE CallRead(r)
    BY <2>1, <1>1 DEF CallRead, Calls
  <2>2. CASE CallWrite(r)
    BY <2>2, <1>1 DEF CallWrite, Calls
  <2>3. CASE CallEdit(r)
    BY <2>3, <1>1 DEF CallEdit, Calls
  <2> QED
    BY <1>11, <2>1, <2>2, <2>3
<1> QED
  BY <1>2, <1>3, <1>4, <1>5, <1>6, <1>7, <1>8, <1>9, <1>10, <1>11 DEF Next, Handler, Thread

LEMMA SpecInv == Spec => []Inv
<1> QED
  BY InitInv, NextInv, PTL DEF Spec

-----------------------------------------------------------------------------
(* Recursion: induction without an operator as parameter *)

(* Every set of numbers has a least one: induction is by the least counterexample. *)
LEMMA Least ==
    ASSUME NEW T, T \subseteq Nat, T # {}
    PROVE  \E n \in T : \A m \in T : n <= m
<1> DEFINE Less == {ss \in Nat \X Nat : ss[1] < ss[2]}
<1>1. IsWellFoundedOn(Less, Nat)
  BY NatLessThanWellFounded DEF OpToRel
<1>2. PICK n \in T : \A m \in T : <<m, n>> \notin Less
  <2> HIDE DEF Less
  <2> QED BY <1>1, WFMin
<1>3. ASSUME NEW m \in T, m < n PROVE FALSE
  BY <1>2, <1>3
<1> QED
  BY <1>3

(* What is true of 0 and goes from n - 1 to n is true up to N. *)
LEMMA UpTo ==
    ASSUME NEW N \in Nat, NEW G \in SUBSET Nat, 0 \in G,
           \A n \in 1 .. N : n - 1 \in G => n \in G
    PROVE  \A n \in 0 .. N : n \in G
<1> SUFFICES ASSUME NEW x \in 0 .. N, x \notin G PROVE FALSE
  OBVIOUS
<1> DEFINE T == {n \in 0 .. N : n \notin G}
<1>1. PICK n \in T : \A m \in T : n <= m
  <2> T \subseteq Nat /\ T # {}
    OBVIOUS
  <2> HIDE DEF T
  <2> QED BY Least
<1>2. n \in 1 .. N /\ n \notin G
  BY <1>1
<1>3. n - 1 \in G
  BY <1>1, <1>2
<1> QED
  BY <1>2, <1>3

(* f begins with a and takes a step at every number up to N. *)
Steps(f, N, a, step) == f[0] = a /\ \A n \in 1 .. N : f[n] = step[n][f[n - 1]]

(* A function is defined by its value at 0 and its step. *)
LEMMA Recursion ==
    ASSUME NEW A, NEW a \in A, NEW step \in [Nat -> [A -> A]], NEW N \in Nat
    PROVE  \E f \in [0 .. N -> A] : Steps(f, N, a, step)
<1> DEFINE Up(n, f) == f[0] = a /\ \A i \in 1 .. n : f[i] = step[i][f[i - 1]]
<1> DEFINE G == {n \in Nat : \E f \in [0 .. n -> A] : Up(n, f)}
<1>1. 0 \in G
  <2> DEFINE f == [i \in 0 .. 0 |-> a]
  <2>1. f \in [0 .. 0 -> A] /\ Up(0, f)
    OBVIOUS
  <2> HIDE DEF f
  <2> QED BY <2>1
<1>2. ASSUME NEW n \in 1 .. N, n - 1 \in G PROVE n \in G
  <2>1. PICK f \in [0 .. n - 1 -> A] : Up(n - 1, f)
    BY <1>2
  <2> DEFINE g == [i \in 0 .. n |-> IF i < n THEN f[i] ELSE step[n][f[n - 1]]]
  <2>2. f[n - 1] \in A /\ step[n][f[n - 1]] \in A
    OBVIOUS
  <2>3. g \in [0 .. n -> A]
    BY <2>2
  <2>4. ASSUME NEW i \in 1 .. n PROVE g[i] = step[i][g[i - 1]]
    <3>1. CASE i = n
      <4>1. g[n] = step[n][f[n - 1]] /\ g[n - 1] = f[n - 1]
        OBVIOUS
      <4> QED BY <3>1, <4>1
    <3>2. CASE i < n
      <4>1. g[i] = f[i] /\ g[i - 1] = f[i - 1]
        BY <3>2
      <4>2. f[i] = step[i][f[i - 1]]
        BY <3>2, <2>1
      <4> QED BY <4>1, <4>2
    <3> QED BY <3>1, <3>2
  <2>5. g[0] = a
    BY <2>1
  <2>6. Up(n, g)
    BY <2>4, <2>5
  <2> HIDE DEF g, Up
  <2> QED BY <2>3, <2>6
<1>3. N \in G
  <2>1. G \in SUBSET Nat
    OBVIOUS
  <2>2. \A n \in 1 .. N : n - 1 \in G => n \in G
    BY <1>2
  <2> HIDE DEF G
  <2>3. \A n \in 0 .. N : n \in G
    BY <1>1, <2>1, <2>2, UpTo, Zenon
  <2> QED BY <2>3
<1> QED
  BY <1>3 DEF Steps

-----------------------------------------------------------------------------
(* Join and Lines *)

(* f is what Join computes on its way through lines. *)
Joining(lines, f) ==
    /\ f \in [0 .. Len(lines) -> Seq(Chars)]
    /\ f[0] = <<>>
    /\ \A n \in 1 .. Len(lines) :
           f[n] = IF n = 1 THEN lines[1] ELSE f[n - 1] \o <<Newline>> \o lines[n]

LEMMA JoinIs ==
    ASSUME NEW lines \in Seq(Seq(Chars))
    PROVE  \E f : Joining(lines, f) /\ Join(lines) = f[Len(lines)]
<1> DEFINE N == Len(lines)
<1> DEFINE at(f, n) == IF n = 0 THEN <<>>
                       ELSE IF n = 1 THEN lines[1] ELSE f[n - 1] \o <<Newline>> \o lines[n]
<1> DEFINE Is(f) == f = [n \in 0 .. N |-> at(f, n)]
<1> DEFINE value(n, text) == IF n \in 1 .. N
                             THEN IF n = 1 THEN lines[1] ELSE text \o <<Newline>> \o lines[n]
                             ELSE <<>>
<1> DEFINE step == [n \in Nat |-> [text \in Seq(Chars) |-> value(n, text)]]
<1>1. N \in Nat /\ <<>> \in Seq(Chars)
  OBVIOUS
<1>2. step \in [Nat -> [Seq(Chars) -> Seq(Chars)]]
  <2>1. ASSUME NEW n \in Nat, NEW text \in Seq(Chars) PROVE value(n, text) \in Seq(Chars)
    BY FileToolsAssumption
  <2> HIDE DEF value
  <2> QED BY <2>1
<1>3. PICK f \in [0 .. N -> Seq(Chars)] : f[0] = <<>> /\ \A n \in 1 .. N : f[n] = step[n][f[n - 1]]
  <2> HIDE DEF step, N
  <2>1. \E f \in [0 .. N -> Seq(Chars)] : Steps(f, N, <<>>, step)
    BY <1>1, <1>2, Recursion, Zenon
  <2> QED BY <2>1 DEF Steps
<1>4. ASSUME NEW n \in 1 .. N
      PROVE  f[n] = IF n = 1 THEN lines[1] ELSE f[n - 1] \o <<Newline>> \o lines[n]
  <2>1. n \in Nat /\ n - 1 \in 0 .. N
    BY <1>1
  <2>2. step[n][f[n - 1]] = value(n, f[n - 1])
    <3>1. f[n - 1] \in Seq(Chars)
      <4> HIDE DEF N
      <4> QED BY <1>3, <2>1
    <3> HIDE DEF value
    <3> QED BY <2>1, <3>1
  <2>3. f[n] = value(n, f[n - 1])
    BY <1>3, <2>2
  <2> QED BY <2>3
<1>5. Is(f)
  <2>1. ASSUME NEW n \in 0 .. N PROVE f[n] = at(f, n)
    <3>1. CASE n = 0
      BY <1>3, <3>1
    <3>2. CASE n # 0
      <4>1. n \in 1 .. N
        BY <3>2
      <4> QED BY <1>4, <3>2, <4>1
    <3> QED BY <3>1, <3>2
  <2> HIDE DEF at, N
  <2>2. f = [n \in 0 .. N |-> f[n]]
    BY <1>3
  <2> QED BY <2>1, <2>2
<1> DEFINE c == CHOOSE g : Is(g)
<1>6. Join(lines) = c[N]
  BY DEF Join
<1>7. Is(c)
  <2> HIDE DEF Is
  <2> QED BY <1>5
<1> HIDE DEF c
<1>8. \A n \in 0 .. N : c[n] = f[n]
  <2> DEFINE G == {n \in 0 .. N : c[n] = f[n]}
  <2>1. 0 \in G
    BY <1>1, <1>3, <1>7
  <2>2. \A n \in 1 .. N : n - 1 \in G => n \in G
    <3> SUFFICES ASSUME NEW n \in 1 .. N, c[n - 1] = f[n - 1] PROVE c[n] = f[n]
      OBVIOUS
    <3>1. n \in 0 .. N /\ n # 0
      BY <1>1
    <3>2. c[n] = at(c, n)
      <4> HIDE DEF at, N
      <4> QED BY <1>7, <3>1
    <3>3. c[n] = IF n = 1 THEN lines[1] ELSE c[n - 1] \o <<Newline>> \o lines[n]
      BY <3>1, <3>2
    <3> QED BY <1>4, <3>3
  <2>3. G \in SUBSET Nat
    OBVIOUS
  <2>4. \A n \in 0 .. N : n \in G
    <3> HIDE DEF G, N
    <3> QED BY <1>1, <2>1, <2>2, <2>3, UpTo, Zenon
  <2> QED BY <2>4
<1>9. Joining(lines, f)
  BY <1>3, <1>4 DEF Joining
<1>10. c[N] = f[N]
  BY <1>1, <1>8
<1> QED
  BY <1>6, <1>9, <1>10

(* "\n".join of one more line. *)
LEMMA JoinAppend ==
    ASSUME NEW lines \in Seq(Seq(Chars)), NEW line \in Seq(Chars)
    PROVE  /\ Join(lines) \in Seq(Chars)
           /\ lines = <<>> => Join(lines) = <<>>
           /\ Join(Append(lines, line)) = IF lines = <<>> THEN line
                                          ELSE Join(lines) \o <<Newline>> \o line
<1> DEFINE more == Append(lines, line)
<1> DEFINE N == Len(lines)
<1>0. N \in Nat
  OBVIOUS
<1>1. /\ more \in Seq(Seq(Chars)) /\ Len(more) = N + 1
      /\ more[N + 1] = line /\ \A i \in 1 .. N : more[i] = lines[i]
  OBVIOUS
<1>2. PICK f : Joining(lines, f) /\ Join(lines) = f[N]
  BY JoinIs
<1>3. PICK g : Joining(more, g) /\ Join(more) = g[N + 1]
  BY <1>1, JoinIs
<1> HIDE DEF more
<1>4. \A n \in 0 .. N : g[n] = f[n]
  <2> DEFINE G == {n \in 0 .. N : g[n] = f[n]}
  <2>1. 0 \in G
    BY <1>2, <1>3 DEF Joining
  <2>2. \A n \in 1 .. N : n - 1 \in G => n \in G
    <3> SUFFICES ASSUME NEW n \in 1 .. N, n - 1 \in G PROVE n \in G
      OBVIOUS
    <3>1. f[n] = IF n = 1 THEN lines[1] ELSE f[n - 1] \o <<Newline>> \o lines[n]
      BY <1>2 DEF Joining
    <3>2. g[n] = IF n = 1 THEN more[1] ELSE g[n - 1] \o <<Newline>> \o more[n]
      <4>1. n \in 1 .. Len(more)
        BY <1>0, <1>1
      <4> QED BY <1>3, <4>1 DEF Joining
    <3>3. g[n - 1] = f[n - 1] /\ more[n] = lines[n] /\ (n = 1 => more[1] = lines[1])
      BY <1>1
    <3> QED BY <3>1, <3>2, <3>3
  <2>3. G \in SUBSET Nat
    OBVIOUS
  <2>4. \A n \in 0 .. N : n \in G
    <3> HIDE DEF G, N
    <3> QED BY <1>0, <2>1, <2>2, <2>3, UpTo, Zenon
  <2> QED BY <2>4
<1>5. g[N + 1] = IF N = 0 THEN line ELSE g[N] \o <<Newline>> \o line
  <2>1. g[N + 1] = IF N + 1 = 1 THEN more[1] ELSE g[(N + 1) - 1] \o <<Newline>> \o more[N + 1]
    <3>1. N + 1 \in 1 .. Len(more)
      BY <1>0, <1>1
    <3> QED BY <1>3, <3>1 DEF Joining
  <2>2. (N + 1) - 1 = N /\ (N + 1 = 1 <=> N = 0)
    BY <1>0
  <2>3. N + 1 = 1 => more[1] = line
    BY <1>1
  <2> HIDE DEF N
  <2> QED BY <1>1, <2>1, <2>2, <2>3
<1>6. g[N] = f[N] /\ f[N] \in Seq(Chars)
  BY <1>2, <1>4 DEF Joining
<1>7. lines = <<>> <=> N = 0
  OBVIOUS
<1>8. lines = <<>> => f[N] = <<>>
  BY <1>2, <1>7 DEF Joining
<1> QED
  BY <1>2, <1>3, <1>5, <1>6, <1>7, <1>8 DEF more

(* Texts are put together, and from the left or from the right alike. *)
LEMMA Glue ==
    /\ <<Newline>> \in Seq(Chars) /\ <<>> \in Seq(Chars)
    /\ \A s \in Seq(Chars) : s \o <<>> = s
    /\ \A s, t \in Seq(Chars) : s \o t \in Seq(Chars)
<1>1. <<Newline>> \in Seq(Chars) /\ <<>> \in Seq(Chars)
  BY FileToolsAssumption
<1>2. \A s \in Seq(Chars) : s \o <<>> = s
  BY ConcatEmptySeq
<1>3. \A s, t \in Seq(Chars) : s \o t \in Seq(Chars)
  BY ConcatProperties
<1> QED
  BY <1>1, <1>2, <1>3

LEMMA Associates ==
    \A s, t, u \in Seq(Chars) : (s \o t) \o u = s \o (t \o u)
<1> QED
  BY ConcatAssociative

(* What Lines has found on its way: the lines that ended, and the open one. *)
Scans == [done : Seq(Seq(Chars)), open : Seq(Chars)]

Scanned(text, n, before) ==
    IF Follows(text, n) THEN before
    ELSE IF text[n] \in Breaks THEN [done |-> Append(before.done, before.open), open |-> <<>>]
    ELSE [done |-> before.done, open |-> Append(before.open, text[n])]

LEMMA LinesIs ==
    ASSUME NEW text \in Seq(Chars)
    PROVE  \E f \in [0 .. Len(text) -> Scans] :
               /\ f[0] = [done |-> <<>>, open |-> <<>>]
               /\ \A n \in 1 .. Len(text) : f[n] = Scanned(text, n, f[n - 1])
               /\ Lines(text) = IF f[Len(text)].open = <<>> THEN f[Len(text)].done
                                ELSE Append(f[Len(text)].done, f[Len(text)].open)
<1> DEFINE N == Len(text)
<1> DEFINE none == [done |-> <<>>, open |-> <<>>]
<1> DEFINE at(f, n) == IF n = 0 THEN none
                       ELSE IF Follows(text, n) THEN f[n - 1]
                       ELSE IF text[n] \in Breaks
                            THEN [done |-> Append(f[n - 1].done, f[n - 1].open), open |-> <<>>]
                            ELSE [done |-> f[n - 1].done, open |-> Append(f[n - 1].open, text[n])]
<1> DEFINE Is(f) == f = [n \in 0 .. N |-> at(f, n)]
<1> DEFINE value(n, before) == IF n \in 1 .. N THEN Scanned(text, n, before) ELSE none
<1> DEFINE step == [n \in Nat |-> [before \in Scans |-> value(n, before)]]
<1>1. N \in Nat /\ none \in Scans
  BY DEF Scans
<1>2. step \in [Nat -> [Scans -> Scans]]
  <2>1. ASSUME NEW n \in Nat, NEW before \in Scans PROVE value(n, before) \in Scans
    <3>1. CASE n \in 1 .. N
      <4>1. text[n] \in Chars
        BY <3>1
      <4>2. Scanned(text, n, before) \in Scans
        BY <4>1 DEF Scanned, Scans
      <4> QED BY <3>1, <4>2
    <3>2. CASE n \notin 1 .. N
      BY <1>1, <3>2
    <3> QED BY <3>1, <3>2
  <2> HIDE DEF value
  <2> QED BY <2>1
<1>3. PICK f \in [0 .. N -> Scans] : f[0] = none /\ \A n \in 1 .. N : f[n] = step[n][f[n - 1]]
  <2> HIDE DEF step, N, none
  <2>1. \E f \in [0 .. N -> Scans] : Steps(f, N, none, step)
    BY <1>1, <1>2, Recursion, Zenon
  <2> QED BY <2>1 DEF Steps
<1>4. ASSUME NEW n \in 1 .. N PROVE f[n] = Scanned(text, n, f[n - 1])
  <2>1. n \in Nat /\ n - 1 \in 0 .. N
    BY <1>1
  <2>2. step[n][f[n - 1]] = value(n, f[n - 1])
    <3>1. f[n - 1] \in Scans
      <4> HIDE DEF N
      <4> QED BY <1>3, <2>1
    <3> HIDE DEF value
    <3> QED BY <2>1, <3>1
  <2>3. f[n] = value(n, f[n - 1])
    <3> HIDE DEF N, step, value
    <3> QED BY <1>3, <2>2
  <2> QED BY <2>3
<1>5. Is(f)
  <2>1. ASSUME NEW n \in 0 .. N PROVE f[n] = at(f, n)
    <3>1. CASE n = 0
      BY <1>3, <3>1
    <3>2. CASE n # 0
      <4>1. n \in 1 .. N
        BY <3>2
      <4> QED BY <1>4, <3>2, <4>1 DEF Scanned
    <3> QED BY <3>1, <3>2
  <2> HIDE DEF at, N
  <2>2. f = [n \in 0 .. N |-> f[n]]
    BY <1>3
  <2> QED BY <2>1, <2>2
<1> DEFINE c == CHOOSE g : Is(g)
<1>6. Lines(text) = IF c[N].open = <<>> THEN c[N].done ELSE Append(c[N].done, c[N].open)
  BY DEF Lines
<1>7. Is(c)
  <2> HIDE DEF Is
  <2> QED BY <1>5
<1> HIDE DEF c
<1>8. \A n \in 0 .. N : c[n] = f[n]
  <2> DEFINE G == {n \in 0 .. N : c[n] = f[n]}
  <2>1. 0 \in G
    BY <1>1, <1>3, <1>7
  <2>2. \A n \in 1 .. N : n - 1 \in G => n \in G
    <3> SUFFICES ASSUME NEW n \in 1 .. N, c[n - 1] = f[n - 1] PROVE c[n] = f[n]
      OBVIOUS
    <3>1. n \in 0 .. N /\ n # 0
      BY <1>1
    <3>2. c[n] = at(c, n)
      <4> HIDE DEF at, N
      <4> QED BY <1>7, <3>1
    <3>3. c[n] = Scanned(text, n, c[n - 1])
      BY <3>1, <3>2 DEF Scanned
    <3> HIDE DEF N
    <3> QED BY <1>4, <3>3
  <2>3. G \in SUBSET Nat
    OBVIOUS
  <2>4. \A n \in 0 .. N : n \in G
    <3> HIDE DEF G, N
    <3> QED BY <1>1, <2>1, <2>2, <2>3, UpTo, Zenon
  <2> QED BY <2>4
<1>9. c[N] = f[N]
  BY <1>1, <1>8
<1>10. Lines(text) = IF f[N].open = <<>> THEN f[N].done ELSE Append(f[N].done, f[N].open)
  BY <1>6, <1>9
<1> QED
  BY <1>3, <1>4, <1>10

(* One more character of a text with a newline for each of its line breaks. *)
Told(text, n, before) ==
    IF Follows(text, n) THEN before
    ELSE Append(before, IF text[n] \in Breaks THEN Newline ELSE text[n])

LEMMA ToldType ==
    ASSUME NEW text \in Seq(Chars), NEW n \in 1 .. Len(text), NEW before \in Seq(Chars)
    PROVE  Told(text, n, before) \in Seq(Chars)
<1>1. text[n] \in Chars /\ Newline \in Chars
  BY FileToolsAssumption
<1> QED
  BY <1>1 DEF Told

LEMMA AsNewlinesIs ==
    ASSUME NEW text \in Seq(Chars)
    PROVE  \E f \in [0 .. Len(text) -> Seq(Chars)] :
               /\ f[0] = <<>>
               /\ \A n \in 1 .. Len(text) : f[n] = Told(text, n, f[n - 1])
               /\ AsNewlines(text) = f[Len(text)]
<1> DEFINE N == Len(text)
<1> DEFINE at(f, n) == IF n = 0 THEN <<>>
                       ELSE IF Follows(text, n) THEN f[n - 1]
                       ELSE Append(f[n - 1], IF text[n] \in Breaks THEN Newline ELSE text[n])
<1> DEFINE Is(f) == f = [n \in 0 .. N |-> at(f, n)]
<1> DEFINE value(n, before) == IF n \in 1 .. N THEN Told(text, n, before) ELSE <<>>
<1> DEFINE step == [n \in Nat |-> [before \in Seq(Chars) |-> value(n, before)]]
<1>1. N \in Nat /\ <<>> \in Seq(Chars)
  OBVIOUS
<1>2. step \in [Nat -> [Seq(Chars) -> Seq(Chars)]]
  <2>1. ASSUME NEW n \in Nat, NEW before \in Seq(Chars) PROVE value(n, before) \in Seq(Chars)
    BY ToldType
  <2> HIDE DEF value
  <2> QED BY <2>1
<1>3. PICK f \in [0 .. N -> Seq(Chars)] : f[0] = <<>> /\ \A n \in 1 .. N : f[n] = step[n][f[n - 1]]
  <2> HIDE DEF step, N
  <2>1. \E f \in [0 .. N -> Seq(Chars)] : Steps(f, N, <<>>, step)
    BY <1>1, <1>2, Recursion, Zenon
  <2> QED BY <2>1 DEF Steps
<1>4. ASSUME NEW n \in 1 .. N PROVE f[n] = Told(text, n, f[n - 1])
  <2>1. n \in Nat /\ n - 1 \in 0 .. N
    BY <1>1
  <2>2. step[n][f[n - 1]] = value(n, f[n - 1])
    <3>1. f[n - 1] \in Seq(Chars)
      <4> HIDE DEF N
      <4> QED BY <1>3, <2>1
    <3> HIDE DEF value
    <3> QED BY <2>1, <3>1
  <2>3. f[n] = value(n, f[n - 1])
    <3> HIDE DEF N, step, value
    <3> QED BY <1>3, <2>2
  <2> QED BY <2>3
<1>5. Is(f)
  <2>1. ASSUME NEW n \in 0 .. N PROVE f[n] = at(f, n)
    <3>1. CASE n = 0
      BY <1>3, <3>1
    <3>2. CASE n # 0
      <4>1. n \in 1 .. N
        BY <3>2
      <4> QED BY <1>4, <3>2, <4>1 DEF Told
    <3> QED BY <3>1, <3>2
  <2> HIDE DEF at, N
  <2>2. f = [n \in 0 .. N |-> f[n]]
    BY <1>3
  <2> QED BY <2>1, <2>2
<1> DEFINE c == CHOOSE g : Is(g)
<1>6. AsNewlines(text) = c[N]
  BY DEF AsNewlines
<1>7. Is(c)
  <2> HIDE DEF Is
  <2> QED BY <1>5
<1> HIDE DEF c
<1>8. \A n \in 0 .. N : c[n] = f[n]
  <2> DEFINE G == {n \in 0 .. N : c[n] = f[n]}
  <2>1. 0 \in G
    BY <1>1, <1>3, <1>7
  <2>2. \A n \in 1 .. N : n - 1 \in G => n \in G
    <3> SUFFICES ASSUME NEW n \in 1 .. N, c[n - 1] = f[n - 1] PROVE c[n] = f[n]
      OBVIOUS
    <3>1. n \in 0 .. N /\ n # 0
      BY <1>1
    <3>2. c[n] = at(c, n)
      <4> HIDE DEF at, N
      <4> QED BY <1>7, <3>1
    <3>3. c[n] = Told(text, n, c[n - 1])
      BY <3>1, <3>2 DEF Told
    <3> HIDE DEF N
    <3> QED BY <1>4, <3>3
  <2>3. G \in SUBSET Nat
    OBVIOUS
  <2>4. \A n \in 0 .. N : n \in G
    <3> HIDE DEF G, N
    <3> QED BY <1>1, <2>1, <2>2, <2>3, UpTo, Zenon
  <2> QED BY <2>4
<1>9. c[N] = f[N]
  BY <1>1, <1>8
<1> QED
  BY <1>3, <1>4, <1>6, <1>9

(* What was found on the way, joined again, is the text up to there, told  *)
(* with newlines.                                                          *)
Found(told, scan) ==
    /\ IF scan.done = <<>> THEN scan.open = told
       ELSE Join(scan.done) \o <<Newline>> \o scan.open = told
    /\ \A i \in 1 .. Len(scan.open) : scan.open[i] # Newline

LEMMA FoundStep ==
    ASSUME NEW text \in Seq(Chars), NEW n \in 1 .. Len(text), NEW before \in Scans,
           NEW told \in Seq(Chars), Found(told, before)
    PROVE  Found(Told(text, n, told), Scanned(text, n, before))
<1> DEFINE ch == text[n]
<1> DEFINE done == before.done
<1> DEFINE open == before.open
<1>1. /\ done \in Seq(Seq(Chars)) /\ open \in Seq(Chars) /\ ch \in Chars /\ <<ch>> \in Seq(Chars)
      /\ <<Newline>> \in Seq(Chars) /\ Newline \in Breaks
  BY FileToolsAssumption DEF Scans
<1>3. /\ done = <<>> => open = told
      /\ done # <<>> => Join(done) \o <<Newline>> \o open = told
      /\ \A i \in 1 .. Len(open) : open[i] # Newline
  BY DEF Found
<1>4. /\ Join(done) \in Seq(Chars) /\ Append(done, open) # <<>>
      /\ Join(Append(done, open)) = IF done = <<>> THEN open ELSE Join(done) \o <<Newline>> \o open
  <2> HIDE DEF done, open
  <2>1. Append(done, open) # <<>>
    BY <1>1, AppendProperties
  <2> QED BY <1>1, <2>1, JoinAppend, Zenon
<1>0. CASE Follows(text, n)
  BY <1>0 DEF Scanned, Told
<1>5. CASE ~Follows(text, n) /\ ch \in Breaks
  <2>1. /\ Scanned(text, n, before) = [done |-> Append(done, open), open |-> <<>>]
        /\ Told(text, n, told) = Append(told, Newline)
    BY <1>5 DEF Scanned, Told
  <2>2. Join(Append(done, open)) \o <<Newline>> \o <<>> = Append(told, Newline)
    <3>0. Append(told, Newline) = told \o <<Newline>>
      <4>1. Newline \in Chars
        BY FileToolsAssumption
      <4> QED BY <4>1, AppendIsConcat
    <3> HIDE DEF done, open, ch
    <3>1. Join(Append(done, open)) = told
      BY <1>3, <1>4
    <3>2. told \o <<Newline>> \in Seq(Chars)
      BY <1>1, Glue, Zenon
    <3>3. (told \o <<Newline>>) \o <<>> = told \o <<Newline>>
      BY <3>2, Glue, Zenon
    <3> QED BY <3>0, <3>1, <3>3, Zenon
  <2>3. Found(Append(told, Newline), [done |-> Append(done, open), open |-> <<>>])
    <3> HIDE DEF done, open
    <3>1. \A i \in 1 .. Len(<<>>) : <<>>[i] # Newline
      OBVIOUS
    <3>2. Append(done, open) # <<>>
      BY <1>4
    <3> QED BY <2>2, <3>1, <3>2, Zenon DEF Found
  <2> QED
    BY <2>1, <2>3
<1>6. CASE ~Follows(text, n) /\ ch \notin Breaks
  <2>1. /\ Scanned(text, n, before) = [done |-> done, open |-> Append(open, ch)]
        /\ Told(text, n, told) = Append(told, ch)
    BY <1>6 DEF Scanned, Told
  <2>2. Append(open, ch) = open \o <<ch>> /\ Append(told, ch) = told \o <<ch>>
    BY <1>1, AppendIsConcat
  <2>3. \A i \in 1 .. Len(Append(open, ch)) : Append(open, ch)[i] # Newline
    <3> HIDE DEF ch, open
    <3> QED BY <1>1, <1>3, <1>6
  <2>4. /\ done = <<>> => Append(open, ch) = Append(told, ch)
        /\ done # <<>> => Join(done) \o <<Newline>> \o Append(open, ch) = Append(told, ch)
    <3> HIDE DEF done, open, ch
    <3> DEFINE left == Join(done) \o <<Newline>>
    <3>1. left \in Seq(Chars)
      BY <1>4, Glue, Zenon
    <3>2. done # <<>> => left \o open = told
      BY <1>3
    <3> HIDE DEF left
    <3>3. left \o (open \o <<ch>>) = (left \o open) \o <<ch>>
      BY <1>1, <3>1
    <3>4. done # <<>> => left \o Append(open, ch) = Append(told, ch)
      BY <2>2, <3>2, <3>3, Zenon
    <3>5. done = <<>> => Append(open, ch) = Append(told, ch)
      BY <1>3, Zenon
    <3> QED BY <3>4, <3>5, Zenon DEF left
  <2>5. Found(Append(told, ch), [done |-> done, open |-> Append(open, ch)])
    <3> HIDE DEF done, open, ch
    <3> QED BY <2>3, <2>4 DEF Found
  <2> QED
    BY <2>1, <2>5
<1> QED
  BY <1>0, <1>5, <1>6

(* Joined again, the lines of a text are the text with newlines for its    *)
(* line breaks but for the one at its end.                                 *)
LEMMA LinesMakeText ==
    ASSUME NEW source \in Seq(Chars)
    PROVE  /\ Lines(source) \in Seq(Seq(Chars))
           /\ Join(Lines(source)) = Unended(AsNewlines(source))
<1> DEFINE N == Len(source)
<1> DEFINE text == AsNewlines(source)
<1>0. N \in Nat
  OBVIOUS
<1>1. PICK f \in [0 .. N -> Scans] :
          /\ f[0] = [done |-> <<>>, open |-> <<>>]
          /\ \A n \in 1 .. N : f[n] = Scanned(source, n, f[n - 1])
          /\ Lines(source) = IF f[N].open = <<>> THEN f[N].done ELSE Append(f[N].done, f[N].open)
  BY LinesIs
<1>9. PICK g \in [0 .. N -> Seq(Chars)] :
          /\ g[0] = <<>>
          /\ \A n \in 1 .. N : g[n] = Told(source, n, g[n - 1])
          /\ text = g[N]
  BY AsNewlinesIs
<1> SUFFICES Lines(source) \in Seq(Seq(Chars)) /\ Join(Lines(source)) = Unended(text)
  OBVIOUS
<1> HIDE DEF text
<1>2. \A n \in 0 .. N : Found(g[n], f[n])
  <2> DEFINE G == {n \in 0 .. N : Found(g[n], f[n])}
  <2>1. 0 \in G
    <3>1. Found(g[0], f[0])
      BY <1>1, <1>9 DEF Found
    <3> QED BY <1>0, <3>1
  <2>2. \A n \in 1 .. N : n - 1 \in G => n \in G
    <3> SUFFICES ASSUME NEW n \in 1 .. N, Found(g[n - 1], f[n - 1]) PROVE Found(g[n], f[n])
      OBVIOUS
    <3>1. /\ f[n - 1] \in Scans /\ f[n] = Scanned(source, n, f[n - 1])
          /\ g[n - 1] \in Seq(Chars) /\ g[n] = Told(source, n, g[n - 1])
      <4>1. n - 1 \in 0 .. N
        BY <1>0
      <4> HIDE DEF N
      <4> QED BY <1>1, <1>9, <4>1
    <3> QED BY <3>1, FoundStep
  <2>3. G \in SUBSET Nat
    OBVIOUS
  <2>4. \A n \in 0 .. N : n \in G
    <3> HIDE DEF G, N
    <3> QED BY <1>0, <2>1, <2>2, <2>3, UpTo, Zenon
  <2> QED BY <2>4
<1> DEFINE done == f[N].done
<1> DEFINE open == f[N].open
<1>3. /\ done \in Seq(Seq(Chars)) /\ open \in Seq(Chars) /\ <<Newline>> \in Seq(Chars)
      /\ text \in Seq(Chars)
  <2>1. <<Newline>> \in Seq(Chars) /\ f[N] \in Scans /\ g[N] \in Seq(Chars)
    BY <1>0, FileToolsAssumption
  <2> QED BY <1>9, <2>1 DEF Scans
<1>4. /\ IF done = <<>> THEN open = text ELSE Join(done) \o <<Newline>> \o open = text
      /\ \A i \in 1 .. Len(open) : open[i] # Newline
  <2>1. Found(text, f[N])
    BY <1>0, <1>2, <1>9
  <2> QED BY <2>1 DEF Found
<1>5. Lines(source) = IF open = <<>> THEN done ELSE Append(done, open)
  BY <1>1
<1>6. Join(done) \in Seq(Chars) /\ (done = <<>> => Join(done) = <<>>)
  BY <1>3, JoinAppend
<1> HIDE DEF done, open
<1>7. CASE open = <<>>
  <2>1. CASE done = <<>>
    BY <1>3, <1>4, <1>5, <1>6, <1>7, <2>1 DEF Unended
  <2>2. CASE done # <<>>
    <3>1. text = Join(done) \o <<Newline>>
      <4>1. Join(done) \o <<Newline>> \in Seq(Chars)
        BY <1>6, Glue, Zenon
      <4>2. (Join(done) \o <<Newline>>) \o <<>> = Join(done) \o <<Newline>>
        BY <4>1, Glue, Zenon
      <4> QED BY <1>4, <1>7, <2>2, <4>2, Zenon
    <3>2. /\ Len(text) = Len(Join(done)) + 1 /\ text[Len(text)] = Newline
          /\ SubSeq(text, 1, Len(text) - 1) = Join(done)
      BY <1>3, <1>6, <3>1
    <3>3. Unended(text) = Join(done)
      BY <1>6, <3>2 DEF Unended
    <3> QED BY <1>3, <1>5, <1>7, <3>3
  <2> QED BY <2>1, <2>2
<1>8. CASE open # <<>>
  <2>1. /\ Append(done, open) \in Seq(Seq(Chars))
        /\ Join(Append(done, open)) = text
    <3>1. Join(Append(done, open)) = IF done = <<>> THEN open ELSE Join(done) \o <<Newline>> \o open
      BY <1>3, JoinAppend
    <3>2. Join(Append(done, open)) = text
      <4>1. CASE done = <<>>
        BY <1>4, <3>1, <4>1, Zenon
      <4>2. CASE done # <<>>
        BY <1>4, <3>1, <4>2, Zenon
      <4> QED BY <4>1, <4>2
    <3> QED BY <1>3, <3>2, AppendProperties
  <2>2. text[Len(text)] # Newline
    <3>1. Len(open) \in 1 .. Len(open) /\ open[Len(open)] # Newline
      BY <1>3, <1>4, <1>8
    <3>2. CASE done = <<>>
      BY <1>4, <3>1, <3>2
    <3>3. CASE done # <<>>
      <4> DEFINE head == Join(done) \o <<Newline>>
      <4>1. head \in Seq(Chars) /\ text = head \o open
        BY <1>3, <1>4, <1>6, <3>3, ConcatProperties
      <4> HIDE DEF head
      <4>2. text[Len(text)] = open[Len(open)]
        BY <1>3, <3>1, <4>1
      <4> QED BY <3>1, <4>2
    <3> QED BY <3>2, <3>3
  <2>3. Unended(text) = text
    BY <2>2 DEF Unended
  <2> QED BY <1>5, <1>8, <2>1, <2>3
<1> QED
  BY <1>7, <1>8

(* The lines up to b are those up to a and, behind a newline, the others. *)
LEMMA JoinAdjacent ==
    ASSUME NEW lines \in Seq(Seq(Chars)), NEW a \in 1 .. Len(lines), NEW b \in a + 1 .. Len(lines)
    PROVE  Join(SubSeq(lines, 1, b))
               = Join(SubSeq(lines, 1, a)) \o <<Newline>> \o Join(SubSeq(lines, a + 1, b))
<1> DEFINE N == Len(lines)
<1> DEFINE part(m, n) == SubSeq(lines, m, n)
<1> DEFINE head == Join(part(1, a)) \o <<Newline>>
<1>1. N \in Nat /\ a \in Nat /\ \A n \in 1 .. N : lines[n] \in Seq(Chars)
  OBVIOUS
<1>2. \A m, n \in 1 .. N : part(m, n) \in Seq(Seq(Chars)) /\ Join(part(m, n)) \in Seq(Chars)
  <2> SUFFICES ASSUME NEW m \in 1 .. N, NEW n \in 1 .. N
               PROVE  part(m, n) \in Seq(Seq(Chars)) /\ Join(part(m, n)) \in Seq(Chars)
    OBVIOUS
  <2>1. part(m, n) \in Seq(Seq(Chars))
    BY <1>1, SubSeqProperties
  <2> HIDE DEF part
  <2>2. <<>> \in Seq(Chars)
    OBVIOUS
  <2> QED BY <2>1, <2>2, JoinAppend
<1>3. ASSUME NEW m \in 1 .. N, NEW n \in m .. N
      PROVE  /\ part(m, n) = Append(part(m, n - 1), lines[n])
             /\ part(m, n - 1) = <<>> <=> n = m
             /\ part(m, n - 1) \in Seq(Seq(Chars))
  <2>1. part(m, n) = part(m, n - 1) \o <<lines[n]>>
    BY SubSeqRecursiveSecond
  <2>2. part(m, n - 1) \in Seq(Seq(Chars)) /\ Len(part(m, n - 1)) = n - m
    BY <1>1, SubSeqProperties
  <2>3. Append(part(m, n - 1), lines[n]) = part(m, n - 1) \o <<lines[n]>>
    BY <1>1, <2>2, AppendIsConcat
  <2> DEFINE front == part(m, n - 1)
  <2>4. front \in Seq(Seq(Chars)) /\ Len(front) = n - m
    BY <2>2
  <2> HIDE DEF part, front
  <2>5. front = <<>> <=> n = m
    BY <2>4
  <2> QED BY <2>1, <2>2, <2>3, <2>5 DEF front
<1>4. head \in Seq(Chars) /\ <<Newline>> \in Seq(Chars)
  <2>1. Join(part(1, a)) \in Seq(Chars)
    BY <1>1, <1>2
  <2> HIDE DEF part
  <2> QED BY <2>1, Glue, Zenon
<1>5. ASSUME NEW n \in a + 1 .. N
      PROVE  /\ Join(part(1, n)) = Join(part(1, n - 1)) \o <<Newline>> \o lines[n]
             /\ Join(part(a + 1, n)) = IF n = a + 1 THEN lines[n]
                                       ELSE Join(part(a + 1, n - 1)) \o <<Newline>> \o lines[n]
  <2>1. n \in 1 .. N /\ n # 1 /\ a + 1 \in 1 .. N /\ lines[n] \in Seq(Chars)
    BY <1>1
  <2>2. /\ part(1, n) = Append(part(1, n - 1), lines[n])
        /\ part(1, n - 1) # <<>> /\ part(1, n - 1) \in Seq(Seq(Chars))
    <3>1. 1 \in 1 .. N /\ n \in 1 .. N
      BY <2>1
    <3> HIDE DEF part, N
    <3> QED BY <1>3, <2>1, <3>1
  <2>3. /\ part(a + 1, n) = Append(part(a + 1, n - 1), lines[n])
        /\ part(a + 1, n - 1) = <<>> <=> n = a + 1
        /\ part(a + 1, n - 1) \in Seq(Seq(Chars))
    BY <1>3, <2>1
  <2> HIDE DEF part
  <2> QED BY <2>1, <2>2, <2>3, JoinAppend
<1> DEFINE split(n) == Join(part(1, n)) = head \o Join(part(a + 1, n))
<1> DEFINE G == {n \in 0 .. N : n > a => split(n)}
<1>6. 0 \in G
  BY <1>1
<1>7. \A n \in 1 .. N : n - 1 \in G => n \in G
  <2> SUFFICES ASSUME NEW n \in 1 .. N, n - 1 > a => split(n - 1), n > a PROVE split(n)
    <3> HIDE DEF split
    <3> QED BY <1>1
  <2>1. n \in a + 1 .. N /\ lines[n] \in Seq(Chars) /\ a \in 1 .. N /\ n - 1 \in 1 .. N
    BY <1>1
  <2>2. CASE n = a + 1
    <3>1. n - 1 = a
      BY <1>1, <2>2
    <3>2. Join(part(1, n)) = Join(part(1, a)) \o <<Newline>> \o lines[n]
      BY <1>5, <2>1, <3>1
    <3>3. Join(part(a + 1, n)) = lines[n]
      BY <1>5, <2>1, <2>2
    <3> HIDE DEF part
    <3> QED BY <3>2, <3>3, Zenon
  <2>3. CASE n # a + 1
    <3> DEFINE rest == Join(part(a + 1, n - 1))
    <3>1. a + 1 \in 1 .. N /\ n - 1 > a
      BY <2>1, <2>3
    <3>2. Join(part(1, n - 1)) = head \o rest /\ rest \in Seq(Chars)
      BY <1>2, <2>1, <3>1
    <3>3. Join(part(1, n)) = (head \o rest) \o <<Newline>> \o lines[n]
      BY <1>5, <2>1, <3>2
    <3>4. Join(part(a + 1, n)) = rest \o <<Newline>> \o lines[n]
      BY <1>5, <2>1, <2>3
    <3> HIDE DEF head, rest
    <3>5. ((head \o rest) \o <<Newline>>) \o lines[n] = head \o ((rest \o <<Newline>>) \o lines[n])
      <4>1. (head \o rest) \o <<Newline>> = head \o (rest \o <<Newline>>)
        BY <1>4, <3>2, Associates, Zenon
      <4>2. rest \o <<Newline>> \in Seq(Chars)
        BY <1>4, <3>2, Glue, Zenon
      <4>3. (head \o (rest \o <<Newline>>)) \o lines[n] = head \o ((rest \o <<Newline>>) \o lines[n])
        <5> DEFINE middle == rest \o <<Newline>>
        <5> DEFINE last == lines[n]
        <5>1. last \in Seq(Chars) /\ middle \in Seq(Chars)
          BY <2>1, <4>2
        <5> HIDE DEF middle, last
        <5>2. head \in Seq(Chars)
          BY <1>4
        <5>3. (head \o middle) \o last = head \o (middle \o last)
          BY <5>1, <5>2, Associates, Zenon
        <5> QED BY <5>3 DEF middle, last
      <4> QED BY <4>1, <4>3
    <3> QED BY <3>3, <3>4, <3>5
  <2> QED BY <2>2, <2>3
<1>8. \A n \in 0 .. N : n \in G
  <2> G \in SUBSET Nat
    OBVIOUS
  <2> HIDE DEF G, N
  <2> QED BY <1>1, <1>6, <1>7, UpTo, Zenon
<1>9. b \in 0 .. N /\ b > a
  BY <1>1
<1> QED
  BY <1>8, <1>9

-----------------------------------------------------------------------------
(* Pages *)

(* What read_file may return of a text. *)
PagesOf(text) == {ReadFile(text, o, l) : o \in Nat, l \in (Nat \ {0}) \cup {None}}

(* A page behind the end is empty; any other has a line, and not cut off   *)
(* it is its lines.                                                        *)
LEMMA PageFacts ==
    ASSUME NEW text \in Seq(Chars), NEW p \in PagesOf(text)
    PROVE  /\ p.total = Len(Lines(text)) /\ p.start \in Nat /\ p.content \in Seq(Chars)
           /\ p.start >= p.total => p.end = p.start /\ (~p.truncated => p.content = <<>>)
           /\ p.start < p.total =>
                  /\ p.end \in p.start + 1 .. p.total
                  /\ ~p.truncated => p.content = Join(SubSeq(Lines(text), p.start + 1, p.end))
<1> DEFINE lines == Lines(text)
<1> DEFINE N == Len(lines)
<1>1. lines \in Seq(Seq(Chars)) /\ N \in Nat
  BY LinesMakeText
<1>2. PICK o \in Nat, l \in (Nat \ {0}) \cup {None} : p = ReadFile(text, o, l)
  BY DEF PagesOf
<1> DEFINE last == IF l = None \/ o + l > N THEN N ELSE o + l
<1> DEFINE content == IF o >= N THEN <<>> ELSE Join(SubSeq(lines, o + 1, last))
<1>3. /\ p.start = o /\ p.end = (IF o >= N THEN o ELSE last) /\ p.total = N
      /\ p.content = CapText(content) /\ p.truncated = (Len(content) > MaxRead)
  BY <1>2 DEF ReadFile
<1> HIDE DEF lines
<1>4. o < N => last \in o + 1 .. N
  <2>1. CASE l = None
    BY <1>1, <2>1
  <2>2. CASE l # None
    BY <1>1, <2>2
  <2> QED BY <2>1, <2>2
<1> HIDE DEF last
<1>5. content \in Seq(Chars)
  <2>1. CASE o >= N
    BY <2>1
  <2>2. CASE o < N
    <3>1. \A i \in o + 1 .. last : lines[i] \in Seq(Chars)
      BY <1>1, <1>4, <2>2
    <3>2. SubSeq(lines, o + 1, last) \in Seq(Seq(Chars))
      BY <1>4, <2>2, <3>1, SubSeqProperties
    <3>3. Join(SubSeq(lines, o + 1, last)) \in Seq(Chars)
      BY <3>2, Glue, JoinAppend
    <3> QED BY <1>1, <2>2, <3>3
  <2> QED BY <1>1, <2>1, <2>2
<1> HIDE DEF content
<1>6. /\ CapText(content) \in Seq(Chars)
      /\ ~(Len(content) > MaxRead) => CapText(content) = content
  <2>1. CASE Len(content) <= MaxRead
    BY <1>5, <2>1 DEF CapText
  <2>2. CASE Len(content) > MaxRead
    <3>1. \A i \in 1 .. MaxRead : content[i] \in Chars
      BY <1>5, <2>2, FileToolsAssumption
    <3>2. SubSeq(content, 1, MaxRead) \in Seq(Chars)
      BY <3>1, FileToolsAssumption, SubSeqProperties
    <3> QED BY <1>5, <2>2, <3>2, FileToolsAssumption DEF CapText
  <2>3. Len(content) \in Nat
    BY <1>5
  <2> QED BY <2>1, <2>2, <2>3, FileToolsAssumption
<1>7. p.start \in Nat /\ p.total = N /\ p.content \in Seq(Chars)
  BY <1>3, <1>6
<1>8. ~p.truncated => p.content = content
  BY <1>3, <1>6
<1>9. /\ o >= N => content = <<>>
      /\ o < N => content = Join(SubSeq(lines, o + 1, last))
  <2> HIDE DEF N
  <2> QED BY <1>1 DEF content
<1> QED
  <2>1. o >= N => p.end = o
    BY <1>3
  <2>2. o < N => p.end = last
    BY <1>1, <1>3
  <2> QED BY <1>1, <1>3, <1>4, <1>7, <1>8, <1>9, <2>1, <2>2 DEF lines

(* Every page a run has kept was read from the file as it is now. *)
PagesInv ==
    \A r \in Runs :
        /\ pages[r] \in Seq(PagesOf(file))
        /\ pages[r] # <<>> => file \in Seq(Chars)
        /\ thread[r] = "done" /\ alone[r] /\ args[r].tool = "read_file" /\ result[r] # "refused" =>
               file \in Seq(Chars) /\ data[r] \in PagesOf(file)

LEMMA InitPages == Init => PagesInv
<1> QED
  BY DEF Init, PagesInv

LEMMA NextPages == Inv /\ PagesInv /\ [Next]_vars => PagesInv'
<1> SUFFICES ASSUME Inv, PagesInv, [Next]_vars PROVE PagesInv'
  OBVIOUS
<1>1. ASSUME NEW r \in Runs, NEW what, Call(r, what) PROVE PagesInv'
  BY <1>1 DEF Inv, TypeOK, PagesInv, Call
<1>2. ASSUME NEW r \in Runs, Return(r) PROVE PagesInv'
  <2>1. ASSUME alone[r], args[r].tool = "read_file", result[r] # "refused"
        PROVE  Append(pages[r], data[r]) \in Seq(PagesOf(file)) /\ file \in Seq(Chars)
    <3>1. pages[r] \in Seq(PagesOf(file)) /\ data[r] \in PagesOf(file) /\ file \in Seq(Chars)
      BY <1>2, <2>1 DEF Return, PagesInv
    <3> QED BY <3>1, AppendProperties
  <2>2. <<>> \in Seq(PagesOf(file))
    OBVIOUS
  <2>3. ASSUME NEW s \in Runs
        PROVE  pages'[s] \in Seq(PagesOf(file)) /\ (pages'[s] # <<>> => file \in Seq(Chars))
    <3>1. CASE s # r
      BY <1>2, <3>1 DEF Inv, TypeOK, PagesInv, Return
    <3>2. CASE s = r
      <4>1. pages'[r] = IF args[r].tool # "read_file" \/ result[r] = "refused" THEN pages[r]
                        ELSE IF alone[r] THEN Append(pages[r], data[r]) ELSE <<>>
        BY <1>2 DEF Inv, TypeOK, Return
      <4>2. pages[r] \in Seq(PagesOf(file)) /\ (pages[r] # <<>> => file \in Seq(Chars))
        BY DEF PagesInv
      <4> QED BY <2>1, <2>2, <3>2, <4>1, <4>2
    <3> QED BY <3>1, <3>2
  <2>4. ASSUME NEW s \in Runs, thread'[s] = "done", alone'[s], args'[s].tool = "read_file",
               result'[s] # "refused"
        PROVE  file \in Seq(Chars) /\ data'[s] \in PagesOf(file)
    BY <1>2, <2>4 DEF Inv, TypeOK, PagesInv, Return
  <2>5. file' = file
    BY <1>2 DEF Return
  <2> QED
    BY <2>3, <2>4, <2>5 DEF PagesInv
<1>3. ASSUME NEW r \in Runs, Cancel(r) PROVE PagesInv'
  BY <1>3 DEF Inv, TypeOK, PagesInv, Cancel
<1>4. ASSUME NEW r \in Runs, Begin(r) PROVE PagesInv'
  BY <1>4 DEF Inv, TypeOK, PagesInv, Begin
<1>5. ASSUME NEW r \in Runs, Read(r) PROVE PagesInv'
  <2>1. ASSUME IsText PROVE ReadFile(file, args[r].offset, args[r].limit) \in PagesOf(file)
    <3>1. args[r].offset \in Nat /\ args[r].limit \in (Nat \ {0}) \cup {None}
      BY <1>5 DEF Inv, TypeOK, Read, Calls
    <3> QED BY <3>1 DEF PagesOf
  <2>2. UNCHANGED <<file, args, pages, alone>>
    BY <1>5 DEF Read
  <2>3. CASE IsText
    <3>1. /\ thread' = [thread EXCEPT ![r] = "done"] /\ result' = [result EXCEPT ![r] = "ok"]
          /\ data' = [data EXCEPT ![r] = ReadFile(file, args[r].offset, args[r].limit)]
      BY <1>5, <2>3 DEF Read, Finish
    <3> HIDE DEF ReadFile
    <3> QED BY <2>1, <2>2, <2>3, <3>1 DEF Inv, TypeOK, PagesInv, IsText
  <2>4. CASE ~IsText
    BY <1>5, <2>2, <2>4 DEF Inv, TypeOK, PagesInv, Read, Finish
  <2> QED
    BY <2>3, <2>4
<1>6. ASSUME NEW r \in Runs, NEW text, args[r].tool # "read_file", Guarded(r, text),
             UNCHANGED <<file, run, calls, args, pages>>, Looks(r)
      PROVE  PagesInv'
  <2>1. \A s \in Runs \ {r} : thread'[s] = thread[s] /\ alone'[s] = alone[s]
                              /\ data'[s] = data[s] /\ result'[s] = result[s]
    BY <1>6, LooksAt DEF Inv, TypeOK, Guarded, Finish
  <2> QED
    BY <1>6, <2>1 DEF PagesInv
<1>7. ASSUME NEW r \in Runs, Write(r) \/ Edit(r) PROVE PagesInv'
  <2>1. /\ args[r].tool # "read_file" /\ UNCHANGED <<file, run, calls, args, pages>>
        /\ Looks(r)
    BY <1>7 DEF Write, Edit, Looks
  <2>2. CASE \E text : Guarded(r, text)
    BY <1>6, <2>1, <2>2
  <2>3. CASE Finish(r, "refused") /\ UNCHANGED data
    BY <2>1, <2>3, LooksAt DEF Inv, TypeOK, PagesInv, Finish
  <2> QED
    BY <1>7, <2>2, <2>3 DEF Write, Edit
<1>8. ASSUME NEW r \in Runs, NEW text, NEW undisturbed, thread[r] \in Working,
             Change(r, text, undisturbed), UNCHANGED args,
             \A s \in Runs \ {r} : thread'[s] = thread[s]
      PROVE  PagesInv'
  <2>1. \A s \in Runs : pages'[s] = <<>>
    BY <1>8 DEF Change
  <2>2. \A s \in Runs \ {r} : ~alone'[s]
    BY <1>8 DEF Change
  <2>3. args'[r].tool # "read_file"
    BY <1>8 DEF Inv, ThreadInv
  <2>4. <<>> \in Seq(PagesOf(file'))
    OBVIOUS
  <2> QED
    BY <2>1, <2>2, <2>3, <2>4 DEF PagesInv
<1>9. ASSUME NEW r \in Runs, Open(r) PROVE PagesInv'
  <2>1. CASE Change(r, <<>>, TRUE) /\ thread' = [thread EXCEPT ![r] = "opened"]
    <3>1. thread[r] \in Working /\ args' = args /\ \A s \in Runs \ {r} : thread'[s] = thread[s]
      BY <1>9, <2>1 DEF Inv, TypeOK, Open, Working
    <3> QED
      BY <1>8, <2>1, <3>1
  <2>2. CASE Finish(r, "refused") /\ UNCHANGED <<file, alone, pages>>
    BY <1>9, <2>2 DEF Inv, TypeOK, PagesInv, Open, Finish
  <2> QED
    BY <1>9, <2>1, <2>2 DEF Open
<1>10. ASSUME NEW r \in Runs, WriteOut(r) PROVE PagesInv'
  <2>1. PICK text : Change(r, text, alone[r])
    BY <1>10 DEF WriteOut
  <2>2. \A s \in Runs \ {r} : thread'[s] = thread[s]
    BY <1>10 DEF Inv, TypeOK, WriteOut, Finish
  <2> QED
    BY <1>8, <1>10, <2>1, <2>2 DEF WriteOut, Working
<1>11. CASE UNCHANGED vars
  BY <1>11 DEF vars, PagesInv
<1> QED
  BY <1>1, <1>2, <1>3, <1>4, <1>5, <1>7, <1>9, <1>10, <1>11
     DEF Next, Handler, Thread, CallRead, CallWrite, CallEdit

LEMMA SpecPages == Spec => [](Inv /\ PagesInv)
<1> QED
  BY InitInv, NextInv, InitPages, NextPages, PTL DEF Spec

(* The claim of PagesMakeTheFile about the first k pages of a text. *)
PageClaim(text, read, k) ==
    IF k > 1 /\ read[k].start = read[k].total THEN read[k].content = <<>>
    ELSE Join([i \in 1 .. k |-> read[i].content]) = Join(SubSeq(Lines(text), 1, read[k].end))

(* One page after another: those in order up to k end within the text, and *)
(* they are its first lines.                                               *)
LEMMA PagesInOrder ==
    ASSUME NEW text \in Seq(Chars), NEW read \in Seq(PagesOf(text)),
           NEW k \in 1 .. Len(read), InOrder(read, k)
    PROVE  PageClaim(text, read, k)
<1> DEFINE lines == Lines(text)
<1> DEFINE N == Len(lines)
<1> DEFINE K == Len(read)
<1> DEFINE texts(n) == [i \in 1 .. n |-> read[i].content]
<1>1. lines \in Seq(Seq(Chars)) /\ N \in Nat /\ K \in Nat
  BY LinesMakeText
<1>2. ASSUME NEW i \in 1 .. K
      PROVE  /\ read[i].total = N /\ read[i].start \in Nat /\ read[i].content \in Seq(Chars)
             /\ read[i].start >= N => read[i].end = read[i].start
                                      /\ (~read[i].truncated => read[i].content = <<>>)
             /\ read[i].start < N =>
                    /\ read[i].end \in read[i].start + 1 .. N
                    /\ ~read[i].truncated => read[i].content = Join(SubSeq(lines, read[i].start + 1, read[i].end))
  <2>1. read[i] \in PagesOf(text)
    OBVIOUS
  <2> QED BY <2>1, PageFacts
<1>3. \A i \in 1 .. k : i \in 1 .. K /\ ~read[i].truncated /\ (i > 1 => read[i].start = read[i - 1].end)
  BY <1>1 DEF InOrder
<1>4. ASSUME NEW n \in 1 .. K - 1
      PROVE  /\ texts(n) \in Seq(Seq(Chars)) /\ texts(n) # <<>>
             /\ texts(n + 1) = Append(texts(n), read[n + 1].content)
  <2>1. \A i \in 1 .. n + 1 : read[i].content \in Seq(Chars)
    BY <1>1, <1>2
  <2>2. texts(n) \in Seq(Seq(Chars)) /\ Len(texts(n)) = n
    BY <2>1
  <2>3. texts(n + 1) \in Seq(Seq(Chars)) /\ Len(texts(n + 1)) = n + 1
    BY <2>1
  <2>4. \A i \in 1 .. n + 1 : texts(n + 1)[i] = Append(texts(n), read[n + 1].content)[i]
    BY <2>1, <2>2
  <2>5. Append(texts(n), read[n + 1].content) \in Seq(Seq(Chars))
        /\ Len(Append(texts(n), read[n + 1].content)) = n + 1
    BY <2>1, <2>2, AppendProperties
  <2> HIDE DEF texts
  <2> QED BY <2>2, <2>3, <2>4, <2>5, SeqEqual
<1> DEFINE fits(n) == read[n].end <= N /\ read[n].start <= N /\ PageClaim(text, read, n)
<1> DEFINE G == {n \in 0 .. k : n > 0 => fits(n)}
<1>5. 0 \in G
  BY <1>1
<1>6. ASSUME 1 \in 1 .. k PROVE fits(1)
  <2>1. read[1].start = 0 /\ ~read[1].truncated /\ 1 \in 1 .. K
    BY <1>3, <1>6 DEF InOrder
  <2>2. read[1].content \in Seq(Chars)
    BY <1>2, <2>1
  <2>3. texts(1) = <<read[1].content>>
    OBVIOUS
  <2>4. Join(texts(1)) = read[1].content
    <3>1. <<>> \in Seq(Seq(Chars)) /\ Append(<<>>, read[1].content) = <<read[1].content>>
      BY <2>2
    <3> HIDE DEF texts
    <3> QED BY <2>2, <2>3, <3>1, JoinAppend
  <2>5. CASE N = 0
    <3>1. read[1].end = 0 /\ read[1].content = <<>>
      BY <1>2, <2>1, <2>5
    <3>2. SubSeq(lines, 1, 0) = <<>>
      BY SubSeqEmpty
    <3>3. Join(<<>>) = <<>>
      <4>1. <<>> \in Seq(Seq(Chars)) /\ <<>> \in Seq(Chars)
        OBVIOUS
      <4> QED BY <4>1, JoinAppend
    <3>4. Join(texts(1)) = Join(SubSeq(lines, 1, read[1].end))
      BY <2>4, <3>1, <3>2, <3>3
    <3> QED BY <2>1, <2>5, <3>1, <3>4 DEF PageClaim
  <2>6. CASE N # 0
    <3>1. read[1].end \in 1 .. N /\ read[1].content = Join(SubSeq(lines, 1, read[1].end))
      BY <1>1, <1>2, <2>1, <2>6
    <3> QED BY <1>1, <2>1, <2>4, <3>1 DEF PageClaim
  <2> QED BY <2>5, <2>6
<1>7. ASSUME NEW m \in 1 .. k - 1, fits(m) PROVE fits(m + 1)
  <2> DEFINE n == m + 1
  <2>1. m \in 1 .. K /\ n \in 1 .. K /\ n \in 1 .. k /\ m \in 1 .. k /\ n > 1 /\ n - 1 = m /\ m \in 1 .. K - 1
    BY <1>1
  <2>2. read[n].start = read[m].end /\ ~read[n].truncated /\ read[n].total = N
    BY <1>2, <1>3, <2>1
  <2>3. CASE read[m].end = N
    <3>1. read[n].end = N /\ read[n].content = <<>>
      BY <1>1, <1>2, <2>1, <2>2, <2>3
    <3> QED BY <1>1, <2>1, <2>2, <2>3, <3>1 DEF PageClaim
  <2>4. CASE read[m].end # N
    <3>1. read[m].start < N
      BY <1>1, <1>2, <1>7, <2>1, <2>4
    <3>2. read[m].end \in 1 .. N /\ read[m].end < N
      BY <1>1, <1>2, <1>7, <2>1, <2>4, <3>1
    <3>3. Join(texts(m)) = Join(SubSeq(lines, 1, read[m].end))
      <4>1. read[m].start # read[m].total
        BY <1>2, <2>1, <3>1
      <4> QED BY <1>7, <4>1 DEF PageClaim
    <3>4. /\ read[n].end \in read[m].end + 1 .. N
          /\ read[n].content = Join(SubSeq(lines, read[m].end + 1, read[n].end))
      BY <1>1, <1>2, <2>1, <2>2, <3>2
    <3>5. Join(texts(n)) = Join(texts(m)) \o <<Newline>> \o read[n].content
      <4>1. /\ texts(m) \in Seq(Seq(Chars)) /\ texts(m) # <<>>
            /\ texts(n) = Append(texts(m), read[n].content)
        BY <1>4, <2>1
      <4>2. read[n].content \in Seq(Chars)
        BY <1>2, <2>1
      <4> HIDE DEF texts
      <4> QED BY <4>1, <4>2, JoinAppend
    <3>6. Join(SubSeq(lines, 1, read[n].end))
              = Join(SubSeq(lines, 1, read[m].end)) \o <<Newline>> \o Join(SubSeq(lines, read[m].end + 1, read[n].end))
      <4> HIDE DEF lines
      <4> QED BY <1>1, <3>2, <3>4, JoinAdjacent
    <3>7. Join(texts(n)) = Join(SubSeq(lines, 1, read[n].end))
      BY <3>3, <3>4, <3>5, <3>6
    <3>8. read[n].start # read[n].total /\ read[n].start <= N /\ read[n].end <= N
      BY <1>1, <2>2, <3>2, <3>4
    <3> QED BY <3>7, <3>8 DEF PageClaim
  <2> QED BY <2>3, <2>4
<1>8. \A n \in 1 .. k : n - 1 \in G => n \in G
  <2> HIDE DEF fits
  <2> SUFFICES ASSUME NEW n \in 1 .. k, n - 1 > 0 => fits(n - 1) PROVE fits(n)
    BY <1>1
  <2>1. CASE n = 1
    BY <1>6, <2>1
  <2>2. CASE n # 1
    <3>1. n - 1 \in 1 .. k - 1 /\ (n - 1) + 1 = n /\ n - 1 > 0
      BY <1>1, <2>2
    <3> QED BY <1>7, <3>1
  <2> QED BY <2>1, <2>2
<1>9. \A n \in 0 .. k : n \in G
  <2> k \in Nat /\ G \in SUBSET Nat
    OBVIOUS
  <2> HIDE DEF G
  <2> QED BY <1>5, <1>8, UpTo, Zenon
<1> QED
  BY <1>1, <1>9

-----------------------------------------------------------------------------
(* The variables of the file tools keep their types, for every number of   *)
(* runs, threads and calls.                                                *)
THEOREM TypeCorrect == Spec => []TypeOK
<1> QED
  BY SpecInv, PTL DEF Inv

(* No interleaving of calls, failed writes and cancelled runs makes a file *)
(* longer than fs_max_write.                                               *)
THEOREM FilesStayBounded == Spec => []SizeBounded
<1>1. Inv => SizeBounded
  BY DEF Inv, SizeInv
<1> QED
  BY <1>1, SpecInv, PTL

(* A call did what it says if nobody else changed the file once it had     *)
(* opened it, or, if it did not, since it began: whatever the texts are    *)
(* and whatever else went on.                                              *)
THEOREM ResultsAreTrue == Spec => []ResultIsTrue
<1>1. Inv => ResultIsTrue
  BY DEF Inv, ThreadInv, TruthOf, ResultIsTrue
<1> QED
  BY <1>1, SpecInv, PTL

(* A run that reads a file in pages while nobody changes it reads every    *)
(* line once: for all texts, line breaks, offsets, limits and numbers of   *)
(* pages.                                                                  *)
THEOREM PagesAreTheFile == Spec => []PagesMakeTheFile
<1>1. Inv /\ PagesInv => PagesMakeTheFile
  <2> SUFFICES ASSUME PagesInv, NEW r \in Runs, NEW k \in DOMAIN pages[r], InOrder(pages[r], k),
                      ~(k > 1 /\ pages[r][k].start = pages[r][k].total
                             /\ pages[r][k].content = <<>>)
               PROVE  /\ ~(k > 1 /\ pages[r][k].start = pages[r][k].total)
                      /\ Join([i \in 1 .. k |-> pages[r][i].content]) = Join(SubSeq(Lines(file), 1, pages[r][k].end))
                      /\ pages[r][k].end = pages[r][k].total =>
                             Join([i \in 1 .. k |-> pages[r][i].content]) = Unended(AsNewlines(file))
    BY DEF PagesMakeTheFile
  <2> DEFINE read == pages[r]
  <2>1. /\ file \in Seq(Chars) /\ read \in Seq(PagesOf(file))
        /\ k \in 1 .. Len(read) /\ InOrder(read, k)
    BY DEF PagesInv
  <2>2. PageClaim(file, read, k)
    <3> HIDE DEF read
    <3> QED BY <2>1, PagesInOrder
  <2>3. read[k].total = Len(Lines(file))
    <3>1. read[k] \in PagesOf(file)
      BY <2>1
    <3> QED BY <2>1, <3>1, PageFacts
  <2>4. /\ Lines(file) \in Seq(Seq(Chars)) /\ Join(Lines(file)) = Unended(AsNewlines(file))
        /\ SubSeq(Lines(file), 1, Len(Lines(file))) = Lines(file)
    BY <2>1, LinesMakeText, SubSeqFull
  <2> HIDE DEF read
  <2> QED BY <2>2, <2>3, <2>4 DEF PageClaim, read
<1> QED
  BY <1>1, SpecPages, PTL

=============================================================================
