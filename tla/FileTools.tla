------------------------------- MODULE FileTools -------------------------------
(***************************************************************************)
(* The file tools on one path of the workspace (core/tools/builtin/fs).    *)
(*                                                                         *)
(* A tool call waits for a worker thread that does its work.  Two runs, of *)
(* different sessions or one after the other in the same session, may work *)
(* on the path at the same time, because the thread of a run that was      *)
(* cancelled goes on.  A text is a sequence of characters of one byte: the *)
(* line breaks of several bytes (U+0085, U+2028, U+2029) are left out.     *)
(***************************************************************************)
EXTENDS Integers, FiniteSets, Sequences

CONSTANTS Runs,           \* the runs that call tools
          Chars,          \* characters
          Newline,        \* line feed
          CarriageReturn, \* a line feed behind it belongs to the same line break
          Breaks,         \* all characters that end a line: these two, form feed ...
          Blocked,        \* a directory, a path without directory
          Absent,         \* no file, in a directory that exists
          Opaque,         \* files that are not text
          None,           \* no limit, no data
          Files,          \* contents of the file in the beginning
          Contents,       \* what write_file is called with
          Edits,          \* pairs <<old_string, new_string>>
          Offsets,        \* where read_file starts
          Limits,         \* how many lines it may return, None for all
          MaxRead,        \* ToolContext.fs_max_read
          MaxWrite,       \* ToolContext.fs_max_write
          Workers,        \* threads of the default executor
          MaxCalls        \* bound on the calls of one run

ASSUME FileToolsAssumption ==
    /\ Newline \in Breaks /\ CarriageReturn \in Breaks \ {Newline} /\ Breaks \subseteq Chars
    /\ Files \subseteq Seq(Chars) /\ Contents \subseteq Seq(Chars)
    /\ Edits \subseteq (Seq(Chars) \ {<<>>}) \X Seq(Chars)
    /\ Offsets \subseteq Nat /\ Limits \subseteq (Nat \ {0}) \cup {None}
    /\ MaxRead \in Nat /\ MaxWrite \in Nat /\ Workers \in Nat /\ MaxCalls \in Nat
    /\ (Blocked \cup Opaque \cup {Absent}) \cap Seq(Chars) = {}
    /\ None \notin Seq(Chars) /\ None \notin Nat

VARIABLES
  file,     \* what is at the path
  run,      \* "idle", "waiting" for a call, "cancelled"
  calls,    \* how many calls a run has made
  args,     \* the tool and its parameters
  thread,   \* where the thread of the call is
  data,     \* the text it writes, or the page it has read
  result,   \* "ok", or the error it raises
  pages,    \* history: the pages a run has read, while the file did not change
  base,     \* history: the file when the thread began, or what an edit read
  alone     \* history: nobody else has changed the file since then, or since
            \* the call opened it

vars == <<file, run, calls, args, thread, data, result, pages, base, alone>>

Working == {"checked", "opened"}

Init ==
    /\ file \in Files \cup Blocked \cup Opaque \cup {Absent}
    /\ run = [r \in Runs |-> "idle"]
    /\ calls = [r \in Runs |-> 0]
    /\ args = [r \in Runs |-> None]
    /\ thread = [r \in Runs |-> "none"]
    /\ data = [r \in Runs |-> None]
    /\ result = [r \in Runs |-> None]
    /\ pages = [r \in Runs |-> <<>>]
    /\ base = [r \in Runs |-> Absent]
    /\ alone = [r \in Runs |-> FALSE]

-----------------------------------------------------------------------------
(* Texts *)

(* The line feed of a CR LF: the line has ended already. *)
Follows(text, n) == n > 1 /\ text[n] = Newline /\ text[n - 1] = CarriageReturn

(* str.splitlines, of a text that was decoded as it is: every line break   *)
(* ends a line and is gone, and the last line may do without.              *)
Lines(text) ==
    LET upTo[n \in 0 .. Len(text)] ==
            IF n = 0 THEN [done |-> <<>>, open |-> <<>>]
            ELSE IF Follows(text, n) THEN upTo[n - 1]
            ELSE IF text[n] \in Breaks
                 THEN [done |-> Append(upTo[n - 1].done, upTo[n - 1].open), open |-> <<>>]
                 ELSE [done |-> upTo[n - 1].done, open |-> Append(upTo[n - 1].open, text[n])]
        all == upTo[Len(text)]
    IN  IF all.open = <<>> THEN all.done ELSE Append(all.done, all.open)

(* "\n".join *)
Join(lines) ==
    LET upTo[n \in 0 .. Len(lines)] ==
            IF n = 0 THEN <<>>
            ELSE IF n = 1 THEN lines[1] ELSE upTo[n - 1] \o <<Newline>> \o lines[n]
    IN  upTo[Len(lines)]

(* _cap_text; the mark behind the cut is the flag `truncated' alone. *)
CapText(text) == IF Len(text) <= MaxRead THEN text ELSE SubSeq(text, 1, MaxRead)

(* Mutation: a page begins with the last line of the one before.           *)
ReadFileTwice(text, offset, limit) ==
    LET lines == Lines(text)
        last == IF limit = None \/ offset + limit > Len(lines) THEN Len(lines) ELSE offset + limit
        beyond == offset >= Len(lines)
        content == IF beyond THEN <<>>
                   ELSE Join(SubSeq(lines, IF offset = 0 THEN 1 ELSE offset, last))
    IN  [start |-> offset, end |-> IF beyond THEN offset ELSE last, total |-> Len(lines),
         content |-> CapText(content), truncated |-> Len(content) > MaxRead]

(* _read_file: the lines after `offset', `limit' of them at most. *)
ReadFile(text, offset, limit) ==
    LET lines == Lines(text)
        last == IF limit = None \/ offset + limit > Len(lines) THEN Len(lines) ELSE offset + limit
        beyond == offset >= Len(lines)
        content == IF beyond THEN <<>> ELSE Join(SubSeq(lines, offset + 1, last))
    IN  [start |-> offset, end |-> IF beyond THEN offset ELSE last, total |-> Len(lines),
         content |-> CapText(content), truncated |-> Len(content) > MaxRead]

Occurrences(text, old) ==
    {i \in 1 .. Len(text) - Len(old) + 1 : SubSeq(text, i, i + Len(old) - 1) = old}

(* str.count counts occurrences that do not overlap. *)
Ambiguous(text, old) ==
    \E i, j \in Occurrences(text, old) : j >= i + Len(old)

First(text, old) ==
    {i \in Occurrences(text, old) : \A j \in Occurrences(text, old) : i <= j}

(* text.replace(old, new, 1), i being the first occurrence. *)
ReplacedAt(text, i, old, new) ==
    SubSeq(text, 1, i - 1) \o new \o SubSeq(text, i + Len(old), Len(text))

(* What bytes written from the beginning make of a file. *)
Overlay(bytes, text) == bytes \o SubSeq(text, Len(bytes) + 1, Len(text))

IsText == file \in Seq(Chars)

-----------------------------------------------------------------------------
(* The handlers: a call goes to the queue of the executor *)

Call(r, what) ==
    /\ run[r] = "idle"
    /\ calls[r] < MaxCalls
    /\ run' = [run EXCEPT ![r] = "waiting"]
    /\ calls' = [calls EXCEPT ![r] = @ + 1]
    /\ args' = [args EXCEPT ![r] = what]
    /\ thread' = [thread EXCEPT ![r] = "queued"]
    /\ UNCHANGED <<file, data, result, pages, base, alone>>

CallRead(r) ==
    \E what \in [tool : {"read_file"}, offset : Offsets, limit : Limits] : Call(r, what)

CallWrite(r) ==
    \E what \in [tool : {"write_file"}, content : Contents] : Call(r, what)

CallEdit(r) ==
    \E what \in {[tool |-> "edit_file", old |-> e[1], new |-> e[2]] : e \in Edits} : Call(r, what)

(* The result is taken by the run that waits for it. *)
Return(r) ==
    /\ run[r] = "waiting"
    /\ thread[r] = "done"
    /\ run' = [run EXCEPT ![r] = "idle"]
    /\ thread' = [thread EXCEPT ![r] = "none"]
    /\ pages' = [pages EXCEPT ![r] = IF args[r].tool # "read_file" \/ result[r] = "refused" THEN @
                                     ELSE IF alone[r] THEN Append(@, data[r]) ELSE <<>>]
    /\ args' = [args EXCEPT ![r] = None]
    /\ data' = [data EXCEPT ![r] = None]
    /\ result' = [result EXCEPT ![r] = None]
    /\ base' = [base EXCEPT ![r] = Absent]
    /\ alone' = [alone EXCEPT ![r] = FALSE]
    /\ UNCHANGED <<file, calls>>

(* The task of the run is cancelled.  A call that is still queued is never *)
(* begun; a thread that has begun cannot be stopped.                       *)
Cancel(r) ==
    /\ run[r] = "waiting"
    /\ run' = [run EXCEPT ![r] = "cancelled"]
    /\ thread' = [thread EXCEPT ![r] = IF @ = "queued" THEN "none" ELSE @]
    /\ UNCHANGED <<file, calls, args, data, result, pages, base, alone>>

-----------------------------------------------------------------------------
(* The threads *)

Finish(r, what) ==
    /\ thread' = [thread EXCEPT ![r] = "done"]
    /\ result' = [result EXCEPT ![r] = what]

(* A thread of the executor takes the call.                                *)
Begin(r) ==
    /\ thread[r] = "queued"
    /\ Cardinality({s \in Runs : thread[s] \in {"begun"} \cup Working}) < Workers
    /\ thread' = [thread EXCEPT ![r] = "begun"]
    /\ base' = [base EXCEPT ![r] = file]
    /\ alone' = [alone EXCEPT ![r] = TRUE]
    /\ UNCHANGED <<file, run, calls, args, data, result, pages>>

(* _read_file *)
Read(r) ==
    /\ thread[r] = "begun"
    /\ args[r].tool = "read_file"
    /\ IF IsText
       THEN /\ Finish(r, "ok")
            /\ data' = [data EXCEPT ![r] = ReadFile(file, args[r].offset, args[r].limit)]
       ELSE Finish(r, "refused") /\ UNCHANGED data
    /\ UNCHANGED <<file, run, calls, args, pages, base, alone>>

(* _write_bytes_guarded until the file is opened: a text that is too long  *)
(* is refused, whether it was given or is what an edit makes of the file.  *)
Guarded(r, text) ==
    IF file \in Blocked \/ Len(text) > MaxWrite
    THEN Finish(r, "refused") /\ UNCHANGED data
    ELSE /\ thread' = [thread EXCEPT ![r] = "checked"]
         /\ data' = [data EXCEPT ![r] = text]
         /\ UNCHANGED result

Write(r) ==
    /\ thread[r] = "begun"
    /\ args[r].tool = "write_file"
    /\ Guarded(r, args[r].content)
    /\ UNCHANGED <<file, run, calls, args, pages, base, alone>>

(* Mutation: the edit is made of the text that was there when the call     *)
(* began.                                                                  *)
EditStale(r) ==
    /\ thread[r] = "begun"
    /\ args[r].tool = "edit_file"
    /\ base' = [base EXCEPT ![r] = file]
    /\ alone' = [alone EXCEPT ![r] = TRUE]
    /\ IF IsText /\ base[r] \in Seq(Chars)
          /\ Occurrences(base[r], args[r].old) # {} /\ ~Ambiguous(base[r], args[r].old)
       THEN \E i \in First(base[r], args[r].old) :
                Guarded(r, ReplacedAt(base[r], i, args[r].old, args[r].new))
       ELSE Finish(r, "refused") /\ UNCHANGED data
    /\ UNCHANGED <<file, run, calls, args, pages>>

(* _edit: the file is read, its replacement computed and checked.          *)
Edit(r) ==
    /\ thread[r] = "begun"
    /\ args[r].tool = "edit_file"
    /\ base' = [base EXCEPT ![r] = file]
    /\ alone' = [alone EXCEPT ![r] = TRUE]
    /\ IF IsText /\ Occurrences(file, args[r].old) # {} /\ ~Ambiguous(file, args[r].old)
       THEN \E i \in First(file, args[r].old) :
                Guarded(r, ReplacedAt(file, i, args[r].old, args[r].new))
       ELSE Finish(r, "refused") /\ UNCHANGED data
    /\ UNCHANGED <<file, run, calls, args, pages>>

(* The history of all others ends with a change of the file.               *)
Change(r, text, undisturbed) ==
    /\ file' = text
    /\ alone' = [s \in Runs |-> s = r /\ undisturbed]
    /\ pages' = [s \in Runs |-> <<>>]

(* write_bytes opens the file, which empties or creates it, or fails to:   *)
(* whatever others made of it since the call began is lost.                *)
Open(r) ==
    /\ thread[r] = "checked"
    /\ \/ /\ Change(r, <<>>, TRUE)
          /\ thread' = [thread EXCEPT ![r] = "opened"]
          /\ UNCHANGED result
       \/ /\ Finish(r, "refused")
          /\ UNCHANGED <<file, alone, pages>>
    /\ UNCHANGED <<run, calls, args, data, base>>

(* The bytes are written; if that fails, some of them are.                 *)
WriteOut(r) ==
    /\ thread[r] = "opened"
    /\ \/ /\ Change(r, Overlay(data[r], file), alone[r])
          /\ Finish(r, "ok")
       \/ \E n \in 0 .. Len(data[r]) - 1 :
              /\ Change(r, Overlay(SubSeq(data[r], 1, n), file), alone[r])
              /\ Finish(r, "failed")
    /\ UNCHANGED <<run, calls, args, data, base>>

-----------------------------------------------------------------------------
Handler(r) == CallRead(r) \/ CallWrite(r) \/ CallEdit(r) \/ Return(r) \/ Cancel(r)

Thread(r) == Begin(r) \/ Read(r) \/ Write(r) \/ Edit(r) \/ Open(r) \/ WriteOut(r)

Next == \E r \in Runs : Handler(r) \/ Thread(r)

Spec == Init /\ [][Next]_vars

-----------------------------------------------------------------------------
(* Properties *)

Calls == [tool : {"read_file"}, offset : Nat, limit : (Nat \ {0}) \cup {None}]
         \cup [tool : {"write_file"}, content : Seq(Chars)]
         \cup [tool : {"edit_file"}, old : Seq(Chars), new : Seq(Chars)]

(* Every variable keeps its type; a thread that is about to write has what *)
(* it writes, and a call that is waited for has a thread.                  *)
TypeOK ==
    /\ file \in Seq(Chars) \cup Blocked \cup Opaque \cup {Absent}
    /\ run \in [Runs -> {"idle", "waiting", "cancelled"}]
    /\ calls \in [Runs -> Nat]
    /\ args \in [Runs -> Calls \cup {None}]
    /\ thread \in [Runs -> {"none", "queued", "begun", "checked", "opened", "done"}]
    /\ result \in [Runs -> {None, "ok", "refused", "failed"}]
    /\ alone \in [Runs -> BOOLEAN]
    /\ DOMAIN data = Runs /\ DOMAIN base = Runs /\ DOMAIN pages = Runs
    /\ \A r \in Runs : /\ thread[r] \in Working => data[r] \in Seq(Chars)
                       /\ thread[r] # "none" => args[r] \in Calls
                       /\ run[r] = "waiting" => thread[r] # "none"

(* Whatever runs do at the same time, and wherever a write fails or its    *)
(* run is cancelled, the tools never make a file longer than fs_max_write. *)
(* An edit is held to the limit by what it makes of the file               *)
(* (_write_bytes_guarded, write_bytes).                                    *)
SizeBounded == file \in Seq(Chars) => file \in Files \/ Len(file) <= MaxWrite

(* What edit_file promises with "ok": there was one place, and this place  *)
(* was replaced, nothing else.                                             *)
Edited(before, after, old, new) ==
    /\ ~Ambiguous(before, old)
    /\ \E i \in 0 .. Len(before) - Len(old) :
           /\ before = SubSeq(before, 1, i) \o old \o SubSeq(before, i + Len(old) + 1, Len(before))
           /\ after = SubSeq(before, 1, i) \o new \o SubSeq(before, i + Len(old) + 1, Len(before))

(* A call does what its result says, whatever other threads did to the     *)
(* file before it was opened, if they leave it alone from then on: a write *)
(* is there entirely, an edit has replaced the one occurrence in the text  *)
(* it read (and undone what others wrote in between).  A refused call has  *)
(* left the file as it was.  It holds for the thread of a cancelled run    *)
(* too (_write_file_handler, _edit_file_handler).                          *)
ResultIsTrue ==
    \A r \in Runs : (thread[r] = "done" /\ alone[r]) =>
        /\ result[r] = "refused" \/ args[r].tool = "read_file" => file = base[r]
        /\ result[r] = "ok" =>
               /\ args[r].tool = "write_file" => file = args[r].content
               /\ args[r].tool = "edit_file" => Edited(base[r], file, args[r].old, args[r].new)

(* A text with a newline for each of its line breaks. *)
AsNewlines(text) ==
    LET upTo[n \in 0 .. Len(text)] ==
            IF n = 0 THEN <<>>
            ELSE IF Follows(text, n) THEN upTo[n - 1]
            ELSE Append(upTo[n - 1], IF text[n] \in Breaks THEN Newline ELSE text[n])
    IN  upTo[Len(text)]

(* A text without the newline at its end. *)
Unended(text) ==
    IF text # <<>> /\ text[Len(text)] = Newline THEN SubSeq(text, 1, Len(text) - 1) ELSE text

(* The first k pages begin at the first line, each goes on where the one   *)
(* before has ended, and nothing of them was cut off.                      *)
InOrder(read, k) ==
    /\ read[1].start = 0
    /\ \A i \in 1 .. k : ~read[i].truncated /\ (i > 1 => read[i].start = read[i - 1].end)

(* A run that reads a file page by page, each from the end_line of the one *)
(* before, while nobody changes it and no page is truncated, has read each *)
(* line up to there once, and with the last page the whole file but for    *)
(* the break at its end: every other line break is told as a newline,      *)
(* whatever it was.  A page behind the last one is empty (_read_file).     *)
PagesMakeTheFile ==
    \A r \in Runs : \A k \in DOMAIN pages[r] :
        LET read == pages[r]
            text == Join([i \in 1 .. k |-> read[i].content])
        IN  InOrder(read, k) =>
                IF k > 1 /\ read[k].start = read[k].total THEN read[k].content = <<>>
                ELSE /\ text = Join(SubSeq(Lines(file), 1, read[k].end))
                     /\ read[k].end = read[k].total => text = Unended(AsNewlines(file))

=============================================================================
