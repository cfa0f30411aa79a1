-------------------------------- MODULE EzFs --------------------------------
(***************************************************************************)
(* ez_fs.c: making a directory with the directories above it, and reading  *)
(* and writing a file in one call.  The file system is shared by the       *)
(* callers, each of which takes one system or library call a step: others  *)
(* come between.                                                           *)
(*                                                                         *)
(* There is one tree of directories, in which a path is the sequence of    *)
(* its components, an empty one where two separators meet or the path ends *)
(* with one, and one file, with a text or Absent.  A stream collects what is written *)
(* and passes it on when it is full, at the latest in fclose; the disk may *)
(* take only the beginning of it.                                          *)
(***************************************************************************)
EXTENDS Integers, Sequences, SequencesExt

CONSTANTS
    Callers,
    Calls,         \* what they may call: [fn, path] or [fn, buff, buff2]
    Trees,         \* the sets of directories that may exist at first, with <<>> where all paths start
    Contents,      \* what the file may hold at first
    STREAM         \* bytes that fwrite keeps back

Absent == <<-1>>

VARIABLES
    tree,          \* the directories that exist
    content, was,  \* the file's text, and what it was at first
    call,          \* what each caller called
    pc, pos,         \* where it is: the component that is made, the position read
    kept,          \* what its stream holds back
    result, answer,\* the memory it returned; the number
    faults         \* the callers to whom the system failed a call

vars == <<tree, content, was, call, pc, pos, kept, result, answer, faults>>

Writers == {"save", "append", "save_memory_memory"}

\* One of the callers may write the file while others read it.
Init == /\ tree \in Trees /\ content \in Contents /\ was = content
        /\ call \in [Callers -> Calls]
        /\ \A c, d \in Callers : c # d /\ call[c].fn \in Writers => call[d].fn \notin Writers
        /\ pc = [c \in Callers |-> "called"]
        /\ pos = [c \in Callers |-> 1]
        /\ kept = [c \in Callers |-> <<>>]
        /\ result = [c \in Callers |-> Absent]
        /\ answer = [c \in Callers |-> 0]
        /\ faults = {}

Return(c, n) == /\ pc' = [pc EXCEPT ![c] = "returned"] /\ answer' = [answer EXCEPT ![c] = n]
Goto(c, label) == pc' = [pc EXCEPT ![c] = label] /\ UNCHANGED answer
Fails(c) == faults' = faults \cup {c}

-----------------------------------------------------------------------------
(***************************************************************************)
(* ez_creat_dir: from the first component on, one that is missing is made. *)
(***************************************************************************)
Named(path) == SelectSeq(path, LAMBDA name : name # "")
Prefix(c) == Named(SubSeq(call[c].path, 1, pos[c]))
Made(path) == path \notin tree /\ Front(path) \in tree

Access(c) == /\ call[c].fn = "creat_dir" /\ pc[c] \in {"called", "access"} /\ pos[c] < Len(call[c].path)
             /\ IF Prefix(c) \in tree THEN pos' = [pos EXCEPT ![c] = @ + 1] /\ Goto(c, "access")
                                      ELSE UNCHANGED pos /\ Goto(c, "mkdir")
             /\ UNCHANGED <<tree, content, was, call, kept, result, faults>>

Mkdir(c) == /\ pc[c] = "mkdir"
            /\ \/ /\ Made(Prefix(c))
                  /\ tree' = tree \cup {Prefix(c)}
                  /\ pos' = [pos EXCEPT ![c] = @ + 1]
                  /\ Goto(c, "access")
                  /\ UNCHANGED faults
               \/ /\ ~Made(Prefix(c)) /\ Return(c, -3)
                  /\ UNCHANGED <<tree, pos, faults>>
               \/ /\ Return(c, -3) /\ Fails(c)
                  /\ UNCHANGED <<tree, pos>>
            /\ UNCHANGED <<content, was, call, kept, result>>

\* The last component is made without a look; 100 says that it was there.
MkdirLast(c) ==
    /\ call[c].fn = "creat_dir" /\ pc[c] \in {"called", "access"} /\ pos[c] = Len(call[c].path)
    /\ \/ Made(Prefix(c)) /\ tree' = tree \cup {Prefix(c)} /\ Return(c, 0) /\ UNCHANGED faults
       \/ Prefix(c) \in tree /\ Return(c, 100) /\ UNCHANGED <<tree, faults>>
       \/ Return(c, -1) /\ Fails(c) /\ UNCHANGED tree
    /\ UNCHANGED <<content, was, call, pos, kept, result>>

-----------------------------------------------------------------------------
(***************************************************************************)
(* ez_check_file_exist, and ez_load_file_to_memory: size the file,         *)
(* allocate, read it.                                                      *)
(***************************************************************************)
Exist(c) == /\ call[c].fn = "exist" /\ pc[c] = "called"
            /\ Return(c, IF content = Absent THEN 0 ELSE 1)
            /\ UNCHANGED <<tree, content, was, call, pos, kept, result, faults>>

Ftell(c) == /\ call[c].fn = "load" /\ pc[c] = "called"
            /\ IF content = Absent \/ content = <<>>
               THEN UNCHANGED pos /\ Return(c, IF content = Absent THEN -1 ELSE 0)
               ELSE pos' = [pos EXCEPT ![c] = Len(content)] /\ Goto(c, "malloc")
            /\ UNCHANGED <<tree, content, was, call, kept, result, faults>>

Malloc(c) == /\ pc[c] = "malloc"
             /\ \/ Goto(c, "fread") /\ UNCHANGED faults
                \/ Return(c, -2) /\ Fails(c)
             /\ UNCHANGED <<tree, content, was, call, pos, kept, result>>

\* As many bytes as the file had, when it still has them.
Fread(c) == /\ pc[c] = "fread"
            /\ \/ /\ Len(content) >= pos[c]
                  /\ result' = [result EXCEPT ![c] = SubSeq(content, 1, pos[c])]
                  /\ Return(c, pos[c]) /\ UNCHANGED faults
               \/ /\ Len(content) < pos[c]
                  /\ Return(c, -3) /\ UNCHANGED <<result, faults>>
               \/ Return(c, -3) /\ Fails(c) /\ UNCHANGED result
            /\ UNCHANGED <<tree, content, was, call, pos, kept>>

-----------------------------------------------------------------------------
(***************************************************************************)
(* The writers: open, which empties the file for all but append, fwrite    *)
(* once or twice, fclose.                                                  *)
(***************************************************************************)
\* As Emptied, with the file of two buffers left as it is.
SavesInPlace(fn) == fn = "save"
Emptied(fn) == fn # "append"

Fopen(c) == /\ call[c].fn \in Writers /\ pc[c] = "called"
            /\ \/ /\ call[c].buff = <<>> /\ Return(c, -1) /\ UNCHANGED <<content, faults>>
               \/ /\ call[c].buff # <<>>
                  /\ Goto(c, "fwrite")
                  /\ content' = IF content = Absent \/ Emptied(call[c].fn) THEN <<>> ELSE content
                  /\ UNCHANGED faults
               \/ /\ call[c].buff # <<>> /\ Return(c, -2) /\ Fails(c) /\ UNCHANGED content
            /\ UNCHANGED <<tree, was, call, pos, kept, result>>

\* What the stream cannot keep goes to the disk now; of a failed write some beginning did.
Flushed(text) == IF Len(text) > STREAM THEN <<text, <<>>>> ELSE <<<<>>, text>>
WriteOut(c, text, next, n, err) ==
    \/ /\ content' = content \o Flushed(kept[c] \o text)[1]
       /\ kept' = [kept EXCEPT ![c] = Flushed(kept[c] \o text)[2]]
       /\ pos' = [pos EXCEPT ![c] = n]
       /\ pc' = [pc EXCEPT ![c] = next]
       /\ UNCHANGED faults
    \/ /\ Len(kept[c] \o text) > STREAM
       /\ \E k \in 0..(Len(kept[c] \o text) - 1) : content' = content \o SubSeq(kept[c] \o text, 1, k)
       /\ kept' = [kept EXCEPT ![c] = <<>>]
       /\ pos' = [pos EXCEPT ![c] = err]
       /\ pc' = [pc EXCEPT ![c] = "fclose"]
       /\ Fails(c)

Fwrite(c) == /\ pc[c] = "fwrite"
             /\ WriteOut(c, call[c].buff, IF call[c].fn = "save_memory_memory" THEN "fwrite2" ELSE "fclose",
                         Len(call[c].buff), -3)
             /\ UNCHANGED <<tree, was, call, result, answer>>

Fwrite2(c) == /\ pc[c] = "fwrite2"
              /\ WriteOut(c, call[c].buff2, "fclose", Len(call[c].buff) + Len(call[c].buff2), -4)
              /\ UNCHANGED <<tree, was, call, result, answer>>

\* The result of fclose is not looked at.
Fclose(c) == /\ pc[c] = "fclose"
             /\ \/ content' = content \o kept[c] /\ UNCHANGED faults
                \/ /\ \E k \in 0..(Len(kept[c]) - 1) : content' = content \o SubSeq(kept[c], 1, k)
                   /\ Fails(c)
             /\ kept' = [kept EXCEPT ![c] = <<>>]
             /\ Return(c, pos[c])
             /\ UNCHANGED <<tree, was, call, pos, result>>

-----------------------------------------------------------------------------
MakeStep(c) == Access(c) \/ Mkdir(c) \/ MkdirLast(c)
LoadStep(c) == Exist(c) \/ Ftell(c) \/ Malloc(c) \/ Fread(c)
WriteStep(c) == Fopen(c) \/ Fwrite(c) \/ Fwrite2(c) \/ Fclose(c)

Next == \E c \in Callers : MakeStep(c) \/ LoadStep(c) \/ WriteStep(c)

Spec == Init /\ [][Next]_vars

-----------------------------------------------------------------------------
Returned(fns) == {c \in Callers : pc[c] = "returned" /\ call[c].fn \in fns}

\* After ez_creat_dir the directory is there with all above it unless it said otherwise; only one of the
\* callers is told that it made one; and a caller to whom the system failed nothing is refused only for
\* a directory that another caller made between its look and its mkdir.
DirectoriesAreThere ==
    LET makers == Returned({"creat_dir"})
    IN  /\ \A c \in makers : answer[c] \in {0, 100} =>
                \A n \in 0..Len(call[c].path) : Named(SubSeq(call[c].path, 1, n)) \in tree
        /\ \A c, d \in makers : answer[c] = 0 /\ answer[d] = 0 /\ Named(call[c].path) = Named(call[d].path) => c = d
        /\ \A c \in makers : answer[c] < 0 /\ c \notin faults => Prefix(c) \in tree

\* What a writer should leave.
Promised(c) == (IF call[c].fn = "append" /\ was # Absent THEN was ELSE <<>>)
               \o call[c].buff \o (IF call[c].fn = "save_memory_memory" THEN call[c].buff2 ELSE <<>>)
Texts == {was} \cup {Promised(c) : c \in {d \in Callers : call[d].fn \in Writers}}

\* A writer that was told a length has handed so many bytes to its stream: for save the size of the file, for
\* append what was appended, and not the size that ez_fs.h:40-42 promises of both.  Just those bytes are in the
\* file, unless the fclose failed that ez_fs.c does not look at (lines 228, 260, 315): then some beginning of what
\* should be is there and the caller is told of no failure.  A writer that could not open the file has left it
\* alone; any other failure leaves a beginning of what it should be.  A reader has either nothing or as many
\* bytes as it was told, a beginning of what the file was or will be: never a mixture.
FileIsAsTold ==
    /\ \A c \in Returned(Writers) :
        /\ answer[c] \in {-1, -2} => content = was
        /\ answer[c] \in {-3, -4} => c \in faults /\ IsPrefix(content, Promised(c))
        /\ answer[c] > 0 => /\ answer[c] = Len(Promised(c)) - (IF call[c].fn = "append" /\ was # Absent THEN Len(was) ELSE 0)
                            /\ IF c \in faults THEN IsPrefix(content, Promised(c)) ELSE content = Promised(c)
    /\ \A c \in Returned({"exist"}) : answer[c] = 0 => was = Absent
    /\ \A c \in Returned({"load"}) :
        IF answer[c] > 0 THEN Len(result[c]) = answer[c] /\ \E t \in Texts : IsPrefix(result[c], t)
                         ELSE result[c] = Absent

\* Both: what every caller of ez_fs.c is told is true, as far as FileIsAsTold says.
AnswersAreTrue == DirectoriesAreThere /\ FileIsAsTold
=============================================================================
