------------------------------ MODULE Includes ------------------------------
(***************************************************************************)
(* Include expansion, src/include.c, one source line or directory entry at *)
(* a time.  A line of a file is a text line, a directive or a malformed    *)
(* directive; a path is canonical (realpath), so two spellings of a file   *)
(* are one member of Files.                                                *)
(***************************************************************************)
EXTENDS Integers, Sequences

CONSTANTS
    Files,      \* canonical paths of regular files
    Dirs,       \* canonical paths of directories
    Nowhere,    \* a path that realpath cannot resolve, or neither of the two
    Root,       \* source_path
    Trees       \* the source trees to expand

Paths == Files \cup Dirs \cup {Nowhere}
Text == [is |-> "text", to |-> Nowhere]
Broken == [is |-> "broken", to |-> Nowhere]
Include(path) == [is |-> "include", to |-> path]
Lines == {Text, Broken} \cup {Include(path) : path \in Paths}

(* The contents of files, the sorted .baf children of directories, and the *)
(* paths that cannot be opened.                                            *)
Tree == [lines: [Files -> Seq(Lines)], listing: [Dirs -> Seq(Files)],
         shut: SUBSET (Files \cup Dirs)]

ASSUME IncludesAssumption ==
    /\ Root \in Files
    /\ Files \cap Dirs = {} /\ Nowhere \notin Files \cup Dirs
    /\ Trees \subseteq Tree

VARIABLES
    tree,       \* the file system, fixed
    stack,      \* ctx->stack: the open paths, each with its next line or child
    expanded,   \* ctx->expanded
    output,     \* the lines copied so far, as <<file, line>>
    outcome     \* "start", "busy", "ok" or "error"

includeVars == <<tree, stack, expanded, output, outcome>>

Frame == [path: Files \cup Dirs, at: Nat \ {0}]
Top == stack[Len(stack)]
Below == SubSeq(stack, 1, Len(stack) - 1)
Stepped == Below \o <<[Top EXCEPT !.at = @ + 1]>>   \* past the current line

Open == {stack[i].path : i \in 1 .. Len(stack)}
InFile == outcome = "busy" /\ Top.path \in Files
InDirectory == outcome = "busy" /\ Top.path \in Dirs
AtLine == InFile /\ Top.at <= Len(tree.lines[Top.path])
Line == tree.lines[Top.path][Top.at]

-----------------------------------------------------------------------------
(* Faulty variants, for the mutation runs: the file is not remembered; the *)
(* once-only test comes before the cycle test; what is named is taken up   *)
(* when the file that names it is done.                                    *)
Forgotten(path, root) == expanded
OpenLate(path) == path \in Open \ expanded
Postponed(path, frames) == <<[path |-> path, at |-> 1]>> \o frames

(* expand_path and the tests of expand_file on a requested path; frames is *)
(* the stack once the request is answered.                                 *)
Remembered(path, root) == IF root THEN expanded ELSE expanded \cup {path}
Circular(path) == path \in Open
Entered(path, frames) == Append(frames, [path |-> path, at |-> 1])

Fail ==
    /\ outcome' = "error"
    /\ UNCHANGED <<tree, stack, expanded, output>>

Push(path, frames) ==
    /\ stack' = Entered(path, frames)
    /\ outcome' = "busy"
    /\ UNCHANGED <<tree, output>>

ExpandFile(path, frames, root) ==
    \/ Circular(path) /\ Fail
    \/ /\ ~Circular(path)
       /\ ~root /\ path \in expanded
       /\ stack' = frames
       /\ UNCHANGED <<tree, expanded, output, outcome>>
    \/ /\ ~Circular(path)
       /\ root \/ path \notin expanded
       /\ path \notin tree.shut
       /\ expanded' = Remembered(path, root)
       /\ Push(path, frames)
    \/ /\ ~Circular(path)
       /\ root \/ path \notin expanded
       /\ path \in tree.shut
       /\ Fail

ExpandPath(path, frames, root) ==
    \/ path \in Files /\ ExpandFile(path, frames, root)
    \/ /\ path \in Dirs \ tree.shut
       /\ Push(path, frames)
       /\ UNCHANGED expanded
    \/ path \in Dirs \cap tree.shut /\ Fail
    \/ path = Nowhere /\ Fail

-----------------------------------------------------------------------------
IncludeInit ==
    /\ tree \in Trees
    /\ stack = <<>> /\ expanded = {} /\ output = <<>>
    /\ outcome = "start"

(* baf_expand_includes enters the root file.                               *)
Begin == outcome = "start" /\ ExpandPath(Root, stack, TRUE)

(* A line that is no directive is copied.                                  *)
CopyLine ==
    /\ AtLine /\ Line.is = "text"
    /\ output' = Append(output, <<Top.path, Top.at>>)
    /\ stack' = Stepped
    /\ UNCHANGED <<tree, expanded, outcome>>

(* A directive is replaced by the text of what it names.                   *)
FollowDirective ==
    /\ AtLine /\ Line.is = "include"
    /\ ExpandPath(Line.to, Stepped, FALSE)

RejectDirective == AtLine /\ Line.is = "broken" /\ Fail

(* expand_directory takes the children in order.                           *)
NextChild ==
    /\ InDirectory /\ Top.at <= Len(tree.listing[Top.path])
    /\ ExpandPath(tree.listing[Top.path][Top.at], Stepped, FALSE)

(* The end of a file or a directory: back to the line that asked for it.   *)
Finish ==
    /\ \/ InFile /\ Top.at > Len(tree.lines[Top.path])
       \/ InDirectory /\ Top.at > Len(tree.listing[Top.path])
    /\ stack' = Below
    /\ outcome' = IF Len(stack) = 1 THEN "ok" ELSE "busy"
    /\ UNCHANGED <<tree, expanded, output>>

IncludeNext ==
    \/ Begin \/ CopyLine \/ FollowDirective \/ RejectDirective
    \/ NextChild \/ Finish

IncludeSpec == IncludeInit /\ [][IncludeNext]_includeVars

-----------------------------------------------------------------------------
IncludeTypeOK ==
    /\ tree \in Trees
    /\ stack \in Seq(Frame)
    /\ expanded \subseteq Files
    /\ output \in Seq(Files \X Nat)
    /\ outcome \in {"start", "busy", "ok", "error"}
    /\ outcome = "busy" => stack # <<>>

(* "Each file is included once even if it is named several times": no line *)
(* of any file reaches the lexer twice, by whatever chain of files and     *)
(* directories it is named.  (A second copy would declare every function   *)
(* of the file again.)                                                     *)
OnceEach ==
    \A i, j \in 1 .. Len(output) : output[i] = output[j] => i = j

(* What a path asks for, directly.                                         *)
Asks(path) ==
    IF path \in Dirs
    THEN {tree.listing[path][i] : i \in 1 .. Len(tree.listing[path])}
    ELSE {line.to : line \in {tree.lines[path][i] :
                                  i \in 1 .. Len(tree.lines[path])}}
             \ {Nowhere}

(* A set of paths that asks for nothing outside itself.                    *)
ClosedUnder(set) == \A path \in set : Asks(path) \subseteq set

(* "A cycle is reported as an error": an accepted root does not reach a    *)
(* file from which that file is reached again, whichever of the once-only  *)
(* and cycle tests meets it first.                                         *)
Reaches(from) ==
    CHOOSE set \in SUBSET (Files \cup Dirs) :
        /\ Asks(from) \subseteq set /\ ClosedUnder(set)
        /\ \A less \in SUBSET set :
               Asks(from) \subseteq less /\ ClosedUnder(less) => less = set

CyclesRejected ==
    outcome = "ok" =>
        \A file \in ({Root} \cup Reaches(Root)) \cap Files :
            file \notin Reaches(file)

(* An accepted expansion is complete and in order: it holds every text     *)
(* line of every file the root reaches, and a file named by a directive is *)
(* there in full before the text that follows the directive.               *)
Position(file, line) ==
    CHOOSE i \in 1 .. Len(output) : output[i] = <<file, line>>

TextLines(file) ==
    {n \in 1 .. Len(tree.lines[file]) : tree.lines[file][n] = Text}

IncludedBefore ==
    outcome = "ok" =>
        \A file \in ({Root} \cup Reaches(Root)) \cap Files :
            /\ \A n \in TextLines(file) :
                   \E i \in 1 .. Len(output) : output[i] = <<file, n>>
            /\ \A d \in 1 .. Len(tree.lines[file]) :
                   LET target == tree.lines[file][d].to
                   IN  target \in Files =>
                           \A n \in TextLines(target), m \in TextLines(file) :
                               m > d => Position(target, n) < Position(file, m)
=============================================================================
