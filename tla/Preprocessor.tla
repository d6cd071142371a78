---------------------------- MODULE Preprocessor ----------------------------
(***************************************************************************)
(* preprocess() of preprocessor.hpp: replaces every include directive of a *)
(* token vector by the preprocessed tokens of the file it names.           *)
(*                                                                         *)
(* The function calls itself for the file included; `frames` is that call  *)
(* stack.  A file is the sequence of its tokens; a file name stands for a  *)
(* string literal token, and an output token is the place it came from.    *)
(***************************************************************************)
EXTENDS Integers, SequencesExt

CONSTANTS
    Names,      (* file names that an include may give                      *)
    Others,     (* the other tokens                                         *)
    Sources,    (* the file systems: functions from some names to tokens    *)
    Root,       (* the source_file of the outermost call                    *)
    MaxDepth    (* bound on the depth of calls; the code has none           *)

\* Every file that loads ends with an eof_ token: load_file_to_char8_vector
\* ends the text with a null character and lex_eof makes a token of it.
ASSUME SourcesAssumption ==
    /\ IsFiniteSet(Names) /\ Names \cap Others = {}
    /\ "include_" \in Others /\ "eof_" \in Others
    /\ MaxDepth \in Nat \ {0}
    /\ \A s \in Sources :
          /\ DOMAIN s \subseteq Names /\ Root \in DOMAIN s
          /\ \A f \in DOMAIN s :
                s[f] \in Seq(Names \cup Others) /\ s[f] # <<>> /\ Last(s[f]) = "eof_"

VARIABLES
    source,     (* the files that can be loaded and tokenized, by name      *)
    frames,     (* the calls, outermost first                               *)
    verdict     (* "none", then what the outermost call returns             *)

vars == <<source, frames, verdict>>

\* A call of preprocess: its source_file, the cursor c, the output so far and
\* included_files.  The file's own `code` is source[file].
Call(file) == [file |-> file, c |-> 1, output |-> <<>>, included |-> {}]

Init ==
    /\ source \in Sources
    /\ frames = <<Call(Root)>>
    /\ verdict = "none"

-----------------------------------------------------------------------------

Depth == Len(frames)
Top   == frames[Depth]
Code  == source[Top.file]
AtEnd == Top.c > Len(Code)

Running == verdict = "none" /\ ~AtEnd

SetTop(frame) ==
    /\ frames' = [frames EXCEPT ![Depth] = frame]
    /\ UNCHANGED <<source, verdict>>

\* A call that fails makes its caller fail at once, and so on outwards; the
\* outermost one returns the output it had.
Fail ==
    /\ verdict' = "failed"
    /\ frames' = <<Head(frames)>>
    /\ UNCHANGED source

\* A seeded fault: the cursor moves two tokens on.
CopyAndSkip ==
    /\ Running /\ Code[Top.c] # "include_"
    /\ SetTop([Top EXCEPT !.output = Append(@, <<Top.file, Top.c>>), !.c = @ + 2])

CopyToken ==
    /\ Running /\ Code[Top.c] # "include_"
    /\ SetTop([Top EXCEPT !.output = Append(@, <<Top.file, Top.c>>), !.c = @ + 1])

\* The token after the directive; it exists, for eof_ is the last one.
Named == Code[Top.c + 1]
OnInclude == Running /\ Code[Top.c] = "include_"

\* A seeded fault: the test for a file that includes itself is left out.
EnterSelf ==
    /\ OnInclude /\ Named = Top.file
    /\ Depth < MaxDepth
    /\ frames' = Append([frames EXCEPT ![Depth].c = @ + 1], Call(Named))
    /\ UNCHANGED <<source, verdict>>

NotNamed    == OnInclude /\ Named \notin Names /\ Fail
IncludeSelf == OnInclude /\ Named = Top.file /\ Fail

NewInclude == OnInclude /\ Named \in Names \ (Top.included \cup {Top.file})

\* "already included. Inclusion will be ignored."
AlreadyIncluded ==
    /\ OnInclude /\ Named \in Top.included \ {Top.file}
    /\ SetTop([Top EXCEPT !.c = @ + 2])

\* The file cannot be opened, or its text cannot be tokenized.
LoadFails == NewInclude /\ Named \notin DOMAIN source /\ Fail

\* A seeded fault: the file is not noted as included.
EnterUnnoted ==
    /\ NewInclude /\ Named \in DOMAIN source
    /\ Depth < MaxDepth
    /\ frames' = Append([frames EXCEPT ![Depth].c = @ + 1], Call(Named))
    /\ UNCHANGED <<source, verdict>>

\* The nested call starts with no included_files of its own.  The cursor of
\* the caller rests on the file name until the nested call returns.
EnterFile ==
    /\ NewInclude /\ Named \in DOMAIN source
    /\ Depth < MaxDepth
    /\ frames' = Append([frames EXCEPT ![Depth] =
                            [Top EXCEPT !.included = @ \cup {Named}, !.c = @ + 1]],
                        Call(Named))
    /\ UNCHANGED <<source, verdict>>

LeaveFile ==
    /\ verdict = "none" /\ AtEnd /\ Depth > 1
    /\ LET caller == frames[Depth - 1]
       IN  frames' = Append(SubSeq(frames, 1, Depth - 2),
               [caller EXCEPT !.output = @ \o Top.output, !.c = @ + 1])
    /\ UNCHANGED <<source, verdict>>

Finish ==
    /\ verdict = "none" /\ AtEnd /\ Depth = 1
    /\ verdict' = "preprocessed"
    /\ UNCHANGED <<source, frames>>

Next ==
    \/ CopyToken \/ NotNamed \/ IncludeSelf \/ AlreadyIncluded
    \/ LoadFails \/ EnterFile \/ LeaveFile \/ Finish

Spec     == Init /\ [][Next]_vars
FairSpec == Spec /\ WF_vars(Next)

-----------------------------------------------------------------------------

\* Where a token of the output may come from.
Origins == UNION {{f} \X (1..Len(source[f])) : f \in DOMAIN source}

TypeOK ==
    /\ source \in Sources
    /\ verdict \in {"none", "preprocessed", "failed"}
    /\ Depth \in 1..MaxDepth /\ frames[1].file = Root
    /\ \A k \in 1..Depth :
          /\ frames[k].file \in DOMAIN source
          /\ frames[k].c \in 1..(Len(source[frames[k].file]) + 1)
          /\ frames[k].included \subseteq Names
          /\ frames[k].output \in Seq(Origins)

-----------------------------------------------------------------------------
(* Inclusion, read from the files alone.                                   *)

IsDirective(f, k) == source[f][k] = "include_"

\* The directives of f that replace themselves by a file: the first of each name.
FirstIncludes(f) ==
    {k \in 1..(Len(source[f]) - 1) :
        /\ IsDirective(f, k)
        /\ ~\E j \in 1..(k - 1) : IsDirective(f, j) /\ source[f][j + 1] = source[f][k + 1]}

IncludedBy(f) == {source[f][k + 1] : k \in FirstIncludes(f)} \ {f}

\* The files reached from f by n inclusions of other files.
ReachedIn[n \in 0..Cardinality(Names)] ==
    [f \in DOMAIN source |->
        IF n = 0 THEN {f}
        ELSE UNION {IncludedBy(g) \cap DOMAIN source : g \in ReachedIn[n - 1][f]}]
Reached == UNION {ReachedIn[n][Root] : n \in 0..Cardinality(Names)}

\* No file comes back to itself through other files.
Acyclic ==
    \A f \in Reached : \A n \in 1..Cardinality(Names) : f \notin ReachedIn[n][f]

\* Something that preprocess reports: a directive with no name, a file that
\* includes itself or one that cannot be loaded.
Wrong(f) ==
    \E k \in FirstIncludes(f) : source[f][k + 1] \notin DOMAIN source \ {f}

\* The tokens of f with inclusions of n levels put in their place.
Expansion[n \in 0..Cardinality(Names)] ==
    [f \in DOMAIN source |->
        FlattenSeq([k \in 1..Len(source[f]) |->
            IF k \in FirstIncludes(f) /\ n > 0 THEN Expansion[n - 1][source[f][k + 1]]
            ELSE IF IsDirective(f, k) \/ (k > 1 /\ IsDirective(f, k - 1)) THEN <<>>
            ELSE <<<<f, k>>>>])]

\* What is returned is the whole text: every token of the program and of the
\* files it includes, each file in the place of the first directive of its
\* includer that names it; and it fails for a reason, however deep.
ExpandsIncludes ==
    /\ verdict = "preprocessed" =>
          /\ \A f \in Reached : ~Wrong(f)
          /\ Head(frames).output = Expansion[Cardinality(Names)][Root]
    /\ verdict = "failed" => \E f \in Reached : Wrong(f)

\* Preprocessing comes to an end when no files include each other in a circle;
\* a file that includes itself is no obstacle.
Terminates == Acyclic => <>(verdict # "none")
=============================================================================
