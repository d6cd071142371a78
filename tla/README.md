# A verification project for the C& compiler prototype

TLA+ models of the core of the C& ("Candi") compiler prototype, the TLC runs
that check them on small instances, and machine-checked proofs, for inputs of
any size, about the preprocessor, the macro expander, the scope finders, the
statement finders, the splitting of scopes, the rewriting of the parenthesizer
and the declarations and values of the evaluator. Every definition is translated
from the C++ sources under `src/Candi_Compiler/` (paths below are relative to
it); `PROJECT.json` gives the lines behind each.

## 1. The system

The program is a pipeline of sequential passes over vectors of tokens. There are
no threads, no messages and nothing is persisted: what is hard in it is nesting,
positions into containers that are being changed, recursion through data
(nested operands, included files), loops that must end, and operations that
fail half-way.

| Part | State | Operations | Talks to | What makes it correct |
|---|---|---|---|---|
| Tokenizer (`tokenizer.hpp`) | cursor in the text, tokens so far, keyword syntax of the file | 13 lexers tried in order | feeds everything | every character belongs to one token; the cursor stays inside; one keyword syntax per file |
| Preprocessor (`preprocessor.hpp`) | per call: cursor, output, `included_files` | copy, include, ignore, fail | tokenizer, files, itself | the output is the whole text with each file in its place; ends; fails for a reason |
| Macro expander (`macro_expander.hpp`) | cursor, output, `defined_macros` | define, expand, copy | tokens of the preprocessor | each use replaced by its body; ends |
| Scope finders (`token_iterator.hpp`, repeated in `parser_utils.hpp`) | position, stack of scope types, three depth counters, `last_closed` | `find_paren`, `find_brace`, `find_bracket` | used by all that follow | the close token found is the matching one |
| Statement finders (same files) | the same | `find_statement`, `find_open_statement`, `find_program_statement` | parser | the statement ends at the first close token outside its scopes |
| Separated scopes (same files) | the same, and the pieces | `find_seperated_*` | parser | the pieces are the scope, cut at its own separators |
| Parenthesizer (`parenthesizer.hpp`) | head, expected head, output list, closures that hold iterators into it | skip, store, check, resolve | scope finders, itself for operands | the parentheses say what priorities and associativity say; no token lost |
| Expression parser (`parenthesizer.hpp`) | cursor, node | `parse_expression_impl` | output of the parenthesizer | every token is in the tree |
| Recursive-descent parser (`parser.hpp`) | per call: range, cursor, node | `parse_program`, the pragmatic and functional block and a function for each statement | finders, token cursors, itself for blocks | every token of a block belongs to one statement, the ends found by different searches agree, a program in the documented formats is parsed |
| Runtime environment, evaluator (`constant_evaluator.hpp`) | tree of environments with their variables | declarations, expressions, calls | AST | names resolve up the chain; no statement, failed or not, changes what a name means; values keep the range of their types |

`parser_utils.hpp` holds the finders a second time for the older token class.
The functions differ from those of `token_iterator.hpp` in the names of the
token types only, so the same actions stand for both; they are named after both
(`find_paren_scope == find_paren` and so on).

## 2. Modules

| Module | Models | How |
|---|---|---|
| `Scopes` | scope predicates of `cand_syntax.hpp` | also *defines* the matching close token, by counting open and close tokens, without a stack: `IsScope` is the specification the finders are held to |
| `Tokenizer` | `tokenize` and its 13 lexers | one step per token: the first lexer that matches; a lexer is an operator from the place of the cursor to a token; the loops that run past the end give `never_ends`. The lexemes are *defined* a second time, as sets of character sequences, which is what the tokens are held to |
| `TkScope` | `find_paren`, `find_brace`, `find_bracket` | one step per iteration of the loop; `toks` is the range, position 1 is `begin` |
| `ScopeFinder` | what a scope finder promises | abstract: one step from the call to the answer; `TkScope` implements it (`ImplementsFinder`) |
| `Lemmas` | | what several proofs rest on: induction over numbers; on `Scopes`, the height, nesting, what the next token does to a scanned prefix |
| `ParserProofs` | | proofs about `TkScope` and about `BlockParser`, which searches with it; the names of `BlockParser` differ from those of `TkScope` (`ParserInit`, `ParserSpec`, `ParserTypes`, ...), so that one module can extend both |
| `TkStatement` | `find_statement`, `find_open_statement`, `find_program_statement` | one step per iteration; the call (finder, open and close type) is part of the state; a read of `std::next(begin)` at the end is a free choice, `top()` of an empty stack gives the verdict `undefined` |
| `TkStatementProofs` | | proofs about `TkStatement` |
| `TkSeparated` | `find_seperated_paren/brace/bracket` | one step per iteration; `returned = FALSE` is the fall off the end of a function |
| `TkSeparatedProofs` | | proofs about `TkSeparated` |
| `BlockParser` | `parse_program`, `parse_pragmatic_block`, `parse_functional_block`, the declarations, `#return`, `#if`, `#while`, `#for`, `#on`; `tk_cursor`, `scan_tokens`, `find_exact` | `frames` is the stack of calls, each with its range, its place and what it parses; one action per function, or two where it calls another block and goes on from the end that it had found itself; the finders are operators that give what they return |
| `Parenthesizer` | `closure_list`, `parenthesizer` | `p` is the parenthesizer that runs, `callers` those suspended in `action_skip` on an operand; one step per head and one per `resolve_next` |
| `ParenthesizerProofs` | | proofs about the closures and the outputs of `Parenthesizer` |
| `Preprocessor` | `preprocess` | `frames` is the recursion; a file is its token sequence and an output token the place it came from, so that loss, repetition and order all show |
| `FrontEndProofs` | | proofs about `Tokenizer` and `Preprocessor`, one after the other as the code calls them (the names of `Tokenizer` differ from those of `Preprocessor`, so that one module can extend both: `TokenizerInit`, `TokenizerSpec`, ...) |
| `ExpressionParser` | `parse_expression_impl` | extends `Parenthesizer`: an operator from its output to the tree, the empty set where the code throws |
| `MacroExpander` | `macro_expand` | one step per token; `StayOnName` is the iteration that changes nothing; `CollectPastEnd` gives the verdict `undefined` where `get()` is read past the end |
| `MacroExpanderProofs` | | proofs about `MacroExpander` |
| `ConstEval` | `rtenv`, the literal, operator, declaration and call evaluators | `envs` is the tree, `class` the class whose body is under way (one step per member, each of which may throw), `result` what the last statement returned; the evaluators of expressions are functions of the environments, as they change nothing |
| `Environment` | what a program sees of `rtenv` | abstract: a map from names to what they stand for, and one step per declaration; `ConstEval` implements it (`ImplementsEnvironment`) |
| `ConstEvalProofs` | | proofs about `ConstEval` |

The modules `MC...` give these the inputs of bounded instances.

The parenthesizer uses the scope finders through what they promise: `ScopeCloses`
is the position for which `IsScope` holds. That this is what the finders return
is the theorem `TkScopeCorrect`. `BlockParser` uses them in the same way:
that its `FindAnyScope` has the finder's answer for its one outcome is the theorem
`FinderAnswersTheParser`.

Two modules are abstract specifications. `ScopeFinder` says what a caller may
rely on: one answer, never taken back, right by counting, and of an invalid
scope an end that is one of two positions (the parsers go on from there).
`Environment` says that names are bound one at a time, that a bound name stands
for the same object for good, that a declaration answers with what its name
stands for, and that a statement that throws binds nothing (a class is bound
before its body and stays bound if the body throws). The loops of the finders, and the tree of
environments with its classes half-way through their bodies, are shown to
implement them, by TLC as a property of the runs and for all constants by proof.

Abstractions. A token is its type (`Parenthesizer`, `Preprocessor`: its place).
The operator tables keep one or two tokens of each class (assignment, equality,
sum, product, prefix, postfix, access), since the rewriting reads nothing but
class, priority and associativity. Iterators are positions; an iterator into the
output list is the token it points to, which insertions do not move. The three
depth counters are modelled in `TkScope`, where `DepthsMatchHistory` shows that
they repeat the stack; `TkStatement` and `TkSeparated` keep the stack only. The
text of error messages is left out.

In `ConstEval` a value is a type and a number; reals hold nothing and strings
their length; the escapes inside of literals are left out. Environments are
numbered in the order they are made, and `chain` stands for the way along the
`parent_` pointers. Statements are evaluated in the global environment, as the
tests do. Undefined behaviour (overflow of `int`, division by zero, `front()` of
an empty vector) is a value of its own, after which nothing follows. The
operands of an operation are evaluated twice by the code, which does not show,
since no evaluator of an expression changes anything. The trees are in the
format that the comments of the evaluators document: at this commit
`parse_directive_var` builds another one and the parser of expressions is a
stub, so that no tree reaches the evaluator from source text.

In `BlockParser` the tree that is built is the set of calls that have returned,
each with its range; what is read of a tree afterwards is not modelled. The
parser of expressions (`expression_split_and_simplify2`) refuses everything at
this commit, which leaves declarations without a value as the only statements
that parse. So that the rest of the parser is looked at too, an expression over
`ExpressionTokens` may be parsed *or* refused; with `ExpressionTokens = {}` the
module is the code as it stands. A failure is handed on by every caller up to
`parse_program`, which throws, so that it ends the behaviour at once. The type
`#uint`, the other constraints and `parse_arguments` are called by nothing and
left out. The two loops inside `parse_primary_expression` (parentheses around the
whole come off one pair at a time) and `parse_cso_int` (one token after another) are
written as the least number of pairs that leaves no other and as nested scans, not
as recursive functions and folds: the provers can follow those.

Definitions introduced as seeded faults are wrong variants of the action that
follows them; they are used by no specification and record which mistake each
property would notice.

## 3. Runs

| Run | Instance | Checks |
|---|---|---|
| `tokenizer` | 22,700 texts: for words and keywords, quotations, comments, numbers, operators and the rest, every text of their characters up to the length where they meet (4; 7 for comments), with and without the `'\0'` of a loaded file | `LongestLexemes`: each token is the longest lexeme at its place, although the lexers are tried in a fixed order and know nothing of each other; `OneKeywordSyntax`; `FailsForAReason`; `EndsWithEof`, which the loops of the parser need; `TokenizerEnds` |
| `tk_scope` | every range of 0 to 5 tokens over the six scope tokens and a plain one, all three finders | `FindsTheScope`: valid exactly for the scope that matches by counting; `DepthsMatchHistory`; `ImplementsFinder`, the refinement of `ScopeFinder`; `Terminates` |
| `tk_statement` | every range of 1 to 5 tokens over two scopes, a name and `;`, 14 calls | `EndsOutsideScopes`, `MissesNoStatement` |
| `tk_separated` | every range of up to 6 tokens that starts with an open token, over two kinds of scope, a separator and `eof_` anywhere | `SplitsTheScope` |
| `block_parser` | 9,441 programs: every statement in every block that may hold it and blocks in blocks, 2,716 of them in the documented formats, those that the code refuses included; some that an `eof_` cuts short; and well-formed ones with one token taken out or put in | `BlocksAreCovered`: the statements of a block follow each other without gap or overlap and reach its end, but for an `eof_`; `StatementsAreWhole`: each ends with its own last token; `SearchesAgree`: the end that a caller goes on from is the one that the callee stopped at; `ReadsStayInside`: nothing is read behind the tokens or from an empty stack, and a function ends without its value only for a `#for` that no `;` ends; `ParsesTheFormats`: nothing in the formats is refused but for an expression or one of the five things that the code does not take (`NotAsCommented`, below) |
| `parenthesizer` | all 1,289 well-formed expressions of up to 7 tokens, 60 with calls, indices and type constraints that contain something, and six broken ones | `KeepsTokens`, `ScopesStayWhole`, `ClosuresInOrder` at every step; `ParenthesizesRight` of the result, `ParsesWhole` of the tree that is built from it: no operator or operand is dropped; `Terminates` |
| `preprocessor` | 3,780 file systems of three files and a missing one, with repeated, nested, circular and self inclusion and directives without a name | `ExpandsIncludes`, `Terminates` |
| `macro_expander` | all 15,311 programs of up to 4 items: names, tokens, empty, nested, repeated, unnamed and unclosed definitions | `ExpandsMacros`: the output is at every step the expansion of what was read, and the call ends as the code deserves; `Terminates` |
| `const_eval` | three names for variables, members, classes and functions; 16 expressions that wrap, overflow, divide by zero or are not implemented; classes with members that fail; three environments; `int` of 3 bits, bytes of 2 | `BindingsStand`: no statement changes what a name means; `ReturnsTheBinding`; `ValuesAreCurrent`: no object left behind by a repeated declaration is held anywhere; `TypeOK`: values keep their range; `ImplementsEnvironment`, the refinement of `Environment` |
| `keyword_prefix` | words of two keywords and another letter, with and without `#` | finding 1 |
| `access_chains` | expressions with calls, `++` and member access | finding 2 |
| `function_arguments` | as `const_eval` | finding 3 |

In `Tokenizer` the letters of a keyword are one character, since the lexers look
at keywords only as a whole and at their letters only as letters; a keyword that
begins with `b`, `u` or `c` right behind a digit, whose first letter the number
takes, is left out. Of the operators with the
same continuations one or two are in the texts (`+` and `&` also for `-` and
`|`, `!` and `*` also for `%`); all other characters are in one of the classes
that the lexers ask for.

Bounds. Five tokens allow two scopes nested or side by side inside the outermost
one, every pair of mismatched kinds, and a close token missing, early or too
many; the proofs remove the bound for the scope, statement and separated-scope
finders, the tokenizer, the preprocessor and the macro expander, and for what the
parenthesizer keeps of its text at every step. Seven tokens in an
expression give three binary operators of any two or three priorities, which is
where runs of equals, mixed runs and the look back over unary operators first
meet, also inside an operand. Three files with up to three items show a diamond,
a chain and every circle up to length three. `MaxDepth` cuts the recursion of
`preprocess`, which the code does not bound; it is above the depth of any
inclusion without a circle. Four items show a macro defined, defined again, used
before and after, and directives inside a body. Three environments are the
global one and two others, which is where a class or a function is first
declared a second time; three names let each of the kinds meet each other, and
`MaxEnvs` is the only bound on the number of statements, since nothing else
grows; three bits of `int` overflow at the products of the values in use. Two
levels of blocks are where a block is parsed inside of a statement of another,
with a statement before and behind it, which is all that a frame knows of the
ones around it; one token too many or too few is where two searches for the same
end can first part. Deadlock is checked in `block_parser`, where `Finished` is the
only step after the end: no frame is left without a way on. In the other runs it
is not, because every function returns and the behaviour ends there; in
`const_eval` it also ends at undefined behaviour.

Fairness is `WF_vars(Next)`: each function is a sequential loop that goes on as
long as it has a next step. Nothing stronger is assumed.

### What the runs found

1. A keyword is recognised by the beginning of a word: `#ifx` is the token
   `if_`, and the identifiers `format` and `interest` are the tokens `for_` and
   `int_`, where the comment promises an error for anything but a keyword. In a
   file with `#` keywords such an identifier is refused as mixed syntax.
2. `a++.b.c` is rewritten as `(a++)((.b).c)`, which `parse_expression_impl` reads
   as a call of `a++`: a run of two or more
   left-associative operators does not look back over the postfix operators of
   its first operand, though the single case does. With a prefix operator,
   `!a.b` becomes `((!a.b))`, of which the parser reads `!a` and drops the rest. The tests promise
   left-to-right member access. `ParenthesizesRight` leaves out exactly the
   expressions with a member access behind a unary operator
   (`AccessAfterOperator`).
3. `CFunctionDeclEval` looks for the arguments in `*(begin()++)`, which is the
   node of the name: every function is declared without arguments, and every
   call of a declared function reads `front()` of an empty vector.

Seen while reading, not behind a run: `find_statement` answers with a valid
one-token scope when no close token exists, where its comment promises "false"
and `find_open_statement` has the test (`MissesNoStatement` says that this
answer means that nothing was missed); a list operand `{...}` is never consumed
and is read a second time as an index operator with no operand
(`parenthesizer.hpp:352`); the column of a token is counted from its own
beginning, not from that of its line (`tokenizer.hpp:116`); `a +` and a lone `!` are parsed, with the
`eof_` past the end as their operand; the `eof_` of an included file is copied
into the middle of the including one, where the block loops of the parser stop
as if the block had ended, so that the statements behind an `#include` in a block
are dropped without a word (`parser.hpp:1957`, `:2032`; the comments promise "all
statements in the block"); files that include each other are included without
end, since the nested call knows nothing of its callers (the comment at
`preprocessor.hpp:32` speaks of a file including itself only);
`find_open_statement` takes `(;` for an empty statement. The macro expander
never steps over an identifier that is not a macro, and reads past the end when
`endmacro` is missing; no document promises otherwise, so `Terminates` and
`ExpandsMacros` say exactly when it happens. The sum of two bits is an `int`
under the tag of a bit, and no operation takes it.

Of the recursive-descent parser: `tk_cursor::get` at the end returns a reference
to a temporary (`parser_utils.hpp:112`), which the model gives the outcome
`dangling`. A `#for` without its `;` that stands last in a block is a valid statement
of one token to `find_statement` (`parser_utils.hpp:413`); the separated search for
its conditions then gets an empty or an invalid scope, and its function ends without a
`return` (`parser_utils.hpp:792`): undefined behaviour, which the model gives two
outcomes, an empty list of conditions or `unreturned`. `find_seperated_paren_scopes`
ignores an unmatched `]` or `}`, and whatever follows the `#start` block is not looked
at. Where a hazard of `PROJECT.json` stands behind one of these, it is listed there.

The formats of `ParsesTheFormats` are those that the comments of `parser.hpp` give at
the heads of `parse_program`, `parse_pragmatic_block`, `parse_directive_type`, `_if` and
`_func`, `parse_cso_int` and `parse_cso_uint`, and for the loops and the remaining
statements what their code takes: nothing documents them. The remarks of its lines
84-101 name what a block allows and give no format, and `<identifier_statement>` (1932)
is defined nowhere; programs for these are not generated. `NotAsCommented` is what the
comments allow and the code refuses:

- a program that is a pragmatic block, without `#enter` (2330, refused at 2367);
- a functional block with nothing in it, as in `#start{}` (2330, refused at 2022);
- an `#elif` whose expression is not one pair of parentheses (1501, refused at 1507);
- a `;` behind the block of a function;
- `#uint`, and the other types named by a keyword but `#aint`, as a constraint.

## 4. Proofs

`Lemmas` holds what several proofs share. On scanning loops: one
more token changes the `Height` of a prefix by at most one, by its kind
(`HeightStep`), and what a push, a pop and a skip do to a scanned prefix
(`ScannedPush`, `ScannedPop`, `ScannedSkip`). `Scanned(d, s, n, h)`, in `Scopes`,
says what such a loop knows: the first n tokens of s are well nested so far, the
height never fell below d, and the k-th entry of the stack h was pushed at a
place where the height rose to k + d, below which it has not fallen since. Here d
is 1 inside of a scope, whose open token is counted, and 0 for a statement. From
it follow the cases of a step: a push raises the height and adds such a place; a
pop at a token of the right type closes the scope that the top entry opened, so
the prefix stays well nested; a close token that does not fit shows that no scope
can match, because a matching one would need that very token to be well nested;
the close token over the empty stack is the first place where the height falls to
zero.

On recursion: the library's induction theorems take an operator as a parameter,
which none of the provers can instantiate. `InductionUpTo` states induction with
a set in the place of the operator (the set of the numbers that have what is to
be shown) and follows from well-foundedness. With it the recursive functions of
`Tokenizer`, `Preprocessor`, `MacroExpander` and `Parenthesizer` are shown to exist and to
have the values that their equations say (`ReachedInStep`, `ExpansionStep`,
`InsideUnfolds`, ...), and what they compute is proved.

`ParserProofs` proves four theorems about the scope finders for every set of token
types that holds the six scope tokens and every set of finite ranges
(`TkTypesAssumption`, `RangesAssumption`):

- `TkScopeTypeOK`: `Spec => []TypeOK`;
- `TkScopeDepths`: `Spec => []DepthsMatchHistory`; the lemmas count the
  occurrences of a type in a stack before and after a push and a pop;
- `TkScopeCorrect`: `Spec => []FindsTheScope`;
- `TkScopeImplementsFinder`: `Spec => ImplementsFinder`.

`FindsTheScope` speaks of the answer only and is not inductive. `ScanInv`
says that the tokens before the cursor are scanned, and what `last_closed`
means. `DepthsMatchHistory` is needed with it: after the loop the code reads the
counters, not the stack. For the refinement, the steps of the loop leave the
answer alone and are stutters; a step that returns is the one step of the
abstract finder (`ReturnIsAnswer`), since no answer has been given before
(`AnswersOnce`) and the answer given is right (`FindsTheScope'`).

`ParserProofs` goes on with the recursive-descent parser and proves five theorems for
every set of programs (`ProgramsAssumption`: a program is a sequence of tokens that
ends with an `eof_`, which is what `tokenize` puts last, `TokenizerEndsWithEof`), well
formed or not, of any length and depth, and every set of tokens that an expression
may be made of (`ExpressionsAssumption`: `eos_` is not one of them; with none, which the
proofs include, the module is the code as it stands):

- `ParserTypesHold`: `ParserSpec => []ParserTypes`;
- `BlocksCovered`: `ParserSpec => []BlocksAreCovered`;
- `StatementsWhole`: `ParserSpec => []StatementsAreWhole`;
- `SearchesFindTheSame`: `ParserSpec => []SearchesAgree`;
- `NothingStrayIsRead`: `ParserSpec => []ReadsStayInside`.

None of them is inductive. A block goes on from the end that a statement
returns, so to know that the statement was whole one has to know what each call under
way has read of it, and that is what `ParserInv` says:

- of every call on the stack what it knows of its own range (`FrameIs`): a block that
  has found its end lies between its braces and is well nested from its cursor on; a
  statement with a block has read up to the cursor a `Prefix`, which returns to the
  height it began at and holds nothing that could end it; the end it has given to
  its block is that of the matching scope (`ScopeAt`) or, where `find_exact` and
  `find_list_scope` may give the end of an invalid scope, one that any valid search
  from there comes to as well (`Agrees`);
- of every two calls in a row that the caller waits at the begin of the other one
  (`Calls`), whose range lies in its own;
- of the caller to which a call has returned how much of its own statement has been
  read by it (`Returns`): all of it, or the block only;
- of every statement parsed that it is `Whole`, and that the next begins where it ends.

The argument goes from the text to the calls. First, what a part of a program, as a
finder is given it, says of the program (heights, matching tokens, nesting), and that a
place where the heights are equal and no end is in between can be reached piece by
piece (`PrefixThen`). Then every search, by what it returns or how it fails
(`FindAnyScopeGives`, `ExactIsScope`, `FindStatementGives`, ...). `find_exact` counts one
type of scope only, so what it returns need not match; inside a range that is well
nested it does (`ExactIsScope`), and at the top level, where nothing is known of the
range, the block's own search either fails or agrees. Then the statements
without blocks, which are whole when they succeed (`VarGives`, `TypeGives`,
`ReturnGives`), and last one lemma per action (`DeclareVarKeeps` to `EndOnKeeps`).
That nothing is read behind the tokens comes from ranges that end before the `eof_` of
the program. The other half of `ReadsStayInside` is about what a search does *not* find:
when `find_statement` answers with one token, no `;` outside of scopes stands between
that token and the close brace of the block (`FindStatementGives`, `NothingEnds`); the
invariant keeps this of a `#for` while it is under way, since only such a statement
leaves the search for its conditions without a scope that it can split
(`ForConditionsGives`). `FinderAnswersTheParser`, about both modules of
`ParserProofs`, takes the finder's answer on any part of a program to the outcome that
`BlockParser` assumes, so that these theorems rest on the loops of the code.

`TkSeparatedProofs` proves two, for every set of ranges, in which `eof_` may
stand anywhere, and all separators that are neither a scope token nor `eof_`:

- `TkSeparatedTypeOK`: `Spec => []TypeOK`;
- `TkSeparatedSplits`: `Spec => []SplitsTheScope`.

The invariant is `SplitInv`: as long as a scope may still be found, the prefix
read is scanned and free of `eof_`, and the pieces so far are the prefix cut at
the separators of its own level, the last piece ending where `last_closed` is.
The other case is a close token of a foreign kind over the empty stack, which
the loop steps over: from then on no scope can match, and nothing is promised.

`TkStatementProofs` proves three, for every set of ranges and every set of calls
(`CallsAssumption`, `ParenAssumption`):

- `TkStatementTypeOK`: `Spec => []TypeOK`;
- `TkStatementEnds`: `Spec => []EndsOutsideScopes`;
- `TkStatementMissesNone`: `Spec => []MissesNoStatement`.

`ParenAssumption` leaves out `find_open_statement` with `)` for a close token:
over the empty stack it gives up on one where it should end. The calls in the
code search `;`, `,` or `eos_`; the only one with a `)` is commented out
(`parser.hpp:1323`). `ScanInv` says that the body behind the first token is
scanned up to the cursor and holds neither a close token outside its scopes nor a
second open token where that is not allowed. A token that closes a scope it does
not fit makes every longer prefix badly nested (`WrongCloseNotNested`), so a
statement can end behind it nowhere: that is why giving up misses none.

`FrontEndProofs` proves five theorems about the tokenizer, for all keywords, any
choice of those that count for the syntax, and every text (`TextsAssumption`: a
text is a finite sequence of the characters listed, of which no keyword is one):

- `TokenizerTypeOK`: `TokenizerSpec => []TokenizerTypes`;
- `TokenizerLongestLexemes`: `TokenizerSpec => []LongestLexemes`;
- `TokenizerOneKeywordSyntax`: `TokenizerSpec => []OneKeywordSyntax`;
- `TokenizerFailsForAReason`: `TokenizerSpec => []FailsForAReason`;
- `TokenizerEndsWithEof`: `TokenizerSpec => []EndsWithEof`.

The lexemes are defined of the part of the text between two places; `Shape` says
the same of the places themselves (`LexemeShape`), which is what the lexers look
at. The first character of a lexeme leaves few types to it (`FirstCharacter`),
so that each lexer has to be held against those only: one lemma for each
(`SolidusAnswers` to `NumberAnswers`) shows that what it answers where it matches
is the longest lexeme there, or that there is none (`Answers`). That the fixed
order does not matter is `FirstAnswers`: the classes of characters at which the
lexers match are disjoint but for newlines (`MatchesClass`, `CharacterClasses`),
and the first lexer that matches is the one of the character. The invariant
`TokenizerInv` says of every token in the output that it is such an answer, and
what the properties do not say: that the switch names the syntax of every
keyword in the output and that one is there once it is set (`SwitchAgrees`; so
dropping tokens may not drop the last of them, `SanitizedKeeps`), and that, with
the text used up, the last token is the one of the last character
(`EofIsLast`), because only `eof_` takes the null character (`LastCharacter`).

The same module proves two about the preprocessor, for every system of files that
end with `eof_`, which is what `TokenizerEndsWithEof` promises, whatever they
include:

- `PreprocessorTypeOK`: `Spec => []TypeOK`;
- `PreprocessorExpands`: `Spec => []ExpandsIncludes`.

Assumed (`SourcesAssumption`): the names are finitely many, and tokens are no
names. For the types one has to know that a caller rests on the name
of the file it included, since its cursor moves on when the nested call returns
(`CallsTyped`). The invariant `CallsRead` says of each call that its output is
the text of its tokens so far (`TextUpTo`), that all files it has included are
whole, and that `included_files` holds exactly their names; of a caller that waits,
that the file it waits for is one that it had not included. `Whole` are the files
whose inclusions are all right, to any depth. That the call at the end of a file has
read a whole one is the equation `WholeClosed`; it and `ReachedClosed` hold because
a chain of sets of files can grow no more often than there are names
(`ChainGrows`). So circles need not be excluded: a file in a circle is never
whole, and no call on it returns.

`MacroExpanderProofs` proves two, for all names and all programs whose last token
is neither a name nor a directive (`CodesAssumption`, the `eof_` of the
tokenizer):

- `MacroExpanderTypeOK`: `Spec => []TypeOK`;
- `MacroExpanderExpands`: `Spec => []ExpandsMacros`.

`MacroInv` adds where the cursor stands: outside of all definitions when no
`macro_name` is set, else behind the start of one whose body so far is
`macro_body`. `defined_macros` is exactly the definitions read, each with its
body (`DefinitionsRead`, `MacrosDefined`).

`ParenthesizerProofs` proves four, for all expressions, also those that are not
well formed:

- `ParenthesizerTypeOK`: `Spec => []TypeOK`;
- `ParenthesizerClosuresInOrder`: `Spec => []ClosuresInOrder`;
- `ParenthesizerKeepsTokens`: `Spec => []KeepsTokens`;
- `ParenthesizerScopesStayWhole`: `Spec => []ScopesStayWhole`.

`ClosuresInv` says the second of all suspended parenthesizers as well as of the
one that runs, and adds that the sentinel comes first and operators only behind
it, so that no priority but its own is as low as the one of the sentinel.
Resolving cuts a list off, or takes out all closures of the last priority; taking
out keeps the order (`KeptOf`, by induction over the list).

The other three rest on `RewritingInv`, which adds to it what holds of the
parenthesizers that run or wait, innermost last (`Frames`). `AreReading`: each
scope opened in front of the head is closed there, but for the parentheses of
the operands that the head is in; what is expected follows from the token in
front; and a caller waits right behind the parenthesis that closes its operand.
It is needed because *which* scopes are operands is defined on the text, while
the code knows it by what it expects. `HaveWritten`: the outputs, one after the
other, are the text in front of the head without the parentheses of operands.
`HaveSplitNone`: no closure starts or ends inside of a call, which is why
resolving, which inserts only at closures, cannot split one later.

A step of the parenthesizer is one of four changes to the frames, each with its
lemma. It rewrites the last output (`RewriteKeeps`): what `Insert` gives is the
output woven into marks (`IsWoven`, from the definition of `FlattenSeq` by
induction over the pieces, `FlattenWeaves`), so that its tokens and their order
stay, and neighbours stay neighbours unless a closure separates them
(`ResolveRewrites`, for the five ways to resolve). It puts out the head, or a
whole call (`PutOutKeeps`). It enters an operand (`EnterKeepsState`) or leaves
one (`LeaveKeepsState`). What the head passes is a matter of the text: scopes
nest (`ScopesNest`), close once (`ClosesOnce`), and what is found in a part of
the text is what closes there in the whole (`FoundIsClosing`).

`ConstEvalProofs` proves five theorems for all names, expressions, bodies and
widths, and without a bound on the environments other than `MaxEnvs \in Nat`:

- `DeclarationsReturnTheBinding`: `Spec => []ReturnsTheBinding`;
- `DeclarationsKeepBindings`: `Spec => BindingsStand`;
- `ConstEvalImplementsEnvironment`: `Spec => ImplementsEnvironment`;
- `ConstEvalTypeOK`: `Spec => []TypeOK`;
- `ConstEvalValuesAreCurrent`: `Spec => []ValuesAreCurrent`.

The first three assume nothing of what expressions evaluate to, so they hold for
any operators. `ReturnsTheBinding` is not inductive: the object that a class
declaration returns at its end was created under its name several steps before,
and other members were declared meanwhile. The inductive invariant, `DeclarationInv`,
adds that the tree has one level below the global environment, that the class under way exists
there under its name, and that nothing is returned before its end. `Resolution`
reduces looking a name up to two environments; `Creation`, `Addition`,
`VariableKeeps` and `ScopeKeeps` say what `create_variable` and `add_subenv` do to
the meaning of every name. `VariableKeeps` needs the test for a name that can be
seen (`VariableOf`): without it a member would shadow a global name that is
already in use. The refinement maps the tree to what each name means in it
(`MeaningOf`); `BindingsStand` is the half of it that says what a step may not
do, and `StepIsAbstract` adds that each step declares at most one name and
returns what it stands for.

The last two are about the values. Assumed are literals in the range of their
type and class bodies of members (`ExprsAssumption`, `BodiesAssumption`), that an
expression is a tree (`TreesAssumption`: every set of nodes has one with no child
in the set), and widths whose powers of two are positive
(`BoundsAssumption`; exponentiation means nothing to the provers). An expression
is evaluated by a recursive function; that it exists and has the values of its
equation is shown by induction over the trees, with sets of nodes in the place of
a property. Then each operator keeps the ranges, and an object or a function is
got from a variable or from a name only, never computed. `ValuesInv` says that
every variable holds such a value, and of an object that its scope exists and is
the one its name leads to. A declaration may not take that away from a value
declared earlier: names are bound for good (`BindingsStand`, again), so a scope
that is current stays so.

Only model-checked: termination (liveness and `ENABLED` are out of the prover's
reach); that the parentheses inserted say what the priorities say
(`ParenthesizesRight`) and that the tree built from them holds every token
(`ParsesWhole`), which are true of well-formed expressions only, a set that would
have to be defined by recursion over expressions and proved about by induction
over them; that words longer than a keyword are cut wrong is finding 1, not a
theorem; that a program in the documented formats is refused for its expressions or for
one of the five things of `NotAsCommented` only (`ParsesTheFormats`): the formats are a
grammar, given to TLC as a finite set of programs (`WellFormed`), and the proof would be an induction over that grammar.

## 5. Plan

Done: the tokenizer, the finders, the parenthesizer, the expression parser, the
preprocessor, the macro expander, the recursive-descent parser, the evaluator;
the abstract specifications of a finder and of an environment and their
refinements; the proofs of `TkScope`, `TkStatement`, `TkSeparated`, `Tokenizer`,
`Preprocessor`, `MacroExpander` and `BlockParser`, of the closures and outputs of the
parenthesizer and of the declarations and values of `ConstEval`. Every safety
invariant of the runs is proved but `ParenthesizesRight`, `ParsesWhole` and
`ParsesTheFormats`.

To keep up with the code: when the parser of expressions is more than a stub,
`ExpressionTokens` gives way to it, and `ExpressionGives` is the one lemma to be
proved again.

## 6. Not modelled

`LLK_parser` is an empty class; `cand_official_compiler` is a second start with
no stages yet; error reports and AST printing only format text;
`syntax_traits.hpp` and `token.hpp` repeat the tables of `cand_syntax.hpp` for
the older token class. Of `rtenv`, `set_variable`, `get_variable` and
`delete_variable` are not modelled: no assignment is evaluated, and the call that
would delete its arguments fails before (finding 3).
Of the recursive-descent parser, the split of
expressions into trees (`expression_split_and_simplify2`, a stub), the
argument lists and the constraints that no caller reaches, and `tk_iterator`,
which the parser does not use, are left out.
