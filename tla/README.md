# C. (cpoint): a TLA+ verification of its compiler and of its build tool

C. is a small systems language. This repository holds its compiler `cpoint`
(C++, `src/`), its build tool `cpoint-build` (`build/src/`), and its standard
library (`std/`). The compiler is in the middle of a rewrite: the source tree is
no longer translated to LLVM directly but to an intermediate representation of
its own, the CIR (`src/config.h:16-17` switch both parts of the rewrite on).
This project follows a source file through the compiler: the first pass with its
preprocessor and imports, the lexer, the parser, the generation of the CIR, the
LLVM backend. And it models the build tool around it. TLC checks each part on
small files and projects, and TLAPS proves facts about some, for every file and
every project.

Paths below are relative to the repository.

## 1. Inventory

| Component | State | Operations | Hard behaviour |
|---|---|---|---|
| CIR data structure (`src/CIR/cir.h`, `basic_block.h`, `instructions.h`) | functions, blocks in layout order, instructions, insert point, name index | `add_function`, `add_basic_block`, `add_instruction`, `set_insert_point`, `createGoto(If)` | operands are *positions* in a layout that still changes |
| CIR generation (`src/CIR/cir.cpp`) | `Scopes` and `blocksForBreak`, both static; `vars` of the function | `cir_gen` of every expression, `fixFileCIR`, `checkFileCIR` | early returns in the middle of a recursion, stacks that outlive a function, undefined behaviour on empty bodies |
| AST (`src/ast.h`) | the tree | `contains_expr`, `get_type` | approximates control flow from the source |
| Preprocessor (`src/preprocessor.cpp`) | a vector of variables | conditionals, `define`, `undefine`, replacement | erases while iterating, loops without an end of their own |
| Imports (`src/imports.cpp`) | positions in two streams, counters of braces, `modifier_for_line_count` | the prelude, imports, includes, a handler per kind of declaration | handlers that read on in a shared stream, line numbers that must agree with what was written |
| Lexer (`src/lexer.cpp`) | the line, the position in it, one character of lookahead | `gettok`, `getCharLine`, `goToNextLine` | reads the next line ahead; goes on with the last line for ever |
| Parser, operators (`src/ast.cpp`, `operators.cpp`, `macros.cpp`) | current token, tables of names, flags of templates | recursive descent, precedence climbing | null results, tokens left from before, statements dropped after a terminator |
| LLVM backend (`src/backends/llvm/`) | `functionValues` by position, blocks, allocas by name | `codegenFile`, `codegenFunction`, `codegenInstruction` | finds operands by the order of generation; tables that are not filled yet |
| Driver (`src/main.cpp`, `cli.cpp`, `linker.cpp`) | files under fixed names: `out.ll`, `out.cir`, `<file>.temp` | compile, rebuild std, link | two processes in one directory; exit on error |
| cpoint-build (`build/src/`) | lists of paths, time stamps, `last_build.toml` | build, sub-projects, dependencies, tests, install | threads, ignored exit codes, stale objects, recursion without a visited set |
| Types, templates, match, closures, members, macros | tables by name | conversion, instantiation | work lists; belong to the old code generation except types |
| Old LLVM generation (`src/codegen.cpp`) | LLVM's | superseded by CIR | |
| Standard library (`std/`) | lists, arenas | list, linked list, sort | index arithmetic, reallocation |

How they interact: `cpoint-build` starts one `cpoint` process per file (several
at a time in threads) and then links. A `cpoint` process preprocesses its file,
writes it with its imports to `<file>.temp`, parses it into a `FileAST`, turns
that into a `FileCIR` (`FileAST::cir_gen`), applies `fixFileCIR`, asserts
`checkFileCIR`, and hands the `FileCIR` to the backend (`main.cpp:730-745`).

What makes each correct: for the CIR, that what the backend receives means what
the source says: every operand finds its instruction, every block ends once,
every branch stays in its function, phis agree with the control flow. For the
generation, that its stacks follow the nesting of the source on every path,
early returns included. For the backend, that it keeps the promise of any backend
(an operand is the value of the instruction it names) and that LLVM accepts its
code. For the first pass, the lexer and the parser, that the tree is that of the
text: no line, token or declaration lost or made up, line numbers right, and an
end for every file that has one. For the build tool, that a finished build linked
objects of the sources and target asked for.

`PROJECT.json` lists the hazards, each at its line, with the properties that
watch it.

## 2. Modules

| Module | What it is |
|---|---|
| `Preprocessor`, `Imports` | the table of variables; the state machine of the first pass, a line at a time, to the temporary file |
| `Lexer` | the state machine from that file to tokens, a character at a time |
| `ParserInput`, `Grammar`, `Parser` | tokens and trees; the functions of the parser that read token after token, as data; what their steps do, the other functions, and the loop of `ParseFile` |
| `CpointAST` | the tree as a value for the generation: one constructor per class, carrying the results of `contains_expr` and `get_type` |
| `CIR` | a CIR file as a record and the operations on it as functions from files to files |
| `CIRBuilder` | the state machine of the generation: EXTENDS both |
| `Lowering` | the abstract specification of a backend: what it promises of the code for a CIR file |
| `LLVMBackend` | the state machine of the LLVM backend, an instruction at a time, which implements it |
| `Compiler` | the composition of `CIRBuilder` and `LLVMBackend`, with the file handed over |
| `BuildTool` | the state machine of cpoint-build and of the files it works on |
| `ImportsProperties`, `LexerProperties`, `ParserProperties`, `CIRProperties`, `LLVMBackendProperties`, `BuildToolProperties` | the properties of each, and what they need |
| `Sequences_proofs` | lemmas on concatenated sequences and on sums, for the two modules that count positions |
| `CIRBuilder_proofs`, `CIRBlocks_proofs`, `CIROperands_proofs`, `CIRFlow_proofs`, `LLVMBackend_proofs`, `Lexer_proofs`, `BuildTool_proofs` | theorems |
| `MCImports`, `MCLexer`, `MCParser`, `MCCIR`, `MCCompiler`, `MCLLVMBackend`, `MCBuildTool`, `MCFindings` | the files and projects for TLC |

The stages of the compiler run one after the other over what the one before has
written, so each is checked over all inputs of its own; `Compiler` joins the two
that share a data structure, the positions of the CIR. cpoint-build sees a
compiler only through the source it reads, the object it writes and its exit
status, which it ignores.

### Correspondence with the code: the first pass

`Imports` reads a line in each step, of the stream its `stage` says: the prelude,
the source, an imported or an included file. A line is a record of its kind (what
the keyword at its start makes of it), of the words in it that matter, and of
whether it opens or closes a brace. The handlers of `imports.cpp`
(`interpret_func`, `interpret_struct`, ...) read on in the file of their caller:
`calls` is the stack of those in progress, and `members` the global counters of
braces. `out` is the temporary file, its newlines included, since lines are what
`modifier_for_line_count` is about. A variable is replaced word for word;
replacement that does not end is the stage `hung`, an exception is `exited`.

### Correspondence with the code: the lexer

`Lexer` has an action for each turn of a loop of `gettok`, so at most one
character is read by a step: `mode` is the loop it is in, `LastChar` its
lookahead, `at` the next character (`line`, `pos`). `getCharLine` is one operator
with its four ways: end of the line, an escape it knows (`\n`, `\t`, `\0`), one it
does not know, any other character. The caller is the parser, which asks until
the file has ended, or `HandleComment`, which skips one token and a line. Past the
end of the memory of a line (`CanRead`) the model stops. Classes of characters are two letters, two
digits and the signs that `gettok` tells apart.

### Correspondence with the code: the parser

Most functions of `ast.cpp` are straight sequences of `getNextToken`, a test and a
call of another function. `Grammar` writes these as sequences of steps (`Eat`,
`Need("(")`, `Parse("expression")`, ...), one definition per function, and `Parser`
says once what a step does, with the null results and errors it may give. What is
no such sequence (`ParseBinOpRHS`, unary operators, bodies, macros, the lookups)
is an operator of its own. The functions are recursive, so they are operators from
a parser state to a tree and a state; an action is one turn of the loop of
`ParseFile`. Past the last token the last line is read again (`getNextToken`), as
the lexer does; `MaxLaps` bounds how often before that counts as for ever.

### Correspondence with the code: the backend

`LLVMBackend` has an action for each turn of the loops of `codegenFile`,
`codegenFunction` and `codegenBasicBlock`: of global data, of the arguments stored
(`StoreArgument`), of the instructions. An LLVM function under construction is
the sequence of its instructions as they are made, and for each block the indices
of what it holds: `Builder->Create...` appends, `CreateEntryBlockAlloca` puts at
the beginning of the first block. `functionValues` is the vector of that name, one
value pushed for each CIR instruction, null ones included. Exceptions (`at`),
null pointers that LLVM would follow and `NOT_IMPLEMENTED` are `Stop`.
`verifyFunction` is what `llvm::verifyFunction` and the instructions themselves ask of
such code: blocks end once and phis have a value for each branch to them
(`BlockFits`), the operands of an instruction have its types, a call the arguments of
its prototype, a return the type of its function, a cast types it converts between
(`OperandsFit`), and every operand is computed on every path to its use
(`OperandsDominate`). It types what was *generated* (`TypesOf`), not what the CIR says of
it. The two loops over hash
tables take their elements in any order. Types are those the conversions and
predicates tell apart; the layout of structs is kept for the rules of `abi.cpp`.

### Correspondence with the code: the CIR

`FileCIR` (`cir.h:191`) is the record `[instr, blk, fun, cur, named]`. Objects
are never destroyed in the record: the index of an instruction or a block is its
identity, which is what a C++ pointer denotes. `fun[F]` is the vector
`basicBlocks` of a function, in layout order; `cur` is `CurrentBasicBlock`.

An `InstructionRef` (`instructions.h:30`) is a position in the function. Here it
also carries `def`, the identity of the instruction it was made for. No
operation reads `def`; it lets `OperandsResolve` say that the position still
finds that instruction.

`cir_gen` methods call each other recursively. `frames` is that recursion: an
activation per method in progress, with the program point `at` where it resumes
and the locals that are used after a recursive call. An action is the code of one
method between two recursive calls, so every early return (`if
(ref.is_empty()) return`) is an action of its own at the point where the code
takes it. `ret` is the reference the last finished method returned; the empty
reference is `NoRef`. `scopes` and `breaks` are the two static stacks, which
`FileAST::cir_gen` never resets. `freed` holds blocks destroyed because the
`unique_ptr` that owned them went out of scope before `add_basic_block` took it.

Undefined behaviour is a choice over what a build does: the type of an empty
scope stops the compiler (`IfExpr_untyped`), a branch to a destroyed block either
stops it or goes on (`BreakExpr_dangling`, `BreakExpr_gen`), the last instruction
of an empty block passes the assertion or fails it (`checkFileCIR`).

The expressions on memory (addresses, elements, members, assignments to them, casts,
`sizeof`, vectors, the inline assembler) do not generate what they take in place:
they ask whether it is a variable, and report an error, give the empty reference or end
the compiler (`NotImplemented`) when it is not. An address that could not be computed
is read or written all the same (`LeaveWith`), with an empty operand, after the error
was reported. The places where generation stops for a reason of its own are kept as
they are: the method called on a struct is looked for in a struct that has the name of
the *method*, so that none is ever found (`StructMemberCallExpr_gen`, `cir.cpp:540`); the
arguments of a call are converted to the types of a prototype, which a function
that comes later in the file has not got yet, so that `args.at(i)` throws
(`Argument_missing`); a global variable hides a local one of its name
(`VariableExpr_gen`). `Globals` and `Externs` are what the file declares besides its
functions.

What is abstracted: number types are one type `val`, but for the `i64` of an index
(a conversion between two other numbers is left out, one that concerns `i64`, `bool`, a
pointer, `void` or `never` is kept, because it adds an instruction); an element and a
member are numbers; the value of a constant, the operator of a binary expression and the
callee of a call are not kept in the CIR (`Compiler` finds a call the function that its
arguments fit), nor is the conversion of decimal operands of
`&`; on the left of `=` a prefix operator other than `*`, which is reported, is not
among the expressions.

### Correspondence with the code: cpoint-build

A *run* is one cpoint-build process: its project, command, target, `-j`, and the
point of `main()` it has reached (`phase`, and `done`, the elements it has
finished of the list of that phase). `runCommand("cd <project> && cpoint-build")`
(`build/src/cli.cpp:45`, `build.cpp:99`) blocks, so the processes form a stack:
`run` is the one that runs, `callers` those that wait. What the child is given
(`CallChild`) is what the code gives it: no target, no `-j`, no command.

| Phase | Code | Actions |
|---|---|---|
| `dependencies` | `buildDependencies` | `CallChild`, `ChildrenBuilt` |
| `folders`, `compile` | `buildSubfolders`, `buildFolder`, `buildTestObjectFiles` | `OpenFolder`, `SkipFile`, `compileFile`, `CompilerEnds`, `FolderBuilt`, `FoldersBuilt` |
| `no gc subprojects`, `gc subprojects` | `buildSubprojects` | `CallChild`, `PassChild`, `ChildrenBuilt` |
| `check`, `clean`, `make` | `shouldRebuildSTD`, `rebuildSTD` | `CheckSTD`, `CleanSTD`, `MakeSTD` |
| `forget`, `record` | `writeLastBuildToml` | `RemoveLastBuild`, `WriteLastBuild` |
| `link`, `exit` | the rest of `linkFiles`; `linkLibrary` | `Link`, `Exit` |

A source is a version number, an object file the version and options it was made
from; `newer[f]` is the comparison of the two time stamps. A compiler reads its
source when it starts and writes its object when it ends, not at all if the
source has an error (`src/main.cpp:763`); between the two, anything may happen. A
step of the link is an action because a kill may fall between any two. `Edit` is
the programmer or `git pull`; `Kill` interrupts the tool and its compilers, each
of which may leave part of an object (`Torn`); `build_std` is the compiler used
directly, which makes the same standard library without touching
`last_build.toml`. `make` may fail in `MakeSTD`.

`seen`, `spoiled`, `unrecorded` and `rebuilds` are history: no guard reads them.
`spoiled` are the objects that are newer than their source and yet not of it: the
source was edited while it was compiled, or the compiler was killed while it
wrote. Time stamps cannot tell them, so the properties except them, by name.

Abstracted: an object is written in one step unless it is killed; `make` of the
standard library is one step; the order of the files in a folder is free; the
test objects (`.test.o`) are taken with the link of their test; the source folder
exists; the libraries of dependencies are not followed into the link.

## 3. What the runs check

### The CIR

The generation is deterministic once the file is chosen (apart from undefined
behaviour), so the interesting quantity is the *set of files*: `Programs` is a
CONSTANT, and TLC compiles every file of it. Files are produced by small grammars
from one to two statements per block and one or two levels of nesting, which is
enough for every pair (outer construct, inner construct) and for a statement
before and after. Files of three functions (`Between`) matter for the state that
leaks from a function to the next.

| Run | Files | Shows |
|---|---|---|
| `structured` | `if`, `if else`, `for` nested in each other; straight-line, value and returning branches; no `while`, no `break`. And every expression on memory that is accepted, on a pointer, an array, a struct and a global, alone, in an `if` and in a `for`, with an `if` of several blocks as its operand | On this fragment the CIR is right: `OperandsResolve`, `ReachableBlocksLeave`, `EveryBlockEndsInNever`, `PhiBlocksArePredecessors`. A cast reads the type to convert from, and a vector the class of its members, from the instruction found at a position while blocks are still being added: it is the one that was meant (the second part of `OperandsResolve`). In the same run each file goes on through the backend: an operand, which is a position handed out before the layout was final, ends up as the LLVM value of the instruction it was made for (`OperandsReachLLVM`); a file that `checkFileCIR` accepts is not stopped by the backend, and LLVM, which checks the type of every argument against the prototype, refuses one only if it passes `p + i` for a pointer (`CheckedFilesCompile`); the compiler ends (`CompilerEnds`) |
| `jumps` | every loop, `break`, `defer`, blocks, two levels; three functions | the stacks follow the source (`BreaksMatchLoops`, `ScopesMatchBlocks`), no deferred expression is lost (`NoDeferLost`), branches stay in their function (`BranchesStayInside`) |
| `any_file` | every expression, those that generate nothing included: empty blocks, `match`, labels, `goto`, stray `break`, calls that never return, expressions on memory that are reported, refused or not implemented, calls of later functions, vectors and the inline assembler | the file is well formed on every path, early returns and stops included: `TypeOK`, `BranchesRecorded`, `BlocksAddedOnce` |

The fragments are chosen as the largest on which the properties hold. Outside
them the code breaks them, which `break_in_if` shows on the smallest file, one
that the tests use (`tests/test31.cpoint`): `for ... { if c { break } g() }`, where
`fixFileCIR` erases an instruction after positions were handed out.

More were met and are left as the model states them, without a run: an `if`
whose body is a loop with a `break` takes that `break` for its own and gets no end
(`EveryBlockEndsInNever` is checked without `break`); what follows a `while` is
erased by `fixFileCIR`; the phi of an `if` whose `else` is an `if` names the block
`else` began in; a `goto` to a label that exists stops the compiler (`GotoExpr_gen`;
the assertion is inverted); the block after a `while` is laid out before the blocks
of its body; the sum of
a pointer and an `i64` is an `i64` in the CIR and keeps the type of the pointer in the
tree, so that it is passed for a parameter of type `ptr` without a conversion
(`cir.cpp:627`) and LLVM refuses the file (`PassesPointerSum`); a `break` in no loop is
not reported after a `for` with an empty body,
whose block is still on the stack (`BreakExpr_dangling`); methods are never found and
later functions cannot be called with arguments (above). `OperandsResolve` excepts the
empty operand of a `VarInit`, which is a variable without an initial value; an empty operand
anywhere else would violate it, and occurs only after an error was reported or after a
part that generates nothing (`any_file`).

`jumps` and `any_file` have no fairness: nothing runs concurrently with the
generation and it does not wait. That it does not get stuck half-way is the
deadlock check, which is on in every run: a state without a successor other than
`Done` (the compiler has stopped) would be reported. The liveness of `structured`
assumes that the compiler, one process, goes on (`Fairness` in `Compiler`).

Each property of a passing run has a mutant, an operator beside the definition it
replaces that makes a plausible mistake in it (its comment starts with
`Mistake`); TLC finds the property violated under the same configuration.

### The first pass, the lexer and the parser

| Run | Files | Shows |
|---|---|---|
| `imports` | a source of up to three lines between conditionals, definitions, imports and includes; imported files of every kind of declaration, nested in `mod` and `members` and one after the other; with and without the prelude | the code that reaches the lexer is what the instructions mean (`SourceIsUnderstood`, against a reading with a function from names to values); every function of an imported file is declared once per import (`FunctionsAreDeclared`), blocks are closed by their own line, unless a `mod` is in a `members` block or one in a `mod` or another (`BlocksAreClosed`); line numbers are right after the last import (`LineNumbersAreRight`); the pass ends (`PassEnds`) |
| `lexer` | two of the fragments of source text next to each other, apart, or on two lines, with blank lines before and between: every kind of token beside every other and at the end of a line, comments, and what the lexer mistakes | the parser gets the tokens of the text by the longest match, in order and with their lines (`TokensAsWritten`); every call returns (`CallsReturn`); in any file, readable or not, the line that is counted is the line that is read (`LineIsCounted`) |
| `parser` | every declaration, statement, type and expression form, chains of three operators, statements after a `return`, unknown types and environment variables, and each source with a token left out or put in | the trees are those the text means, which the source is written from (`SourceIsParsed`); a bracket left out is reported (`MissingBracketIsReported`); `ParseFile` ends (`ParseEnds`) |

Each states for which texts it holds, and why not for others, beside the property:
`Readable` (strings closed and not empty, known escapes, lines that do not run
together, comments with a space behind the slashes, no blank line at the end) for
the lexer; `Flat`, `OnlyDefines`, `OrdinaryDefines`, `Ordinary`, `FunctionsOnly` for
the first pass, with two ways of writing an imported file that the code loses its way in:
a `members` block in a `mod`, or either in a `members` block, of which the brace of the
inner one is never counted for the outer one, so that it is not closed (`MixedBlocks`,
`imports.cpp:423-440`, `461-474`); and a generic function in a struct, whose body is read,
and then what follows it is passed over in its place (`GenericMethods`,
`:303-319`); files without damage, or with one bracket left out, for the parser.
What lies outside is in the runs as well: the model goes through it, hangs or stops
as the code does, and `TypeOK` and the deadlock check watch it.

Fairness: one process that nothing blocks, so `WF_vars` of its steps. The loops
that never end (a conditional without end, an escape that does not advance, the
last line read for ever) are cycles of the model in which steps are taken, so
fairness does not hide them; `MaxText` and `MaxTokens` cap what is *kept* of a
token and of the tokens, never what is read, and `MaxLaps` (3) is above the two laps
a correct file may need.

### The backend

`backend` compiles files of one function under test beside another, for every
instruction on every type it may have (`ArithmeticFiles`, `CompareFiles`,
`CastFiles`, `OtherFiles`), branches and loops with variables in them, calls that
never return, globals, structs in every order, results through memory, and files
that are refused.

`KeepsThePromise` is the refinement `LLVMBackend => Lowering`: `Promise` maps the
LLVM code to what it means. `Decoded` leaves out what serves the target only
(allocas, the stores of the arguments, the hidden result) and replaces an operand by
the position of the CIR instruction that made it; `Lowered` counts the instructions
translated in each block. Each step must then append to its block the translation
of one CIR instruction with the operands it names, or stutter. A value pushed too
little shifts all later operands and breaks it. All files of the run are
`Translatable`, the hypothesis under which section 4 proves it for every file.

`SupportedFilesGoThrough` holds for `Supported` files, `VerifierIsSatisfied` for those
whose CIR is also `WellTyped`: an instruction gets operands of the types it asks for, a
call the arguments of its prototype, a return the type of its function, and operands are
computed before, along the branches. `WellTyped` is stated on the CIR and its types, the
verifier on the LLVM code and the types that the builder gave it, so the property says
that the backend keeps them apart by position, converts where the CIR casts, and lays
out its blocks and phis so that LLVM finds what the CIR has. Of the files of the run some
are ill typed (a missing argument, a pointer cast to a decimal, a wrong result), and LLVM
refuses them. A decimal constant of type `float` is not `WellTyped`, as it becomes a double.
Outside `Supported`, the backend refuses or crashes: structs in structs, in globals or as
arguments, computed initial values of globals, a struct returned through memory from
a function with arguments or before its last block. `AllocasDominate`: variables,
also those of loops, are allocated once at the beginning. `BackendEnds` assumes
`WF_vars(codegenFile)`: the backend is one process that nothing blocks.

`array_store` checks what the tests of the language rely on: an element of an array
holds what was assigned to it (`tests/test26.cpoint`). The code stores the pointer
(`llvm_instructions.cpp:433`). Three more are left as the model states them: the
index of a member is always 0 (`llvm_instructions.cpp:424`), unsigned numbers are
compared as signed ones (`:261`), the result of a function is copied over the address
it should go to (`:491`).

### cpoint-build

| Run | Projects | Shows |
|---|---|---|
| `build_files` | one executable of two folders and three files, one of which has a version that does not compile, and a subproject that compiles a file of the parent; `-j1` and `-j2`; an edit of each file, a kill; no other target | nothing is linked that is older than what the command looked at (`LinkedObjectsAreOfTheSources`), nothing is kept that should be compiled again (`KeptObjectsAreCurrent`), compilers run only while a folder is built (`TypeOK`). The subproject writes objects that the parent has already looked at and will link |
| `build_tree` | an executable with a dependency and two subprojects, gc and no-gc; a kill, a direct use of the compiler | each executable gets the standard library of its own options (`LinkedStandardLibrary`), made at most twice (`RebuiltAtMostTwice`); every command ends (`CommandsEnd`) |

Two versions of a source tell an object of the text from an object of an older
one. One kill suffices because it discards all processes: what it
leaves is files, from which every further command starts again. Two options of
each kind (native or one target; gc or not) tell a right library from a wrong
one. The numbers of projects and files are those of the smallest project in which
a dependency, both kinds of subproject, a subfolder and two files of one folder
all occur. Deadlock is checked: a user can always start a command.

`CommandsEnd` assumes `WF_vars(Tool)`: the operating system schedules the tool,
and the programs it starts (compiler, make, linker) end. Nothing is assumed of
the user: no command need ever be started, and `Edit` and `Kill` are bounded by
constants, not by fairness. It is checked on projects that do not call each other
in a circle; those that do start each other for ever.

`cross_after_build` shows that `cross-compile` links the objects of the native
build.

In `LinkedStandardLibrary`, `unrecorded` is set by a
direct use of the compiler, which makes the library with its own options, and by a
kill between `make` and the new
`last_build.toml`, which leaves the old record beside the new library, so the
property says that these two are the only way to a wrong library. Three more
departures from the documentation are left as the model states them: `-j2` starts
as many compilers as a folder has files, as threads are joined after the last chunk
(`build.cpp:37`; `main.cpp:157`); with
threads, current files are compiled again (`MayCompile`; `README.md:130`), and a
project *without* gc that has subprojects of both kinds makes the library three
times (the guard of `RebuiltAtMostTwice`; `README.md:114`).

## 4. What is proved

### The CIR

`CIRBuilder_proofs`, from `ProgramsAssumption` alone (the files are built from
well-typed nodes with the right number of children):

* `TypeCorrect`: `Spec => []TypeOK`. For every file, at every step, the blocks
  and instructions referred to by branches, blocks, functions, activations and
  stacks exist.
* `BranchesAlwaysRecorded`: `Spec => []BranchesRecorded`. Every branch is
  recorded in the predecessors of its targets.
* `Invariance`: `Spec => []IInv`, from which the two follow.

`IInv` strengthens them with what the steps need: an activation that will use a
block holds one (`HeldBlocks`; 0 stands for none), inside a function there is an
insert point, and each open scope of an activation has an entry in `Scopes`
(`ScopesDeepEnough`), so that `Scopes.back()` is never called on an empty vector.
The last is an inequality because early returns leave entries behind.

The argument: the first part of the module shows for each operation on files that it
keeps a file well formed and its branches recorded, that it only grows it, and that what
it adds is in it. In the second part an action is such an operation followed by
`Enter`, `Stay` or `Leave`, and a lemma for each of the three carries the rest of
the invariant; `NextLemma` has one step per action.

From it follow, in this module and in three that extend it, from the same assumption:

* `BreaksAlwaysMatchLoops` (`CIRBuilder_proofs`): `Spec => []BreaksMatchLoops`. The
  property is inductive together with `IInv`, as each activation carries the stack it
  was called with (`brk`): what a method calls gets the stack with its own loop on top,
  and a method that returns has popped what it pushed. One lemma for each way of
  changing the activations (return, go on, call) is used by all actions.
* `ScopesAlwaysMatchBlocks` (`CIRBuilder_proofs`):
  `Spec /\ [][~LoopExpr_abandon]_vars => []ScopesMatchBlocks`. The same argument with
  `dep`, the number of entries of `Scopes` a method found. The early return of an
  infinite loop (`cir.cpp:419`) leaves its entry behind, after which the property is
  false: this is the hypothesis, on the steps that are taken and not on the file.
* `NoDeferIsLost` (`CIRBuilder_proofs`):
  `Spec /\ [][~LeavesScopeOpen]_vars => NoDeferLost`, for files whose deferred
  expressions defer nothing themselves: `D` is any set of nodes that holds what is
  deferred and its children, down to statements of scopes of their own, and no `defer`
  (`Deferrable`; the parser makes such a tree for every program but those the hazard at
  `cir.cpp:145` is about). `DefersApart` says why it holds: while the entry of a scope is
  being emptied it stays empty, and what is generated then is in `D`.
* `BlocksAlwaysAddedOnce` (`CIRBlocks_proofs`): `Spec => []BlocksAddedOnce`. It is not
  inductive: an `if` keeps the pointers to `else` and `ifcont`, a `for` that to
  `afterloop`, while the statements inside are generated, and adds them later.
  `PendingApart` says that these blocks are in no function yet and that no two
  activations hold the same one. What an action adds is then a block that its own
  activation holds (`Mine`) or a new one, and it lets go of what it has added.
* `BranchesAlwaysStayInside` (`CIRBlocks_proofs`):
  `Spec => [](freed = {} => BranchesStayInside)`. The property is about finished
  functions only; `BranchesEnclosed` says what is true in between: a branch of the
  function being generated, and every block a `break` may go to, is in the function
  already or is held by an activation that will add it (`Held`), and a block not added
  yet is empty. When the last activation returns nothing is held, so that every branch
  has become one to the function; it uses `BreaksAlwaysMatchLoops` for the blocks of
  `blocksForBreak`. An activation that returns without adding its block is the early
  return that puts it in `freed`.

* `GeneratedOperandsResolve` (`CIROperands_proofs`): for files without a `while`
  (`NoWhile`), `Spec => []RightSoFar`. An operand is the number of instructions made
  before it, kept while `if` and `for` add blocks around it, whose code is laid out
  before or after. Until `fixFileCIR` each such number is still the position of
  the instruction it was made for, and so is the reference with which a cast or a vector
  looks up a type in the middle of the generation.
* `OperandsResolveWithoutWhile` (`CIROperands_proofs`): for the same files,
  `Spec /\ []ErasesAtEnd => [](OperandsGiven => OperandsResolve)`. What the backend gets
  is right as well, if `fixFileCIR` erases nothing but the end of a function's code. The
  hypothesis is what the finding of `break_in_if` breaks, so that this is the one way in
  which such a file goes wrong.
* `OperandsAlwaysResolve` (`CIROperands_proofs`): for every file,
  `Spec /\ []InsertsAtEnd /\ []ErasesAtEnd => [](OperandsGiven => OperandsResolve)`. With
  a `while` it depends on the file whether the code goes on in a block that has others
  with instructions behind it; `InsertsAtEnd` says that it does not. `OperandsGiven` says
  of the file at the backend that only the value of a declared variable is missing, which
  is the other half of `OperandsResolve` and a matter of what the parser accepts.

The three rest on the invariant `Resolved`. Inside a function it says that the
instructions of its blocks, one block after the other, are those in `Code` and that the
insert point is its end (`Sound`, made of `Shaped`, `Laid`, `Blank`, `AtEnd`, `Counted` and
`InOrder`), so that the number given to a new instruction is its position; and that every
reference something still holds is `Known`: those in `varRefs`, those an
activation will use (`KnownBy`), and the one just returned where it is read. Between
functions `InOrder` remains: operands of the instructions of a function are earlier
instructions of the same function. The code only grows at its end, so what is known
stays known (`Keeps`). An activation holds references that depend on what it is and on
where it is, so there is a lemma for each kind; a method that makes instructions needs
one for the operation, and one that returns only that its reference is known. TLC checked
`Resolved`, `InsertsAtEnd` and `ErasesAtEnd` as invariants on the files of
`structured` before the proof; on those of `jumps`, which have a `while` followed by
code, `InsertsAtEnd` is false, as it should be.

* `BlocksEndInNever` (`CIRFlow_proofs`), the assertion of `checkFileCIR`: for any sets
  `S` and `Q` of nodes with `Honest(S, Q)`,
  `Spec => [](~errors => EveryBlockEndsInNever)`.

A method begins blocks that it closes later, and a `while` goes on in one after its
body has returned; and where `contains_expr` tells it that a branch or a function is left
(`cir.cpp:303`, `336`, `1122`), it closes nothing at all and relies on what was generated there.
`Flowing` says which blocks are open at every step: a block of a function has a never in
it, is the one at the insert point, or an activation will go on in it (`Resumes`); an
activation whose last statement claims to leave (`Over`) finds the block it ends in closed;
a condition of a `while` has given a value; and a `defer` being generated at the end of a
scope begins no block, since nothing would close it. With `Closed`, which holds between
functions, it makes the invariant `Flows`.

`Honest` is on the trees: what claims to leave is in `S`, whose nodes put a never in the
block they end in (`Leaving`: a `return`, a `break`, a `while`, a call that does not return, a
block that ends with one), a `defer` is in `Q`, whose nodes begin no block (`Staying`), and
the condition of a `while` answers. That it is met is not left to belief: `MCCIR` states that
the nodes of `structured` are honest (`StructuredTreesAreHonest`), which TLC evaluates. Before
the proof TLC checked `Flows` on the files of the runs that are honest, all of
`structured`, 72 of the 90 of `jumps` and 425 of the 438 of `any_file`. The hypothesis
is needed: in the other files of `any_file` a `while` is over a `match`, which gives no
value, or the `unreachable` of a function is in a loop of it, and there the code does leave
a block open. That a `defer` begins no block is more than is needed in the 18 files of
`jumps` that defer a scope or a loop, where the property holds all the same.

All go through every action. Those of the expressions on memory leave the two
static stacks alone (`MemoryWays`: they return, keep a reference, or end the
compiler), which is why the modules can treat them as one.

Left to TLC: that reachable blocks leave and that phis name their predecessors
(`ReachableBlocksLeave`, `PhiBlocksArePredecessors`). They hold only on part of the
language, by the findings above; the first is about reachability, a closure over a whole
function. So is `ErasesAtEnd`, the hypothesis of the operands: it needs a never to be the
*last* instruction made in its block, which is more than `Flowing` says. Out of the
prover's reach in general: liveness and ENABLED.

### The backend

`LLVMBackend_proofs`, from `FilesAssumption` (the functions of a file have a block, their
instructions the operands that the constructors ask for, the strings and the arguments of
prototypes are sequences), for any CIR file, those
that no program has and those the backend refuses included:

* `AllocasAlwaysDominate`: `Spec => []AllocasDominate`. Where a variable is declared
  does not matter, its place is allocated before anything in the entry block uses it;
* `OperandsAlwaysMadeBefore`: `Spec => []OperandsMadeBefore`, a part of the `TypeOK` of
  the run: an operand that is an instruction was made before the one that takes it;
* `BackendInvariance`: `Spec => []BackendInvariant`, from which they follow.

`BackendInvariant` says this of every function (`GoodFunction`: the blocks hold indices
of what has been made), and what the next step relies on: a position of
`functionValues` and a name of `functionVarsAllocas` give nothing or a value of the
current function. The argument follows the code: a lemma for each thing done to an LLVM
function (`Create`, `CreateEntryBlockAlloca`: what is put at the beginning uses nothing,
and what is put at the end comes after the allocas), one for each CIR instruction on top,
then one step per action.

The second half of the module is the refinement `LLVMBackend => Lowering`:

* `PromiseIsKept`: `Spec /\ Translatable => KeepsThePromise`. Each step of `codegenFile`
  appends the promised translation of the next instruction of a block, or nothing;
* `TablesAlwaysMean`: `Spec /\ Translatable => []PromiseInvariant`.

`Translatable` is a condition on the file, which the code does not change. It leaves out
what the code translates otherwise, and says so instruction by instruction: a store
through a pointer (it stores the pointer, the finding of `array_store`), the order of
unsigned numbers (compared as signed), a member other than the first (the index is always
0), casts from or to a struct, which are none, and variables named `sret` or
`temp_retvar_sret`, names the backend gives to its own places. It also asks what the
generation of the CIR guarantees: an argument is one of the prototype and read before a
variable of its name, and only branches and phis name blocks. Files the backend refuses,
or stops in the middle of, are included: what was translated before was promised.

`PromiseInvariant` says of the function that is generated that
there are as many `functionValues` as instructions generated (`Progress`; a result returned
through memory, which ends a block without a value, is refused in any block but the last),
that each of them means what the instruction at its position means (`ValuesMeant`), that
the table of allocas gives for a name its place, and never a place of the
backend's own (`AllocasFound`), and that an argument is found when it is read
(`ArgumentsFound`). TLC checked it on the files of the run before it was proved.

The argument follows a step in three moves. What it makes is decoded: each
`Create...` adds to what the block stands for the instruction it is, nothing if it serves
the target only, and changes the meaning of no value made before (`FlattenSeq` over a
block that grows at either end). The tables then mean what they should for one more
instruction, class by class: constants, arithmetic, conversions, variables, calls with and
without a hidden result, branches, phis. Last, that is a `Lower` of the promise; the end of the
functions is its `Finish`, `Stop` its `Refuse`, and all else stutters.
The promise itself recurses, in what a position means (a cast that converts nothing is its operand)
and in the position of an instruction (a sum over the blocks before). The recursion and the
sums are functions, and the induction they need is `SetInduction`, over a
*set* of numbers, from the library's `WFMin`: a form without an operator parameter.

Left to TLC: the rest of the run's `TypeOK` (the shapes of the tables),
`SupportedFilesGoThrough` and `VerifierIsSatisfied`, which ask of a whole file that it has
no operation LLVM refuses, and `OperandsReachLLVM` and `CheckedFilesCompile`, which join
the two stages.

### The lexer

`Lexer_proofs`, from `SourcesAssumption` (a file is lines of characters and begins with
one that is not empty, or has a line with something on it later; at least two
characters of a token are kept), for any file:

* `LinesAlwaysCounted`: `Spec => []LineIsCounted`;
* `LexerTypesCorrect`: `Spec => []TypeOK`, the next character is in the file whatever is
  read ahead of it;
* `LexerInvariance`: `Spec => []LexerInvariant`, from which they follow.

The count of a line is kept in two places that the code changes apart, `line_nb` and the
stream; the invariant relates them, with `last_line` (after which the lexer stays where
it is) and the fact that nothing has been read again before. All reading goes
through `getCharLine` or `goToNextLine`, so one lemma for the end of a line and one for a
character serve every turn of `gettok`. That the tokens are those of the text
(`TokensAsWritten`) is induction over the text and stays with TLC.

### cpoint-build

`BuildTool_proofs`, from `BuildToolAssumption` (the shape of the configuration,
positive `-j`, sentinels that are no values), for any projects, files, options
and bounds:

* `LinkedObjectsStayCurrent`: `Spec => []LinkedObjectsAreOfTheSources`;
* `KeptObjectsStayCurrent`: `Spec => []KeptObjectsAreCurrent`;
* `StandardLibraryMatches`: `Spec => []LinkedStandardLibrary`;
* `BuildTypesCorrect`: `Spec => []TypeOK`;
* `BuildInvariance`: `Spec => []BuildInvariant`, from which they follow.

`LinkedObjectsAreOfTheSources` speaks of one moment, the link, of a process that
may have waited for others since it compiled. `BuildInvariant` carries what it
needs through the wait. `Processes`: every process, running or waiting, has
looked at the files of the folders it has passed. `SeenObjects`: for every
process and file it has looked at, the object is at least as recent as the
version it saw, unless it is being compiled by the process that runs; and what is
being compiled is at least as recent as what any waiting process saw. The last is
what makes it safe that a child overwrites an object of its parent.
`StandardLibrary`: `libstd.a` is what `last_build.toml` says, or one of the two is
missing, or the process stands between `make` and the record, or the exception
`unrecorded` has happened. `KeptObjectsAreCurrent` is inductive beside them.

The proof has one lemma per part and in it one step per action; actions that
leave the objects or the library alone are dispatched by frame lemmas.
`RebuiltAtMostTwice` and `CommandsEnd` are only model-checked: the first counts
over whole project trees, the second is liveness.

## 5. Not modelled, and the plan

Not modelled: what a template is instantiated to, pattern matching, closures and
members beyond their parsing; the declarations of globals, structs and modules in the
*generation* of the CIR (their uses are modelled), reflection; the text of the inline
assembler and what the backend does with it; the textual form of the CIR; the driver's own files, options
and link; the old generation of LLVM code, which the CIR replaces; the C backend; the
packages fetched from the network; and the containers of `std/`. Each is in
`PROJECT.json` with its reason.

The stages are joined at the CIR only: that what `Imports` writes is a text `Lexer`
reads (`Readable`), and that the trees of `Parser` are those `CIRBuilder` starts from,
is left to the reader of the two modules, since they abstract a line, a token and a
tree to different degrees.

What would follow:

1. The meaning of a source file as an abstract specification of the generation, with
   defers on return and breaks in infinite loops; the walk through the blocks
   implements it on the structured fragment.
2. The driver: the files that every compiler process writes under fixed names, several
   processes in one directory, exits that leave them.
3. `ErasesAtEnd` and `OperandsGiven` from a condition on the trees stronger than `Honest`
   (no early exit in a branch, every operand a value), and `OperandsReachLLVM` from it and `PromiseIsKept`.
4. An abstract specification of a build (every command links what it saw) that
   `BuildTool` implements, and `RebuiltAtMostTwice` as a theorem for a tree.
5. Templates, match, and the containers and sorts of `std/`.
