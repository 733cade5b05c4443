------------------------------ MODULE VampHost ------------------------------
(***************************************************************************)
(* vamp-host.cpp, the program PluginRunner::handleData descends from: it   *)
(* runs one plugin over a sound file, named on the command line.           *)
(*                                                                         *)
(* Words of the command line are the tokens of `usage`.  Frames of the     *)
(* file are numbered from 1; 0 is silence.  One step is one iteration of   *)
(* the loop of runPlugin.                                                  *)
(***************************************************************************)
EXTENDS Integers, Sequences

CONSTANTS
  Preferred,      (* pairs <<block size, step size>> a plugin may prefer, 0: any, *)
                  (* and no block of 1: a spectral plugin wants more             *)
  DefaultBlock,   (* block size for a plugin without preference (1024)            *)
  MaxFrames,      (* bound: frames in the file                                    *)
  Assignments     (* bound: number of -a options                                  *)

VARIABLES
  wish,           \* history: what the user wants, by the synopsis
  argv,           \* the words after the program's name
  request,        \* what main has understood
  plugin,         \* what the plugin prefers: sizes, input in the frequency domain
  length,         \* frames in the file
  pos,            \* i, the frame the next block begins at
  plugbuf,
  blocks,         \* history: number of calls of process()
  seen,           \* history: frames handed to the plugin
  sound,          \* history: has every read succeeded?
  code            \* "main", "run", "loop", or how the program ended

hostVars == <<wish, argv, request, plugin, length, pos, plugbuf, blocks, seen, sound, code>>

-----------------------------------------------------------------------------
\* What one can ask for with the two forms of the synopsis; output -1: the first.
Wishes ==
  {w \in [params : 0..Assignments, frames : BOOLEAN, named : BOOLEAN,
          output : {-1, 1}, toFile : BOOLEAN] : w.named => w.output = -1}

\* [-a PARNAME=PARVAL]* [-s] library:plugin[:output] infile [outputno] [-o out.txt]
Words(w) ==
  [k \in 1..(2 * w.params) |-> IF k % 2 = 1 THEN "-a" ELSE "parname=parval"]
    \o (IF w.frames THEN <<"-s">> ELSE <<>>)
    \o <<IF w.named THEN "library:plugin:output" ELSE "library:plugin", "infile">>
    \o (IF w.output = 1 THEN <<"1">> ELSE <<>>)
    \o (IF w.toFile THEN <<"-o", "out.txt">> ELSE <<>>)

\* The user may also stop in the middle of the line.
Init ==
  /\ wish \in Wishes
  /\ \E n \in 0..Len(Words(wish)) : argv = SubSeq(Words(wish), 1, n)
  /\ request = <<>>
  /\ plugin \in [pref : Preferred, spectral : BOOLEAN]
  /\ length = 0
  /\ pos = 0 /\ plugbuf = <<>> /\ blocks = 0
  /\ seen = {} /\ sound = TRUE
  /\ code = "main"

-----------------------------------------------------------------------------
\* argv[n]; there is nothing after the last.
Word(n) == IF n \in DOMAIN argv THEN argv[n] ELSE "null"
argc == Len(argv) + 1

\* The -a options at the beginning: base when the loop over them ends.
Assigned == {k \in 0..Len(argv) : \A j \in 1..k : Word(2 * j - 1) = "-a"}
AfterAssignments == 2 * (CHOOSE k \in Assigned : k + 1 \notin Assigned) + 1
BadAssignment == \E k \in Assigned \ {0} : Word(2 * k) # "parname=parval"

useFrames == Word(AfterAssignments) = "-s"

\* Where the library stands: -s is taken for the first word.
base == IF useFrames THEN 2 ELSE AfterAssignments

HasNumber == Word(base + 2) = "1"

\* Mutant of AfterNumber: a number is not stepped over.
AfterNumberSame == base + 2

\* The word after the input file and the number of the output.
AfterNumber == IF HasNumber THEN base + 3 ELSE base + 2

named == Word(base) = "library:plugin:output"

Usage ==
  \/ argc < 3
  \/ BadAssignment
  \/ argc >= base + 3 /\ argc = AfterNumber + 2 /\ Word(AfterNumber) # "-o"
  \/ argc >= base + 3 /\ argc \notin {AfterNumber, AfterNumber + 2}
  \/ Word(base) \notin {"library:plugin", "library:plugin:output"}
  \/ named /\ HasNumber

\* strcmp and std::string of a null pointer, before most mistakes are noticed.
NullWord ==
  /\ argc >= 3 /\ ~BadAssignment
  /\ AfterAssignments >= argc \/ base + 1 >= argc

Main ==
  /\ code = "main"
  /\ \/ NullWord /\ code' = "crash" /\ UNCHANGED request
     \/ ~NullWord /\ Usage /\ code' = "exit 2" /\ UNCHANGED request
     \/ /\ ~NullWord /\ ~Usage
        /\ code' = "run"
        /\ request' = [params |-> (AfterAssignments - 1) \div 2, frames |-> useFrames,
                       named |-> named, output |-> IF HasNumber THEN 1 ELSE -1,
                       toFile |-> argc = AfterNumber + 2]
  /\ UNCHANGED <<wish, argv, plugin, length, pos, plugbuf, blocks, seen, sound>>

-----------------------------------------------------------------------------
BlockWanted == IF plugin.pref[1] = 0 THEN DefaultBlock ELSE plugin.pref[1]

stepSize ==
  IF plugin.pref[2] # 0 THEN plugin.pref[2]
  ELSE IF plugin.spectral THEN BlockWanted \div 2 ELSE BlockWanted

\* Mutant of blockSize: a step longer than the block is kept.
blockSizeWanted == BlockWanted

\* A step longer than the block makes the block longer.
blockSize ==
  IF stepSize <= BlockWanted THEN BlockWanted
  ELSE IF plugin.spectral THEN 2 * stepSize ELSE stepSize

(***************************************************************************)
(* runPlugin up to its loop.  Input, output file, library, named output    *)
(* or plugin may fail; all that has been allocated goes with the process.  *)
(***************************************************************************)
Prepare ==
  /\ code = "run"
  /\ \/ /\ length' \in 0..MaxFrames
        /\ code' = "loop"
     \/ /\ code' = "exit 1"
        /\ UNCHANGED length
  /\ UNCHANGED <<wish, argv, request, plugin, pos, plugbuf, blocks, seen, sound>>

\* Mutant of Read: what the last block left behind is not cleared.
ReadOver ==
  [j \in 0..(blockSize - 1) |->
     IF pos + j < length THEN pos + j + 1 ELSE IF plugbuf = <<>> THEN 0 ELSE plugbuf[j]]

\* The buffer: what there is of the file from pos on, then silence.
Read == [j \in 0..(blockSize - 1) |-> IF pos + j < length THEN pos + j + 1 ELSE 0]

Process ==
  /\ code = "loop" /\ pos < length
  /\ plugbuf' = Read
  /\ blocks' = blocks + 1
  /\ seen' = seen \cup {Read[j] : j \in DOMAIN Read}
  /\ pos' = pos + stepSize
  /\ UNCHANGED <<wish, argv, request, plugin, length, sound, code>>

\* After an error of sf_seek or sf_readf_float the run ends as if the file had.
ReadError ==
  /\ code = "loop" /\ pos < length
  /\ sound' = FALSE
  /\ code' = "exit 0"
  /\ UNCHANGED <<wish, argv, request, plugin, length, pos, plugbuf, blocks, seen>>

Finish ==
  /\ code = "loop" /\ pos >= length
  /\ code' = "exit 0"
  /\ UNCHANGED <<wish, argv, request, plugin, length, pos, plugbuf, blocks, seen, sound>>

Next == Main \/ Prepare \/ Process \/ ReadError \/ Finish

Spec == Init /\ [][Next]_hostVars

-----------------------------------------------------------------------------
Complete == argv = Words(wish)

(***************************************************************************)
(* A line written by the synopsis is understood as it is meant (if it does *)
(* not have -a and -s together, see README), and what is run is what was   *)
(* asked for.                                                              *)
(***************************************************************************)
UnderstoodAsMeant ==
  Complete /\ ~(wish.params > 0 /\ wish.frames) =>
    code \notin {"exit 2", "crash"} /\ (code # "main" => request = wish)

(***************************************************************************)
(* If all went well the plugin has been given every frame of the file,     *)
(* whatever sizes it prefers.                                              *)
(***************************************************************************)
WholeFileSeen == code = "exit 0" /\ sound => 1..length \subseteq seen

\* The host does what it was asked for, with all of the file.
HostFaithful == UnderstoodAsMeant /\ WholeFileSeen

\* Every line that follows the synopsis is understood.
SynopsisHolds == Complete => code # "exit 2"

\* A line that is cut off gets the usage message.
NullNeverRead == code # "crash"

\* Success means that the whole file has been read.
SuccessIsWhole == code = "exit 0" => sound

(***************************************************************************)
(* The plugin sees the file, followed by silence, as the same overlapping  *)
(* windows a plugin of the server sees of its device.                      *)
(***************************************************************************)
Numbered(j) ==
  LET frame == pos - stepSize + j + 1
  IN  IF plugbuf[j] = 0 /\ frame > length THEN frame ELSE plugbuf[j]

FileStream ==
  INSTANCE BlockStream WITH
    delivered <- IF code \in {"main", "run", "exit 1", "exit 2", "crash"} THEN 0
                 ELSE length + blockSize,
    emitted <- blocks,
    window <- IF blocks = 0 THEN <<>> ELSE [j \in DOMAIN plugbuf |-> Numbered(j)]

ImplementsStream == FileStream!Spec
=============================================================================
