----------------------------- MODULE MCFrontEnd -----------------------------
(***************************************************************************)
(* Instances of the command interpreter (Interpret), of the loop that cuts *)
(* commands out of a pipe (PipeReader) and of the table of let bindings    *)
(* (LetRecords).  A behaviour is about the instance that part names; in    *)
(* the others the interpreter and the table stay in their initial states   *)
(* and the variables of the reader have the value Unused.                  *)
(***************************************************************************)
EXTENDS Interpret, LetRecords, TLC

CONSTANTS a, b, ab, x,   \* two atoms, their conjunction, and a term that is no formula
          y, true        \* names a let may bind, the second not to be overloaded

VARIABLES
  part,
  text, read, size, buf, scan, done, exited, executed, ended   \* PipeReader

pipeVars == <<text, read, size, buf, scan, done, exited, executed, ended>>
allVars == <<part, vars, pipeVars, letVars>>

Unused == "unused"
PipeUnused ==
  /\ text = Unused /\ read = Unused /\ size = Unused /\ buf = Unused /\ scan = Unused
  /\ done = Unused /\ exited = Unused /\ executed = Unused /\ ended = Unused

MCConjuncts == (a :> {a}) @@ (b :> {b}) @@ (ab :> {a, b})

\* Sessions about the scopes of definitions, about assertions and their partitions, and
\* about named assertions.
ScopesSession == Next /\ Len(assertions') <= 1 /\ ids' <= 4 /\ UNCHANGED nameToTerm
PartitionsSession == Next /\ UNCHANGED <<defs.table, global, nameToTerm>>
NamesSession == Next /\ UNCHANGED <<defs.table, global, Len(frames)>>

\* Texts with comments and commands, and texts with quotations.
Chunks == INSTANCE PipeReader WITH
  Chars <- {"(", ")", ";", "n", "e"}, MaxLength <- 6, InitialSize <- 2
Quotes == INSTANCE PipeReader WITH
  Chars <- {"(", ")", "|", "q", ";"}, MaxLength <- 6, InitialSize <- 4

-----------------------------------------------------------------------------
MCInit ==
  /\ Init /\ LetInit
  /\ \/ PipeUnused /\ part \in {"scopes", "partitions", "names", "lets"}
     \/ part = "chunks" /\ Chunks!Init
     \/ part = "quotes" /\ Quotes!Init

MCNext ==
  /\ UNCHANGED part
  /\ \/ /\ UNCHANGED <<pipeVars, letVars>>
        /\ \/ part = "scopes" /\ ScopesSession
           \/ part = "partitions" /\ PartitionsSession
           \/ part = "names" /\ NamesSession
     \/ /\ UNCHANGED <<vars, letVars>>
        /\ \/ part = "chunks" /\ Chunks!Next
           \/ part = "quotes" /\ Quotes!Next
     \/ /\ UNCHANGED <<vars, pipeVars>>
        /\ part = "lets" /\ LetNext

\* The loop over the pipe runs until it ends.
Closed == part = "chunks" => ended # "no"
Reading == part = "chunks" /\ Chunks!Next
Fairness == []<>Closed \/ []<><<Reading>>_allVars

MCSpec == MCInit /\ [][MCNext]_allVars /\ Fairness

-----------------------------------------------------------------------------
\* However the text is cut into chunks, the commands executed are those of the text.
ChunksDoNotMatter ==
  CASE part = "chunks" -> Chunks!ReadsRight
    [] part = "quotes" -> Quotes!ReadsRight
    [] OTHER -> TRUE

\* The loop over the pipe ends, with a balanced text read to its end or an (exit)
\* executed unless reading failed.
ReaderEnds == <>[](part = "chunks" => Chunks!Finished)
=============================================================================
