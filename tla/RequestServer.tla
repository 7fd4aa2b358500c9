--------------------------- MODULE RequestServer ---------------------------
(***************************************************************************)
(* The requests that other processes (win-vind -c "...") leave in a shared *)
(* memory for the resident program, and the life of the program: the       *)
(* system thread that serves them (src/src/core/entry.cpp VindEntry,       *)
(* src/src/gui/main.cpp SystemThread) and the thread of the GUI that ends  *)
(* when it is told to.                                                     *)
(*                                                                         *)
(* A cell of the memory is a byte, written and erased apart from the       *)
(* others: a text that is read while it is copied, or while two of them    *)
(* overlap, is torn, and may parse to units that nobody sent.  What a unit *)
(* does depends on its kind only; that a key which is pulled may be mapped *)
(* to something else is in InputHub.                                       *)
(***************************************************************************)
EXTENDS CommandParser

CONSTANTS
  Requests,
  Text,    \* the characters of each request
  Size,    \* memsize_
  NUL

Cells == 1..Size

(* A byte of a request, the one that goes into its cell i                  *)
Bytes == UNION {{<<r, i>> : i \in DOMAIN Text[r]} : r \in Requests}

(* What an unlocked memory of bytes says, up to the cell n                 *)
Character(x) == IF x = NUL THEN NUL ELSE Text[x[1]][x[2]]
Characters(bytes, n) == SubSeq([c \in DOMAIN bytes |-> Character(bytes[c])], 1, n)

(* request_inputs: each unit with the byte that it begins with             *)
Requested == [at : Bytes, kind : UnitKinds]
RequestInputs(bytes, n) ==
  LET units == ParseCommand(Characters(bytes, n))
  IN  [i \in DOMAIN units |-> [at |-> bytes[units[i].at], kind |-> units[i].kind]]

IsFunction(x) == x.kind \in {"function", "exit"}

(* A text that fills the memory would have no terminating NUL, and no byte *)
(* of one is NUL.                                                          *)
ASSUME RequestAssumption ==
  /\ Size \in Nat \ {0}
  /\ \A r \in Requests :
       DOMAIN Text[r] = 1..Len(Text[r]) /\ Len(Text[r]) \in 1..(Size - 1)
  /\ NUL \notin Bytes

VARIABLES
  memory,   \* the shared memory
  copied,   \* the bytes that the senders have written
  pc,       \* what the system thread does next
  length,   \* what std::string() took for the length of the text
  batch,    \* the units of request_inputs that are still to execute
  typing,   \* typing_queue_
  runnable, \* runnable_
  asked,    \* ExitMainLoop() was called
  gone,     \* the process has ended
  done      \* history variable: how often an input was executed

server == <<pc, length, batch, typing>>
life   == <<runnable, asked, gone>>
serverVars == <<memory, copied, server, life, done>>

Blank == [c \in Cells |-> NUL]

ServerInit ==
  /\ memory = Blank /\ copied = {}
  /\ pc = "create" /\ length = 0 /\ batch = <<>> /\ typing = <<>>
  /\ runnable = TRUE /\ asked = FALSE /\ gone = FALSE
  /\ done = [x \in Requested |-> 0]

Executes(xs) == done' = [x \in Requested |-> IF x \in xs THEN done[x] + 1 ELSE done[x]]

-----------------------------------------------------------------------------
(* memmove() of send_command_request(), byte by byte in any order, without *)
(* a lock and without the terminating NUL.                                 *)
Copy(x) ==
  /\ ~gone /\ x \notin copied
  /\ memory' = [memory EXCEPT ![x[2]] = x]
  /\ copied' = copied \cup {x}
  /\ UNCHANGED <<server, life, done>>

(* memset() of the constructor, when others can open the memory already    *)
Create ==
  /\ pc = "create"
  /\ pc' = "look" /\ memory' = Blank
  /\ UNCHANGED <<copied, length, batch, typing, life, done>>

(* Mutant: the last byte of the text is cut off.                           *)
LookShort ==
  /\ pc = "look" /\ runnable
  /\ \E n \in 0..(Size - 1) :
       /\ memory[n + 1] = NUL /\ \A c \in 1..n : memory[c] # NUL
       /\ length' = IF n = 0 THEN 0 ELSE n - 1
       /\ pc' = IF length' = 0 THEN "pull" ELSE "parse"
  /\ UNCHANGED <<memory, copied, batch, typing, life, done>>

(* The timer has passed; the text ends at the first NUL.                   *)
Look ==
  /\ pc = "look" /\ runnable
  /\ \E n \in 0..(Size - 1) :
       /\ memory[n + 1] = NUL /\ \A c \in 1..n : memory[c] # NUL
       /\ length' = n
       /\ pc' = IF n = 0 THEN "pull" ELSE "parse"
  /\ UNCHANGED <<memory, copied, batch, typing, life, done>>

(* The timer has not passed.                                               *)
Skip ==
  /\ pc = "look" /\ runnable
  /\ pc' = "pull"
  /\ UNCHANGED <<memory, copied, length, batch, typing, life, done>>

(* Mutant: the thread ends without a word to the GUI.                      *)
FailSilently ==
  /\ pc' = "stopped" /\ runnable' = FALSE
  /\ UNCHANGED <<memory, copied, length, batch, typing, asked, gone, done>>

(* An exception leaves update(): the loop of Entry() breaks.               *)
Fail ==
  /\ pc' = "stopped"
  /\ runnable' = FALSE /\ asked' = (asked \/ runnable)
  /\ UNCHANGED <<memory, copied, length, batch, typing, gone, done>>

(* The inputs that are typed, in their order                               *)
KeysOf(inputs) ==
  LET keys[n \in 0..Len(inputs)] ==
        IF n = 0 THEN <<>>
        ELSE IF IsFunction(inputs[n]) THEN keys[n - 1]
        ELSE Append(keys[n - 1], inputs[n])
  IN  keys[Len(inputs)]

(* The text is read and parsed, and its keys are typed.  That the bytes are*)
(* read at one moment loses no text, as they are written in any order.     *)
Parse ==
  /\ pc = "parse"
  /\ LET inputs == RequestInputs(memory, length)
     IN  IF \E n \in DOMAIN inputs : inputs[n].kind = "bad" THEN Fail
         ELSE /\ batch' = inputs
              /\ typing' = typing \o KeysOf(inputs)
              /\ pc' = "execute"
              /\ UNCHANGED <<memory, copied, length, life, done>>

(* input->execute(1), which sends an external key and passes over the      *)
(* others; a function that waits for keys gets those that were typed.      *)
Execute ==
  /\ pc = "execute" /\ batch # <<>>
  /\ LET x == Head(batch)
     IN  /\ \E n \in IF IsFunction(x) THEN 0..Len(typing) ELSE {0} :
              /\ typing' = SubSeq(typing, n + 1, Len(typing))
              /\ Executes({typing[i] : i \in 1..n}
                          \cup {y \in {x} : y.kind # "key"})
         /\ asked' = (asked \/ x.kind = "exit")
  /\ batch' = Tail(batch)
  /\ UNCHANGED <<memory, copied, pc, length, runnable, gone>>

(* Mutant: the request stays in the memory.                                *)
EraseNothing ==
  /\ pc = "execute" /\ batch = <<>>
  /\ pc' = "pull"
  /\ UNCHANGED <<memory, copied, length, batch, typing, life, done>>

(* memset() of update(): what was written in the meantime goes away, too.  *)
Erase ==
  /\ pc = "execute" /\ batch = <<>>
  /\ pc' = "pull" /\ memory' = Blank
  /\ UNCHANGED <<copied, length, batch, typing, life, done>>

(* pull_input() and execute(), until the queue is empty.  An external key  *)
(* is sent again.                                                          *)
Pull ==
  /\ pc = "pull"
  /\ Executes({typing[i] : i \in DOMAIN typing \cap {1}})
  /\ typing' = SubSeq(typing, 2, Len(typing))
  /\ pc' = IF typing' = <<>> THEN "look" ELSE "pull"
  /\ UNCHANGED <<memory, copied, length, batch, life>>

(* <F8> and <F9> together end update(), and so does what a function throws *)
(* that BindedFunc::process() does not catch.                              *)
Throw ==
  /\ pc \in {"look", "execute", "pull"} /\ (pc = "look" => runnable)
  /\ Fail

(* The loop of Entry() sees runnable_.                                     *)
Stop ==
  /\ pc = "look" /\ ~runnable
  /\ pc' = "stopped"
  /\ UNCHANGED <<memory, copied, length, batch, typing, life, done>>

Serve ==
  /\ ~gone
  /\ \/ Create \/ Look \/ Skip \/ Execute \/ Erase \/ Pull \/ Stop

-----------------------------------------------------------------------------
(* The thread of the GUI.  Its icon has an exit of its own.                *)
AskToExit ==
  /\ ~asked
  /\ asked' = TRUE
  /\ UNCHANGED <<memory, copied, server, runnable, gone, done>>

(* ~App(), after the main loop                                             *)
LeaveMainLoop ==
  /\ asked /\ runnable
  /\ runnable' = FALSE
  /\ UNCHANGED <<memory, copied, server, asked, gone, done>>

(* main() returns, wherever the system thread is.                          *)
EndProcess ==
  /\ asked /\ ~runnable /\ ~gone
  /\ gone' = TRUE
  /\ UNCHANGED <<memory, copied, server, runnable, asked, done>>

Leave == LeaveMainLoop \/ EndProcess

ServerNext ==
  \/ \E x \in Bytes : Copy(x)
  \/ Serve
  \/ ~gone /\ (Parse \/ Throw)
  \/ AskToExit
  \/ Leave

(* Parse as far as it matters to fairness: it ends one way or the other.   *)
EndOfParse == pc = "parse" /\ pc' \in {"execute", "stopped"}

(* Both threads go on, functions return, and as a turn of the loop takes   *)
(* time (Background::update() sleeps) the interval of the timer passes.    *)
ServerFairness ==
  /\ WF_serverVars(Serve)
  /\ WF_pc(~gone /\ EndOfParse)
  /\ SF_serverVars(~gone /\ Look)
  /\ WF_serverVars(Leave)

ServerSpec == ServerInit /\ [][ServerNext]_serverVars /\ ServerFairness

-----------------------------------------------------------------------------

ServerTypeOK ==
  /\ memory \in [Cells -> Bytes \cup {NUL}]
  /\ copied \subseteq Bytes
  /\ pc \in {"create", "look", "parse", "execute", "pull", "stopped"}
  /\ length \in 0..(Size - 1)
  /\ batch \in Seq(Requested) /\ (pc \in {"look", "parse", "pull"} => batch = <<>>)
  /\ typing \in Seq(Requested)
  /\ {runnable, asked, gone} \subseteq BOOLEAN
  /\ done \in [Requested -> Nat]

(* However senders and server overlap, and whatever the torn texts say: a  *)
(* byte that was sent begins one unit at most, and this unit is executed   *)
(* once.  It is not parsed again because its text was still or again in    *)
(* the memory, nor in another text; only an external key is sent a second  *)
(* time, when it is pulled (update).                                       *)
ExecutedOnce ==
  \A x \in Requested :
    /\ done[x] <= IF x.at \notin copied THEN 0 ELSE IF x.kind = "external" THEN 2 ELSE 1
    /\ \A y \in Requested : done[x] > 0 /\ done[y] > 0 /\ x.at = y.at => x = y

(* The keys that a function of a request finds typed are those of the text *)
(* it came with, never those of an earlier one (the do loop of update).    *)
NoKeysLeftOver == pc \in {"look", "parse"} => typing = <<>>

Present(r) == \E c \in Cells : memory[c] # NUL /\ memory[c][1] = r

(* The units that each request consists of                                 *)
Sent ==
  [r \in Requests |->
     RequestInputs([c \in DOMAIN Text[r] |-> <<r, c>>], Len(Text[r]))]

(* The request is in the memory as a whole with nothing after it, and the  *)
(* server is not about to erase it.                                        *)
Intact(r) ==
  /\ \A c \in Cells : memory[c] = IF c \in DOMAIN Text[r] THEN <<r, c>> ELSE NUL
  /\ pc \in {"look", "pull"}

(* A request that is alone in the memory is served whole: every unit of it *)
(* as it was sent is executed, or else it is refused as a whole and the    *)
(* program ends, or another request is written over it (update).           *)
ServedAlone ==
  \A r \in Requests :
    Intact(r) ~> \/ \A n \in DOMAIN Sent[r] : done[Sent[r][n]] > 0
                 \/ \E q \in Requests \ {r} : Present(q)
                 \/ asked

(* Neither thread outlives the other: when update() fails, a function      *)
(* returns TERMINATE or the user asks for it, the process ends.            *)
ExitEnds == (asked \/ pc = "stopped") ~> gone

(* Nothing that was sent is executed twice, and none of its keys is taken  *)
(* by the functions of the next request (VindEntry::update).               *)
UnitsExecutedOnce == ServerTypeOK /\ ExecutedOnce /\ NoKeysLeftOver

=============================================================================
