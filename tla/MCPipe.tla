------------------------------- MODULE MCPipe -------------------------------
(***************************************************************************)
(* Three instances of pipes, one per behaviour: a pipe of several bytes    *)
(* between two processes, two slots of one byte, and three processes that  *)
(* contend for one byte.                                                   *)
(***************************************************************************)
EXTENDS Pipe

CONSTANT Third          \* a process beside those of the first instance

VARIABLE instance

TwoSlots  == INSTANCE Pipe WITH MAX_PIPES <- 2, PIPE_BUFFER_SIZE <- 1, Bytes <- {0}, MaxRequest <- 1
ThreeProcs == INSTANCE Pipe WITH Procs <- Procs \cup {Third}, PIPE_BUFFER_SIZE <- 1, Bytes <- {0},
                                 MaxRequest <- 1

AllInit ==
    \/ instance = "bytes" /\ Init
    \/ instance = "slots" /\ TwoSlots!Init
    \/ instance = "contention" /\ ThreeProcs!Init

bytes_step      == instance = "bytes" /\ SerialNext /\ UNCHANGED instance
slots_step      == instance = "slots" /\ TwoSlots!SerialNext /\ UNCHANGED instance
contention_step == instance = "contention" /\ ThreeProcs!SerialNext /\ UNCHANGED instance

AllSpec == AllInit /\ [][bytes_step \/ slots_step \/ contention_step]_<<instance, vars>>

(* Positions and counts stay inside the ring, queues hold processes. *)
AllTypeOK ==
    CASE instance = "bytes" -> TypeOK
      [] instance = "slots" -> TwoSlots!TypeOK
      [] instance = "contention" -> ThreeProcs!TypeOK

(* No wakeup is lost in any of them: who sleeps in pipe_read or pipe_write *)
(* is in its queue and has reason to.                                      *)
NoSleeperForgotten ==
    CASE instance = "bytes" -> NoLostWakeup
      [] instance = "slots" -> TwoSlots!NoLostWakeup
      [] instance = "contention" -> ThreeProcs!NoLostWakeup

(* A slot is in use exactly while a descriptor reaches it, and its closed  *)
(* flags say which ends nobody reaches.                                    *)
SlotsInUse ==
    CASE instance = "bytes" -> SlotsFollowEnds
      [] instance = "slots" -> TwoSlots!SlotsFollowEnds
      [] instance = "contention" -> ThreeProcs!SlotsFollowEnds

Bytewise == INSTANCE Channel WITH
    Capacity <- PIPE_BUFFER_SIZE,
    open     <- IF instance = "bytes" THEN OpenEnds(pipes[0]) ELSE {},
    contents <- IF instance = "bytes" /\ pipes[0].in_use THEN Ring(pipes[0]) ELSE <<>>,
    result   <- IF instance = "bytes" THEN result ELSE <<"none">>

(* The slot of the first instance is a first-in first-out channel: the     *)
(* ring hands the bytes out in the order they were written, end of file    *)
(* comes after the last byte, a write fails only without a reader.         *)
ImplementsChannel == Bytewise!Spec
=============================================================================
