---------------------------- MODULE ChunkRoutine ----------------------------
(***************************************************************************)
(* What the handling of a chunk in crates/mpv-stt-plugin/src/plugin.rs     *)
(* promises the session: one chunk is at hand at a time, the cursor stands *)
(* still meanwhile, and in the end the chunk at hand, and no other, counts *)
(* as processed, or the chunk is left and nothing has happened.            *)
(*                                                                         *)
(* Recognition implements this module with the extraction, the devices and *)
(* the server, PluginSession with playback, look-ahead and files.          *)
(***************************************************************************)
EXTENDS Integers

VARIABLES
  cursor,  \* the position of the chunk that is due
  done,    \* the positions of the chunks that count as processed
  hand     \* the position the chunk at hand was cut at

vars == <<cursor, done, hand>>

Nothing == -1

Init == done = {} /\ hand = Nothing

\* Between two chunks the cursor goes anywhere.
Move == hand = Nothing /\ UNCHANGED <<done, hand>>

\* A session that begins may load what is processed, and start at once.
Open ==
  /\ done = {} /\ hand = Nothing
  /\ \/ hand' = Nothing
     \/ hand' = cursor' /\ cursor' \notin done'

Begin ==
  /\ hand = Nothing /\ cursor \notin done /\ hand' = cursor
  /\ UNCHANGED <<cursor, done>>

\* A failure, or a seek, which moves the cursor.
Leave == hand # Nothing /\ hand' = Nothing /\ UNCHANGED done

Finish ==
  /\ hand # Nothing /\ hand' = Nothing /\ done' = done \cup {hand}
  /\ cursor' >= hand

\* The session ends, whatever is at hand.
Close == done' = {} /\ hand' = Nothing

Next == Move \/ Open \/ Begin \/ Leave \/ Finish \/ Close

Spec == Init /\ [][Next]_vars
===============================================================================
