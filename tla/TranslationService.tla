-------------------------- MODULE TranslationService --------------------------
(***************************************************************************)
(* What the translation queue of crates/mpv-stt-plugin/src/translate.rs    *)
(* promises the plugin thread: a task that was submitted is answered,      *)
(* given up, or cancelled; a cancel takes back everything submitted before *)
(* it, except that one answer already on its way may still arrive.         *)
(* TranslationQueue implements this module and PluginSession uses it.      *)
(***************************************************************************)
CONSTANT Tasks

VARIABLES
  live,     \* submitted and neither answered, given up nor cancelled
  late,     \* cancelled, but the answer may still arrive
  answers,  \* answered and not yet fetched
  open      \* FALSE once the plugin has shut the queue down

vars == <<live, late, answers, open>>

Init == live = {} /\ late = {} /\ answers = {} /\ open = TRUE

Submit(t) ==
  /\ open /\ live' = live \cup {t} /\ UNCHANGED <<late, answers, open>>

\* A cancel, together with the tasks submitted anew in the same breath.
Cancel(renewed) ==
  /\ open /\ live' = renewed
  /\ late' \in {{}} \cup {{t} : t \in live \cup late}
  /\ UNCHANGED <<answers, open>>

Answer(t) ==
  /\ answers' = answers \cup {t}
  /\ \/ t \in live /\ live' = live \ {t} /\ UNCHANGED late
     \/ t \in late /\ late' = late \ {t} /\ UNCHANGED live
  /\ UNCHANGED open

GiveUp(t) ==
  /\ t \in live /\ live' = live \ {t} /\ UNCHANGED <<late, answers, open>>

Receive == answers' = {} /\ UNCHANGED <<live, late, open>>

\* Nothing that happens to the queue afterwards is seen by anybody.
Close == open' = FALSE /\ live' = {} /\ late' = {} /\ answers' = {}

\* The process is started again with a queue of its own.
Restart == open' = TRUE /\ live' = {} /\ late' = {} /\ answers' = {}

Next ==
  \/ \E t \in Tasks : Submit(t) \/ Answer(t) \/ GiveUp(t)
  \/ \E T \in SUBSET Tasks : Cancel(T)
  \/ Receive \/ Close \/ Restart

Spec == Init /\ [][Next]_vars
===============================================================================
