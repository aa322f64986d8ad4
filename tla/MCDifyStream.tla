----------------------------- MODULE MCDifyStream -----------------------------
(***************************************************************************)
(* Streams of up to three events for DifyStream: whole answers, answers    *)
(* with pings and lines that are no JSON between them, an error before,    *)
(* between and after messages, ids on the first event or only at the end.  *)
(***************************************************************************)
EXTENDS DifyStream

Event(kind, ids) == [kind |-> kind, ids |-> ids]

Streams ==
  {<<Event("message", i), Event(k, FALSE), Event("message_end", TRUE)>> :
     i \in BOOLEAN, k \in {"message", "ping", "broken", "error"}}
  \cup {<<Event("ping", FALSE), Event("error", TRUE), Event("message", TRUE)>>,
        <<Event("message_end", TRUE), Event("message", FALSE)>>}
===============================================================================
