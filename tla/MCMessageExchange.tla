------------------------- MODULE MCMessageExchange -------------------------
(***************************************************************************)
(* Bounds for checking MessageExchange.  The session is the same whatever  *)
(* is written, and StreamSession is checked without them.                  *)
(***************************************************************************)
EXTENDS MessageExchange

\* Keep-alives reach the client only ahead of the first event: that is where they change
\* what the handler may still do.
KeepAlivesFirst == \A i \in 2..Len(wire) : wire[i].kind # "keepalive"

\* The second response has at most one frame: it starts with everything fresh.
ShortRetry == calls = 2 => seen <= 1

\* No time passes in the second attempt and once the context is cancelled.
EarlyTicks == calls = 2 \/ ctxDone => idle = 0
=============================================================================
