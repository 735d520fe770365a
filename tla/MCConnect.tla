----------------------------- MODULE MCConnect -----------------------------
(* Connect for TLC: every combination of port mapper, TLS, socket timeout, *)
(* connect timeout and cancellation against servers that may fail, and the *)
(* three ways to send a password against servers that do not.              *)
EXTENDS Connect

Setting(m, t, w, b, c, l, h) ==
  [mapped |-> m, tls |-> t, wrapped |-> w, bounded |-> b, cancel |-> c, libraries |-> t,
   package |-> m /\ ~h, level |-> l, healthy |-> h]

MCSettings ==
  {Setting(m, t, w, b, c, 0, FALSE) : m, t, w, b, c \in BOOLEAN}
  \cup {Setting(m, t, w, b, FALSE, l, TRUE) : m, t, w, b \in BOOLEAN, l \in {1, 3, 4}}
=============================================================================
