----------------------------- MODULE MCFixLadder -----------------------------
(* Requests, adapters and settings that reach every branch of the ladder.  *)
EXTENDS FixLadder

MCRate == {0, 1, 59, 60, 75, 119, 120}

Asked(windowed, format, rate) ==
    [windowed |-> windowed, format |-> format, rate |-> rate,
     lockable |-> TRUE, interval |-> "game"]
MCRequest ==
    {Asked(FALSE, "R5G6B5", r) : r \in {0, 60, 75}}
    \cup {Asked(FALSE, f, 60) : f \in {"A1R5G5B5", "A8R8G8B8"}}
    \cup {Asked(FALSE, "X8R8G8B8", 0)}
    \cup {Asked(TRUE, f, 0) : f \in {"R5G6B5", "A8R8G8B8", "UNKNOWN"}}

\* Modes of the 16-bit formats and of the scanout format; no A8R8G8B8 mode.
Sees(desktop, win32, shallow, deep) ==
    [desktop |-> desktop, win32 |-> win32,
     modes |-> [f \in Format |-> CASE f \in Shallow -> shallow
                                   [] f = "X8R8G8B8" -> deep
                                   [] OTHER -> {}]]
MCAdapter == {Sees(0, 0, {}, {}), Sees(0, 75, {75}, {59, 75, 120}),
              Sees(60, 0, {0, 75}, {120}), Sees(119, 0, {}, {59, 75, 119})}

Setting(paced, kind, target) ==
    [paced |-> paced, mode |-> [kind |-> kind, target |-> target]]
MCSession ==
    {[keep_lockable |-> u, upgrade_16bit |-> u, reset_ex |-> x,
      paced |-> s.paced, mode |-> s.mode] :
        u \in BOOLEAN, x \in BOOLEAN,
        s \in {Setting(FALSE, "Native", 0), Setting(TRUE, "Native", 0),
               Setting(TRUE, "NativeMultiple", 0), Setting(TRUE, "Fixed", 1),
               Setting(TRUE, "Fixed", 120)}}
=============================================================================
