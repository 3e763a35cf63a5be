------------------------------ MODULE MCUpdate ------------------------------
(* A small image, and what an interrupted run of the same image may have *)
(* left behind.                                                             *)
EXTENDS Update

Call(declared, override, skipVerify, force, skipJump, ackMode, expect) ==
  [valid |-> TRUE, declared |-> declared, override |-> override, skipVerify |-> skipVerify,
   force |-> force, skipJump |-> skipJump, ackMode |-> ackMode, expect |-> expect]

\* Verified, streamed or acknowledged, with and without a serial number to
\* expect; a CRC nothing can match, forced; no CRC, or one not to be checked,
\* with each way of accepting that; a CRC supplied; a bad image.
MCOptions ==
  {Call("image", "none", FALSE, FALSE, FALSE, ackMode, expect) :
     ackMode \in BOOLEAN, expect \in {"none", "mine"}}
  \cup {Call("wrong", "none", FALSE, TRUE, FALSE, FALSE, "mine"),
        Call("none", "none", FALSE, FALSE, FALSE, FALSE, "mine"),
        Call("none", "none", FALSE, TRUE, FALSE, FALSE, "mine"),
        Call("image", "none", TRUE, FALSE, TRUE, FALSE, "mine"),
        Call("image", "none", TRUE, FALSE, FALSE, FALSE, "mine"),
        Call("none", "image", FALSE, FALSE, FALSE, FALSE, "mine"),
        [Call("image", "none", FALSE, TRUE, FALSE, FALSE, "none") EXCEPT !.valid = FALSE]}

MCAnswers == {<<>>, <<Reply("verify", "image")>>, <<Reply("chunk", "none")>>}
MCRequests == {<<>>, <<[cmd |-> "verifyWrite"], [cmd |-> "verifyRead"]>>,
               <<FrameAt(Chunks), FrameAt(Chunks + 1)>>}
=============================================================================
