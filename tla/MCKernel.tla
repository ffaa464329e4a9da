------------------------------ MODULE MCKernel ------------------------------
(***************************************************************************)
(* Instances of Kernel for TLC.  Three TAs and a PTA: `shared' is a single *)
(* instance for several sessions, `hello' a single instance for one        *)
(* session (the header of ta/hello-rs), `multi' gets an instance per       *)
(* session; `shared' also exists as a kept-alive image.                    *)
(***************************************************************************)
EXTENDS KernelInv

CONSTANTS pta, hello, shared, multi

Img(u, single, many, keep, entries) ==
    [uuid |-> u, single_instance |-> single, multi_session |-> many,
     instance_keep_alive |-> keep, entries |-> entries]

MCUuid == {pta, hello, shared, multi}
MCSmallUuid == {pta, hello, shared}
MCPtas == {pta}

MCImages == {Img(hello, TRUE, FALSE, FALSE, FALSE), Img(multi, FALSE, FALSE, FALSE, TRUE)}
MCSmallImages == {Img(hello, TRUE, FALSE, FALSE, TRUE)}
MCEarly == [u \in {shared} |-> Img(shared, TRUE, TRUE, TRUE, TRUE)]
MCEarlyPlain == [u \in {shared} |-> Img(shared, TRUE, TRUE, FALSE, FALSE)]

P(good, fail) == [good |-> good, fail |-> fail]
MCParams == {P(1, "none"), P(1, "long"), P(0, "bad")}
MCSmallParams == {P(1, "none")}

=============================================================================
