----------------------- MODULE MCRawMessagePipeline -----------------------
(***************************************************************************)
(* Instances of RawMessagePipeline for TLC.                                *)
(***************************************************************************)
EXTENDS RawMessagePipeline, TLC

CONSTANTS t1, t2, t3, m1, m2, m3, r1, r2, w1, w2, l1, l2

It(r, ls) == [res |-> r, links |-> ls]

\* Two messages that mention the same two resources in opposite order, so that their
\* transactions can wait for each other, and one the parser finds nothing in.
CrossContent == (m1 :> <<It(r1, <<l1>>), It(r2, <<>>)>>) @@ (m2 :> <<It(r2, <<>>), It(r1, <<>>)>>)
                @@ (m3 :> <<>>)
CrossWorks == (r1 :> w1) @@ (r2 :> w2)
CrossItems == {It(r1, <<l1>>), It(r1, <<>>), It(r2, <<>>)}

\* Three messages about one resource: one creates it, the others merge into it.
SharedContent == (m1 :> <<It(r1, <<l1>>)>>) @@ (m2 :> <<It(r1, <<l2>>)>>) @@ (m3 :> <<It(r1, <<l2>>)>>)
SharedWorks == (r1 :> w1)
SharedItems == {It(r1, <<l1>>), It(r1, <<l2>>)}
=============================================================================
