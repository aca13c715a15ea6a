----------------------------- MODULE MCLoginFlow -----------------------------
(* Instances of LoginFlow: the ingress and pages below it, of which auto-    *)
(* login ignores one.                                                        *)
EXTENDS LoginFlow

MCPages == {"/", "/a", "/ignored"}
MCIgnored == {"/ignored"}
=============================================================================
