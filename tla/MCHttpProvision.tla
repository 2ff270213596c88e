-------------------------- MODULE MCHttpProvision --------------------------
(* Three files of which two have one name; a header that fits in a window of *)
(* three bytes, and one whose end lies across two windows, before a body     *)
(* that looks like the end of a header.                                      *)
EXTENDS HttpProvision

Header == <<"sp", "nl", "nl">>
Small  == <<"b1", "b2", "nl", "nl">>
Tricky == <<"nl", "sp", "nl", "nl">>

MCManifest == <<[name |-> "a", pinned |-> Small], [name |-> "b", pinned |-> Tricky]>>
MCPlan == PlanFor(MCManifest, <<1, 2, 1>>)

MCResponses == {[header |-> Header, body |-> Small], [header |-> Header, body |-> <<>>],
                [header |-> <<"sp", "h", "nl", "nl">>, body |-> Tricky]}
=============================================================================
