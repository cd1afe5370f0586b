---------------------------- MODULE MCInstaller ----------------------------
EXTENDS Installer

MCVersions == {"v1", "v2"}
MCEvents == {"start", "stop"}

\* The second version has a hook less, and one permission of the first less and one more.
MCFragment == [v \in MCVersions |-> IF v = "v1" THEN {"start", "stop"} ELSE {"stop"}]
MCAllowEntries == [v \in MCVersions |-> IF v = "v1" THEN {"get", "list"} ELSE {"get", "update"}]

\* The user has one entry of his own, and perhaps allowed a tool of ours by hand.
MCUserAllows == {{"other"}, {"other", "get"}}
=============================================================================
