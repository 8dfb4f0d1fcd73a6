---------------------------- MODULE MCAdminPanel ----------------------------
(* A browser and a monitor behind one address. *)
EXTENDS AdminPanel

MCAddressOf == [c \in Tabs \cup Others |-> "office"]
=============================================================================
