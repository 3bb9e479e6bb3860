----------------------------- MODULE MCPrivDrop ------------------------------
(* Instance of PrivDrop for TLC: three uids, the capabilities it uses.     *)
EXTENDS PrivDrop

Caps == {"SETUID", "SETGID", "SETPCAP"}
AnyCaller == {"root", "alice"}
AnyTarget == {"root", "alice", "bob"}
UsersGroup == {"users"}
StaffGroups == {"staff", "audio"}
Modules == {"selinux", "apparmor"}
Narrowed == {Caps, Caps \ {"SETUID"}}
==============================================================================
