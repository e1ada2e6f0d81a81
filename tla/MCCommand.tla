------------------------------ MODULE MCCommand ------------------------------
(* Two sticks of one size with different blocks, a smaller one, and an internal
   partition. *)
EXTENDS Command

MCPaths == {"p", "q"}

MCDrives == {"stick", "twin", "small", "system"}

MCAttr == [stick  |-> [size |-> 8, block |-> 1, internal |-> FALSE, whole |-> TRUE],
           twin   |-> [size |-> 8, block |-> 2, internal |-> FALSE, whole |-> TRUE],
           small  |-> [size |-> 4, block |-> 1, internal |-> FALSE, whole |-> TRUE],
           system |-> [size |-> 4, block |-> 1, internal |-> TRUE, whole |-> FALSE]]

Line(mode, flags, path) ==
    [mode |-> mode, readOnly |-> "readOnly" \in flags, unmount |-> "unmount" \in flags,
     remount |-> "remount" \in flags, force |-> "force" \in flags, yes |-> "yes" \in flags,
     sample |-> 1, path |-> path]

MCRequests ==
    {Line("check", {"unmount", "remount"}, p) : p \in MCPaths}
    \cup {Line("check", {"force"}, None), Line("check", {"readOnly"}, "p"),
          Line("restore", {"unmount", "remount"}, "p"), Line("restore", {"yes"}, "q"),
          Line("restore", {"readOnly", "force"}, "p"), Line("speed", {}, None)}
=============================================================================
