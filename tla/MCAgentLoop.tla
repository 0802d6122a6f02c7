---------------------------- MODULE MCAgentLoop ----------------------------
(***************************************************************************)
(* Permission modes, policies and requests for AgentLoop.                   *)
(***************************************************************************)
EXTENDS AgentLoop

Shipped == {"irreversible_fs_write", "network_egress", "shell_with_sudo"}

Configured(modes, deny, allow, escalate) ==
    [mode : modes, deny : {deny}, allow : {allow}, escalate : {escalate}]

\* The modes the code names, with the shipped escalation, and each kind of policy file.
LoopSetups ==
    Configured({"default", "plan", "enterprise", "auto_edit", "sandbox", "auto_approve",
                "project_rules"}, {}, {}, Shipped)
    \union Configured({"project_rules"}, {"mcp_call"}, {"shell"}, Shipped)
    \union Configured({"auto_approve"}, {"subagent"}, {}, {})

LoopRequests ==
    [tool : {"read_file", "subagent", "mcp_call", "unknown"}, outside : {FALSE},
     danger : {"none"}]
    \union [tool : {"write_file"}, outside : BOOLEAN, danger : {"none"}]
    \union [tool : {"shell"}, outside : {FALSE}, danger : {"none", "risky", "sudo"}]

=============================================================================
