---------------------------- MODULE MCPostInstall ----------------------------
EXTENDS PostInstall

(* Each optional stage is in some template and missing in another. *)
AllTemplates == {
    {"agent", "exe", "layout", "tools", "features", "scripts", "updates", "join", "admin"},
    {"agent", "msi", "rdp", "updates"},
    {"exe", "tools", "join"}}

ToolsTemplate == {{"tools"}}
===============================================================================
