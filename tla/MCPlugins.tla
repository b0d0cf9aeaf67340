----------------------------- MODULE MCPlugins -----------------------------
EXTENDS PluginLifecycle

CONSTANTS admin, boot, c1

AdminOps == {"install", "enable", "disable", "unload", "upgrade", "restart"}
MCKinds == [o \in Operators |-> IF o = admin THEN AdminOps ELSE {}]
=============================================================================
