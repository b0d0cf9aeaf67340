---------------------------- MODULE MCPluginJobs ----------------------------
EXTENDS PluginJobs

CONSTANTS j1, j2, s1, s2, m1, t1

BothOrOne == {{j1, j2}, {j1}}
OneOrNone == {{j1}, {}}
=============================================================================
