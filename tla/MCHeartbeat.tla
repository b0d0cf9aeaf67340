----------------------------- MODULE MCHeartbeat -----------------------------
EXTENDS HeartbeatService

Wake(i, comment, mention) == [issue |-> i, comment |-> comment, mention |-> mention]

IssueWakes   == {Wake(i, FALSE, FALSE) : i \in Issues}
CommentWakes == {Wake(i, TRUE, FALSE) : i \in Issues}
MentionWakes == {Wake(i, TRUE, TRUE) : i \in Issues}
TimerWakes   == {Wake(NoIssue, FALSE, FALSE)}
AllWakes     == IssueWakes \cup CommentWakes \cup MentionWakes \cup TimerWakes
UnmentionedWakes == IssueWakes \cup CommentWakes \cup TimerWakes
=============================================================================
