------------------------------- MODULE MCPoll -------------------------------
EXTENDS DevicePoll, TLC

CONSTANTS a, b, x, m1, m2

\* What the section of one device may be in the file, and what it says.  The second
\* mapping names its fields differently: one is missing, one grows over the
\* limit, and one section gets the key of another.
Sections == {"short", "long", "clashing"}

Says(section, m) ==
  CASE section = "short" -> IF m = m1 THEN a ELSE b
    [] section = "long" -> IF m = m1 THEN b ELSE x
    [] section = "clashing" -> Absent

MCTexts == [Devices -> Sections]
MCDecode ==
  [p \in MCTexts \X Mappings |->
     IF p[2] = m2 /\ \E d \in Devices : p[1][d] = "clashing" THEN Malformed
     ELSE [d \in Devices |-> Says(p[1][d], p[2])]]
=============================================================================
