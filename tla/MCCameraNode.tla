---------------------------- MODULE MCCameraNode ----------------------------
EXTENDS CameraNode

\* Black, grey and white, with the colour parts at both ends and in the middle.
MCSample == [Y1 : {0, 100, 255}, U : {0, 128, 255}, Y2 : {0, 255}, V : {0, 128, 255}]

\* Frames of one sample, grey beside black or white, of every colour, and some
\* of two that differ in brightness and colour.
MCSeen ==
    {<<s>> : s \in {s \in MCSample : s.Y1 = 100}}
        \cup {<<s, [s EXCEPT !.Y1 = 0, !.V = 128]>> : s \in {s \in MCSample : s.Y1 = 255 /\ s.U = 255}}
=============================================================================
