---------------------------- MODULE MCStorage ----------------------------
EXTENDS Storage

Slash == <<"/">>
SlashEncoded == <<"%", "2", "F">>
Dot == <<".">>
Small == <<"f">>
SmallEnded == <<"f", ".">>

CapitalLetters == [c \in {"f"} |-> "F"]
DeviceNames == {<<"N">>}

\* Two names that meet if the percent sign is not encoded, and names that have
\* no file of their own.
FileNames == {<<>>, Slash, SlashEncoded, Small, SmallEnded}
DotNames == {<<>>, Dot}
==========================================================================
