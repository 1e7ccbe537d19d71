------------------------------ MODULE MCFatFs ------------------------------
EXTENDS FatFs
MCPaths == {<<"a">>, <<"b">>, <<"d">>, <<"d", "a">>}
MCModes == {{"WRITE", "CREATE_ALWAYS"}, {"READ", "WRITE", "OPEN_ALWAYS", "SEEKEND"}}

(* A volume with a file of three units, /a, and a directory, /d.           *)
Data == [o \in 0 .. 2 |-> Datum("a", o)]
Used ==
    LET Next_(s) == Start(s.v, s.disk, 0)
        Opened == f_open(Start(Mounted(Formatted), Formatted, 0), Abs(<<"a">>),
                         {"WRITE", "CREATE_ALWAYS"})
        Written(o) == f_write([Next_(o) EXCEPT !.fp = o.fp, !.data = Data], 3)
        Closed(w) == f_close([Next_(w) EXCEPT !.fp = w.fp])
    IN  f_mkdir(Next_(Closed(Written(Opened))), Abs(<<"d">>)).disk
MCVolumes == {[disk |-> Formatted, kept |-> Nothing],
              [disk |-> Used, kept |-> [p \in {<<"a">>} |-> Data]]}
=============================================================================
