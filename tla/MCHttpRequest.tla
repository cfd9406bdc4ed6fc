--------------------------- MODULE MCHttpRequest ---------------------------
(* Model checking of HttpRequest: requests with every end of line, path and *)
(* body the code tells apart, and names with bytes that need encoding.      *)
EXTENDS HttpRequest, TLC

MCCode == (" " :> 32) @@ ("%" :> 37) @@ ("a" :> 97) @@ ("byte e4" :> 228)

MCPlain == {"a", "e", "x", "2", "5", "t", "/", ".", "404", "501", "index", "html", "css"}

MCDisk ==
  (NotFound :> 7) @@ (NotImplemented :> 5) @@ (Index :> 9) @@ (DataText :> 3) @@ (ErrorText :> 4)
  @@ (<<"static">> :> Directory) @@ (<<"static", "t">> :> Directory)
  @@ (<<"static", "t", "/", " ", "x">> :> Directory)
  @@ (<<"static", "t", "/", "a", "%", "2", "5", " ", ".", "css">> :> 6)
  @@ (<<"static", "t", "/", "byte e4", "%">> :> 8)

Line(method, path, end) == <<method, " ">> \o path \o <<" ", "HTTP/1.1">> \o end

Host == <<"Host", ":", "x">>
Form == <<"i", "d", "=", "x", "&", "n", "a", "m", "e", "=", "a">>
Echo == <<"/", "api", "/", "echo">>

Gets ==
  {Line("GET", p, <<CR, LF>>) \o Host \o <<CR, LF, CR, LF>> :
     p \in {<<"/">>, <<"/", "api", "/", "check">>, <<"/", "t">>, <<"/", "t", "/">>,
            <<"/", "%", "6", "1">>, <<"/", "t", "/", "%", "2", "0", "x">>,
            <<"/", "404", ".", "html">>, <<"/", "501", ".", "html">>}}

Ends ==
  {Line("GET", <<"/">>, e) \o Host \o e \o f :
     e \in {<<LF>>, <<CR>>, <<CR, LF>>}, f \in {<<>>, <<LF>>, <<CR>>, <<CR, LF>>}}

Posts ==
  {Line("POST", p, <<CR, LF>>) \o h \o <<CR, LF>> \o b :
     p \in {Echo, <<"/">>}, h \in {<<>>, Host \o <<CR, LF>>},
     b \in {<<>>, Form, <<"i", "d", "&", "n", "a", "m", "e">>, <<"n", "a", "m", "e">>}}

\* Lines that fill the buffer, exactly and with a byte over.
Longs ==
  {Line("GET", <<"/">>, <<LF>>) \o [i \in 1..n |-> "x"] \o <<LF>> \o Host \o <<LF, LF>> : n \in {LineSize, LineSize + 1}}

MCRequests ==
  Gets \cup Ends \cup Posts \cup Longs
  \cup {<<>>, Line("PUT", <<"/">>, <<LF, LF>>), <<"GET", " ", "/", LF, LF>>,
        Line("GET", [i \in 1..LineSize |-> "x"], <<LF, LF>>)}
=============================================================================
