------------------------------ MODULE MCLoader ------------------------------
(***************************************************************************)
(* The loaders on small files: kernels and caches of a few segments, and   *)
(* property lists that are good, not wanted, cut off or begin with a list. *)
(***************************************************************************)
EXTENDS LoadDrivers

Time(y, mo, d, h, mi, s) ==
    [Year |-> y, Month |-> mo, Day |-> d, Hour |-> h, Minute |-> mi, Second |-> s]
MCTimes == {Time(2016, 2, 28, 23, 59, 59), Time(2016, 2, 29, 0, 0, 0),
            Time(2016, 3, 1, 0, 0, 0),
            Time(2015, 2, 28, 23, 59, 59), Time(2015, 3, 1, 0, 0, 0),
            Time(2015, 12, 31, 23, 59, 59), Time(2016, 1, 1, 0, 0, 0)}

Segment(n, va, vsize, fsize) ==
    [kind |-> "segment", name |-> n, va |-> KernelBase + va, vsize |-> vsize, fsize |-> fsize]
Symtab == [kind |-> "symtab"]
Dysymtab(r) == [kind |-> "dysymtab", relocations |-> r]
Thread(ok) == [kind |-> "thread", x64 |-> ok]

Plain == <<Segment("__TEXT", 1, 2, 2), Segment("__DATA", 3, 2, 1),
           Segment("__LINKEDIT", 5, 1, 1), Segment("__EMPTY", 6, 0, 0)>>
Good == Plain \o <<Symtab, Dysymtab("good"), Thread(TRUE)>>

File(commands, pie) ==
    [commands |-> commands, pie |-> pie, compressed |-> "no", supportASLR |-> FALSE,
     thisMachine |-> TRUE]
Cache(commands, c, aslr, here) ==
    [commands |-> commands, pie |-> TRUE, compressed |-> c, supportASLR |-> aslr,
     thisMachine |-> here]

MCKernels == {File(Good, TRUE), File(Good, FALSE),
              File(<<Segment("__TEXT", 1, 2, 2), Segment("__BSS", 3, 3, 0), Thread(TRUE)>>,
                   TRUE)}
MCCaches == {Cache(Good, "lz", TRUE, TRUE),
             Cache(Good, "lz", FALSE, TRUE),
             Cache(Good, "lz", FALSE, FALSE),
             Cache(Good, "other", FALSE, TRUE),
             Cache(Plain \o <<Symtab, Dysymtab("bad"), Thread(TRUE)>>, "no", FALSE, TRUE),
             Cache(Plain \o <<Thread(FALSE)>>, "lz", TRUE, TRUE),
             Cache(<<Segment("__TEXT", 1, 2, 2), Dysymtab("good"), Thread(TRUE)>>,
                   "no", FALSE, TRUE),
             Cache(<<Segment("__TEXT", 1, 2, 2), Segment("__BSS", 3, 1, 0), Symtab,
                     Thread(TRUE)>>, "no", FALSE, TRUE)}

Node(type, text, below) == [type |-> type, text |-> text, below |-> below]
Str(text) == Node("string", text, <<>>)
Key(text, value) == Node("key", text, <<value>>)
Dict(keys) == Node("dict", NoString, keys)

Tag(name) == [name |-> name, text |-> NoString, complete |-> TRUE]
Text(name, text) == [name |-> name, text |-> text, complete |-> TRUE]
StringKey(key, text) == <<Text("key", key), Text("string", text)>>

\* A driver with code, one without, one for safe boots only; a file that is cut
\* off in a string, and one that begins with a list.
Driver ==
    [tree |-> Dict(<<Key("OSBundleRequired", Str("Root")), Key("CFBundleExecutable", Str("Root"))>>),
     document |-> <<Tag("?xml"), Tag("plist"), Tag("dict")>> \o StringKey("OSBundleRequired", "Root")
                  \o StringKey("CFBundleExecutable", "Root") \o <<Tag("/dict"), Tag("/plist")>>]
Codeless ==
    [tree |-> Dict(<<Key("OSBundleLibraries", Dict(<<Key("a", Str("1"))>>)),
                     Key("IOKitPersonalities", Dict(<<>>)), Key("OSBundleRequired", Str("Root"))>>),
     document |-> <<Tag("dict"), Text("key", "OSBundleLibraries"), Tag("dict")>>
                  \o StringKey("a", "1") \o <<Tag("/dict")>>
                  \o <<Text("key", "IOKitPersonalities"), Tag("dict/")>>
                  \o StringKey("OSBundleRequired", "Root") \o <<Tag("/dict")>>]
SafeBoot ==
    [tree |-> Dict(<<Key("OSBundleRequired", Str("Safe Boot"))>>),
     document |-> <<Tag("dict")>> \o StringKey("OSBundleRequired", "Safe Boot") \o <<Tag("/dict")>>]
CutOff ==
    [tree |-> Dict(<<>>),
     document |-> <<Tag("dict")>> \o StringKey("OSBundleRequired", "Root")
                  \o <<Text("key", "a"), [Text("string", "1") EXCEPT !.complete = FALSE]>>]
ListFirst ==
    [tree |-> Driver.tree,
     document |-> <<Tag("array"), Text("data", "1"), Text("string", "a"), Tag("/array")>>
                  \o Driver.document]

MCPlists == {Driver, Codeless, SafeBoot, CutOff, ListFirst}
=============================================================================
