-------------------------------- MODULE FsPane --------------------------------
(***************************************************************************)
(* The right pane of the main window: the current directory of the         *)
(* process, the path the program keeps of it, the text in the entry above  *)
(* the list, and the list, over a file system that others change.          *)
(***************************************************************************)
EXTENDS Integers, FiniteSets, FiniteSetsExt

CONSTANTS
  Dirs,       \* directories other than the root, as the system knows them
  Root,       \* the directory that is always at "/"
  Names,      \* names of entries
  IsoNames,   \* those that end in "iso", in any case
  DotNames,   \* those taken for hidden
  Unreadable, \* directories that can be entered but not read
  Home,       \* the path of the user's home directory
  None, File, Broken,   \* no entry; a file; an entry stat fails on
  MaxItems    \* entries of cur_dir_list (1024)

ASSUME ListHasRoom == MaxItems \in Nat \ {0}
ASSUME NamesAreFinite == IsFiniteSet(Names)

VARIABLES
  tree,          \* the entries of every directory
  cwd,           \* the process's current directory
  cur_directory, \* ... as a path
  text,          \* the path in the entry fs_cur_dir
  rows,          \* name and is_dir of the rows of fs_list
  listed,        \* the directory whose entries they are
  show_hidden_files,
  \* history
  used,          \* the directory a file was added from or written to just now
  untouched      \* has what is at the path cur_directory been the same ever
                 \* since the list was made

vars == <<tree, cwd, cur_directory, text, rows, listed, show_hidden_files, used,
          untouched>>

-----------------------------------------------------------------------------
(* The file system: directories are in the root, everything else anywhere. *)

Paths == {"/"} \cup Names
At(t, path) == IF path = "/" THEN Root ELSE t[Root][path]
IsDir(entry) == entry \in Dirs \cup {Root}

Leaves == {None, File, Broken}
Trees == {t \in [Dirs \cup {Root} -> [Names -> Leaves \cup Dirs]] :
            /\ \A d \in Dirs, n \in Names : t[d][n] \in Leaves
            /\ \A n, m \in Names : t[Root][n] \in Dirs =>
                                     n = m \/ t[Root][n] # t[Root][m]}

PathsOf(t, d) == {path \in Paths : At(t, path) = d}

-----------------------------------------------------------------------------
(* list_dir_attr                                                           *)

is_dir(entry) ==
  CASE IsDir(entry)   -> 1
    [] entry = File   -> 0
    [] entry = Broken -> -1

\* "! is_dir" is false of an entry that stat fails on, too.
Passes(n, entry) ==
  /\ entry # None
  /\ show_hidden_files' \/ n \notin DotNames
  /\ is_dir(entry) = 0 => n \in IsoNames

Items(d) == {<<n, is_dir(tree'[d][n])>> : n \in {m \in Names : Passes(m, tree'[d][m])}}

\* readdir's order is any; the loop keeps a place for the end of the list.
Room == MaxItems - 1

list_dir_attr(d) ==
  IF ~IsDir(d) \/ d \in Unreadable THEN {{}}
  ELSE kSubset(Min({Cardinality(Items(d)), Room}), Items(d))

-----------------------------------------------------------------------------
(* update_fs_list                                                          *)

\* The current directory may be one that was deleted.
getcwd_or_the_last == IF PathsOf(tree', cwd') = {} THEN {cur_directory} ELSE PathsOf(tree', cwd')
getcwd == IF PathsOf(tree', cwd') = {} THEN {"/"} ELSE PathsOf(tree', cwd')

\* The directory that is read is found again by the path.
ReadAsTheProcess == cwd'
Read == At(tree', cur_directory')

update_fs_list ==
  /\ cur_directory' \in getcwd
  /\ text' = cur_directory'
  /\ listed' = Read
  /\ rows' \in list_dir_attr(listed')
  /\ untouched' = TRUE

\* chdir, and the list when it succeeds; else an error message.
ChangeTo(dir) ==
  /\ IsDir(dir)
  /\ cwd' = dir
  /\ used' = None
  /\ UNCHANGED <<tree, show_hidden_files>>
  /\ update_fs_list

\* The root was empty when the window was set up; others have filled it since.
Init ==
  /\ tree \in Trees
  /\ cwd = Root /\ cur_directory = "/" /\ text = "/"
  /\ rows = {} /\ listed = Root
  /\ show_hidden_files = FALSE
  /\ used = None /\ untouched = TRUE

-----------------------------------------------------------------------------
(* The handlers.                                                           *)

Type ==
  /\ text' \in Paths
  /\ used' = None
  /\ UNCHANGED <<tree, cwd, cur_directory, rows, listed, show_hidden_files, untouched>>

change_cur_dir == ChangeTo(At(tree, text))

\* A row of a directory.  Something else may be at its path by now.
RowDirectory ==
  \E n \in Names : cur_directory = "/" /\ <<n, 1>> \in rows /\ ChangeTo(At(tree, n))

\* The rows "." and "..".
RowDots ==
  /\ IsDir(At(tree, cur_directory))
  /\ \E dir \in {At(tree, cur_directory), Root} : ChangeTo(dir)

fs_go_home_clicked_cb == ChangeTo(At(tree, Home))

menu_view_hidden_files_toggled_cb ==
  /\ show_hidden_files' = ~show_hidden_files
  /\ used' = None
  /\ UNCHANGED <<tree, cwd>>
  /\ update_fs_list

\* The directory of the path a file is added from or written to.
FileDir == At(tree, cur_directory)

\* A row with a file, from the Add button or a double click.
confirm_add_iso_file ==
  /\ \E n \in Names : /\ <<n, 0>> \in rows
                      /\ IsDir(FileDir) /\ tree[FileDir][n] = File
  /\ used' = FileDir
  /\ UNCHANGED <<tree, cwd, cur_directory, text, rows, listed, show_hidden_files,
                 untouched>>

\* The name is made of the disc's.  An existing file is written over.
iso_extract_clicked_cb ==
  /\ \/ \E n \in IsoNames :
          /\ IsDir(FileDir) /\ tree[FileDir][n] \in Leaves
          /\ tree' = [tree EXCEPT ![FileDir][n] = File]
          /\ used' = FileDir
     \/ UNCHANGED tree /\ used' = None  \* the file cannot be opened
  /\ UNCHANGED <<cwd, show_hidden_files>>
  /\ update_fs_list

\* Others make, delete and replace an entry; a directory that is deleted is
\* empty.
Others == \E d \in Dirs \cup {Root}, n \in Names, entry \in Leaves \cup Dirs :
  /\ PathsOf(tree, d) # {}
  /\ tree[d][n] \in Dirs => \A m \in Names : tree[tree[d][n]][m] = None
  /\ tree' = [tree EXCEPT ![d][n] = entry]
  /\ tree' \in Trees
  /\ used' = None
  /\ untouched' = (untouched /\ At(tree', cur_directory) = At(tree, cur_directory))
  /\ UNCHANGED <<cwd, cur_directory, text, rows, listed, show_hidden_files>>

Next ==
  \/ Type \/ change_cur_dir \/ RowDirectory \/ RowDots \/ fs_go_home_clicked_cb
  \/ menu_view_hidden_files_toggled_cb
  \/ confirm_add_iso_file \/ iso_extract_clicked_cb
  \/ Others

Spec == Init /\ [][Next]_vars

-----------------------------------------------------------------------------
\* Files are added from, and written to, the directory that was read for the
\* list on the screen, though it is found a second time and by a path that
\* may be another than that of the process's directory, which can be gone:
\* only what others do to that path after the list was made can come between.
FilesOfTheList ==
  [][used' # None /\ untouched => used' = listed]_vars

\* The list is of the process's directory, or of the root once that one is
\* gone, and however many entries that has, the list leaves the last place of
\* cur_dir_list to its end mark.
ListIsOfTheProcess ==
  /\ listed = cwd \/ (listed = Root /\ cur_directory = "/")
  /\ Cardinality(rows) < MaxItems

\* The inductive invariant behind FilesOfTheList.
PathIsOfTheList == untouched => At(tree, cur_directory) = listed
================================================================================
