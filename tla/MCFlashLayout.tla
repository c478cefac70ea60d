--------------------------- MODULE MCFlashLayout ---------------------------
EXTENDS FlashLayout

Sec(name, template, properties) ==
  [name |-> name, template |-> template, properties |-> properties]
NoProps == [k \in {} |-> 0]
Size(n) == [size |-> n]
Files(fs) == [files |-> fs]
File(name_len, size) == [name_len |-> name_len, size |-> size]
Table == Sec("table", "partition table", NoProps)
Boot(segments) == [binary |-> segments, boot |-> TRUE]

MCContents == {
  \* default_flash_content.json
  <<Sec("rom", "rom", [boot |-> FALSE]), Table, Sec("readfs", "readfs", Files(<<>>)),
    Sec("hostfs", "hostfs", Files(<<>>)), Sec("raw", "raw", Size(Rest))>>,
  \* everything in use
  <<Sec("rom", "rom", Boot(<<40, 0>>)), Table, Sec("readfs", "readfs", Files(<<File(5, 20)>>)),
    Sec("lfs", "lfs", [size |-> 64, root_dir |-> "dir"]), Sec("raw", "raw", Size(32))>>,
  \* littlefs first, sections behind a readfs, a forced ROM size
  <<Sec("lfs", "lfs", Size(0)), Sec("readfs", "readfs", Files(<<File(3, 7)>>)), Table,
    Sec("rom", "rom", [size |-> 96, binary |-> <<9>>, boot |-> TRUE])>>,
  \* nothing left behind a raw that takes the rest, and a larger one
  <<Sec("readfs", "readfs", Files(<<File(3, 7)>>)), Sec("lfs", "lfs", [size |-> Rest, img_path |-> "img"]),
    Sec("rom", "rom", NoProps)>>,
  <<Sec("raw", "raw", Size(Rest)), Table>>,
  <<Sec("rom", "rom", Boot(<<600>>)), Sec("readfs", "readfs", Files(<<>>))>>,
  <<Sec("raw", "raw", Size(600)), Table, Sec("rom", "rom", NoProps)>>,
  \* missing properties, an unknown template, no sections
  <<Sec("rom", "rom", NoProps), Sec("raw", "raw", NoProps)>>,
  <<Sec("rom", "rom", NoProps), Sec("ext4", "ext4", Size(32))>>,
  <<>> }

Value(section, key, value) == [section |-> section, key |-> key, value |-> value]
MCOverrides == {
  <<>>,
  <<Value("rom", "size", 100)>>,
  <<Value("rom", "binary", <<24>>), Value("rom", "boot", TRUE)>>,
  <<Value("readfs", "files", File(4, 30)), Value("readfs", "files", File(2, 1))>>,
  <<Value("raw", "size", 48)>>,
  <<Value("raw", "files", File(2, 1))>> }

MCScripts ==
  {<<"image", "flash_dump_sections", "image">>} \cup
  [1 .. 2 -> {"flash_layout", "flash_properties", "flash_dump_sections", "image"}]

Aligned(start, size, lfs) ==
  [start_align |-> start, size_align |-> size, littlefs_align |-> lfs]
MCAttributes == {Aligned(None, None, None), Aligned(32, None, 16),
                 Aligned(16, 64, None), Aligned(64, 16, 128)}
=============================================================================
