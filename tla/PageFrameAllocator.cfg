\* 13 pages of memory, a bitmap of 16 bits, pages 0..1 reserved, the bitmap in
\* page 1 .. 1 + 2 \div 1 (so it overlaps the reserved pages), runs of up to 3.
CONSTANTS
    MemPages = 13
    ReservedPages = 2
    BufferPage = 1
    BytesPerPage = 1
    MaxCount = 3
SPECIFICATION PagesSpec
INVARIANTS LockedIsOwned OneHolder PageCountersAgree PanicOnlyWhenFull
CHECK_DEADLOCK FALSE
